-------------------------------- MODULE HubAccount --------------------------------
(***************************************************************************)
(* The account at the operator's hub: what the customer has agreed to       *)
(* (legal_consent.py), how the gateway is connected (hub_client.py), and    *)
(* what may be ordered there (webui/routen/hub.py, webui/app.py).            *)
(*                                                                          *)
(* A document comes with the gateway and changes with it; a consent is a    *)
(* row that names the text it was given to and is never removed.  Calls to  *)
(* the hub wait for it: other requests are served meanwhile, and an answer  *)
(* may be lost.                                                             *)
(***************************************************************************)
EXTENDS Integers

CONSTANTS
    MaxEdition,    \* editions a document may go through
    MaxHubAct,     \* bound on what administrators do
    MaxClaim,      \* bound on registrations
    MaxHubFault    \* bound on updates, lost answers and restarts

ASSUME AccountAssumption ==
    /\ MaxEdition \in Nat \ {0} /\ MaxClaim \in Nat \ {0}
    /\ MaxHubAct \in Nat /\ MaxHubFault \in Nat

Doc == {"hub-terms", "license-supplement", "payment-invoice", "dpa"}
Edition == 1..MaxEdition
Text == [doc : Doc, edition : Edition]
NoText == [doc |-> "none", edition |-> 0]
None == 0
Claim == 1..MaxClaim              \* a claim token, and the key the hub issues for it

\* CONTEXT_DOCUMENTS.
Required ==
    [hub_connect      |-> {"hub-terms", "license-supplement"},
     invoice_request  |-> {"payment-invoice"},
     license_purchase |-> {"license-supplement"},
     support_upload   |-> {"dpa"},
     billing_charge   |-> {"hub-terms"}]

VARIABLES
    current,       \* [Doc -> Edition] in the image that runs
    consents,          \* legal_consent.db: the texts consent was given to
    page,          \* the text an administrator has before him
    hubKey, claim,    \* HUB_API_KEY, HUB_CLAIM_TOKEN
    calls,         \* calls the hub has not answered yet
    hub,           \* the hub: claims it knows, confirmed ones, live keys, receipts, and
                   \* certificates bought, each by the texts its order named
    licence,       \* LICENSE_KEY: none, for this tenant, or one that has run out
    tokens,        \* claim tokens made so far
    hubActs, hubFaults,
    shown,         \* ghost: texts that were shown to an administrator
    sent           \* ghost: orders that went to the hub, with the editions then current

consent == <<current, consents, page, shown>>
account == <<hubKey, claim, licence>>
accountVars == <<consent, account, calls, hub, tokens, hubActs, hubFaults, sent>>

\* A gateway that was just installed, or one that has been connected for long.
AccountInit ==
    /\ current = [d \in Doc |-> 1] /\ page = NoText /\ calls = {} /\ sent = {}
    /\ claim = None /\ licence = "none" /\ hubActs = 0 /\ hubFaults = 0
    /\ \/ /\ hubKey = None /\ tokens = 0 /\ consents = {}
          /\ hub = [claims |-> {}, confirmed |-> {}, live |-> {}, receipts |-> {}, bought |-> {}]
       \/ /\ hubKey = 1 /\ tokens = 1
          /\ consents = [doc : Required.hub_connect, edition : {1}]
          /\ hub = [claims |-> {}, confirmed |-> {1}, live |-> {1}, receipts |-> consents,
                    bought |-> {}]
    /\ shown = consents

HubAct == hubActs < MaxHubAct /\ hubActs' = hubActs + 1
HubFault == hubFaults < MaxHubFault /\ hubFaults' = hubFaults + 1
Registered == hubKey # None

(***************************************************************************)
(* Consent                                                                 *)
(***************************************************************************)

\* has_valid_consent: the edition that is current, not an earlier one.
AnyEdition(d) == \E r \in consents : r.doc = d
HasValidConsent(d) == [doc |-> d, edition |-> current[d]] \in consents
ContextConsented(c) == \A d \in Required[c] : HasValidConsent(d)

\* pending_reconsent: agreed to once, and changed since.
PendingReconsent == {d \in Doc : AnyEdition(d) /\ ~HasValidConsent(d)}

\* get_consent_receipts_for_hub: what there is of the two.
Receipts(given) == {r \in given : r.doc \in Required.hub_connect /\ r.edition = current[r.doc]}

\* api_legal_doc.
Read(d) ==
    /\ HubAct /\ page' = [doc |-> d, edition |-> current[d]] /\ shown' = shown \cup {page'}
    /\ UNCHANGED <<current, consents, account, calls, hub, hubFaults, sent, tokens>>

\* api_legal_consent: the page says what was agreed to; another edition is
\* refused.  The receipts follow if the gateway is connected.
Agree ==
    /\ HubAct /\ page # NoText
    /\ page.edition = current[page.doc]
    /\ consents' = consents \cup {page}
    /\ calls' = IF Registered
                THEN calls \cup {[kind |-> "receipts", claim |-> None, texts |-> Receipts(consents')]}
                ELSE calls
    /\ UNCHANGED <<current, page, shown, account, hub, hubFaults, sent, tokens>>

\* An update brings other texts.  It restarts the gateway: what was waiting
\* for an answer is gone, the page in the browser is not.
NewEdition(d) ==
    /\ HubFault /\ current[d] < MaxEdition /\ current' = [current EXCEPT ![d] = @ + 1] /\ calls' = {}
    /\ UNCHANGED <<consents, page, shown, account, hub, hubActs, sent, tokens>>

(***************************************************************************)
(* The connection                                                          *)
(***************************************************************************)

\* register: a new claim token replaces the one that is waiting.
Register ==
    /\ HubAct /\ tokens < MaxClaim /\ tokens' = tokens + 1
    /\ ContextConsented("hub_connect")
    /\ claim' = tokens'
    /\ calls' = calls \cup {[kind |-> "register", claim |-> tokens', texts |-> Receipts(consents)]}
    /\ UNCHANGED <<consent, hubKey, licence, hub, hubFaults, sent>>

\* poll_claim.
PollClaim ==
    /\ HubAct /\ claim # None
    /\ calls' = calls \cup {[kind |-> "claim", claim |-> claim, texts |-> {}]}
    /\ UNCHANGED <<consent, account, hub, hubFaults, sent, tokens>>

\* disconnect: the hub is told first, with the key; without one nobody is.
Disconnect ==
    /\ HubAct
    /\ IF Registered
       THEN /\ calls' = calls \cup {[kind |-> "leave", claim |-> hubKey, texts |-> {}]}
            /\ UNCHANGED account
       ELSE UNCHANGED <<calls, licence>> /\ hubKey' = None /\ claim' = None
    /\ UNCHANGED <<consent, hub, hubFaults, sent, tokens>>

\* api_hub_set_key: the key from the operator's mail, or none.
SetKey(k) ==
    /\ HubAct /\ k \in hub.confirmed \cup {None} /\ hubKey' = k
    /\ UNCHANGED <<consent, claim, licence, calls, hub, hubFaults, sent, tokens>>

(***************************************************************************)
(* The hub, and its answers                                                *)
(***************************************************************************)

\* The operator's mail was answered: a key may be fetched, once.
Confirm(c) ==
    /\ c \in hub.claims \ hub.confirmed
    /\ hub' = [hub EXCEPT !.confirmed = @ \cup {c}, !.live = @ \cup {c}]
    /\ UNCHANGED <<consent, account, calls, hubActs, hubFaults, sent, tokens>>

\* An order of a certificate names the editions that are current here; the hub,
\* which has no documents, takes it if its receipts are of those.
ReceiptsCover(c) == c.claim \in hub.live /\ c.texts \subseteq hub.receipts

\* What the hub makes of a call.
AtHub(c) ==
    CASE c.kind = "register" -> [hub EXCEPT !.claims = @ \cup {c.claim},
                                            !.receipts = @ \cup c.texts]
      [] c.kind = "receipts" -> [hub EXCEPT !.receipts = @ \cup c.texts]
      [] c.kind = "leave"    -> [hub EXCEPT !.live = @ \ {c.claim}]
      [] c.kind = "licence"  -> hub
      [] c.kind = "order"    -> IF ReceiptsCover(c) THEN [hub EXCEPT !.bought = @ \cup {c.texts}] ELSE hub
      [] c.kind = "claim"    -> [hub EXCEPT !.claims = @ \ (hub.confirmed \cap {c.claim})]

\* A key that is fetched is stored, and whatever token there is dropped.
\* The connection is removed here whether or not the hub could be told.
Answered(c, arrived) ==
    CASE c.kind = "claim" /\ arrived /\ c.claim \in hub.claims \cap hub.confirmed ->
           hubKey' = c.claim /\ claim' = None /\ UNCHANGED licence
      [] c.kind = "leave" -> hubKey' = None /\ claim' = None /\ UNCHANGED licence
      [] c.kind = "licence" /\ arrived -> licence' = "ours" /\ UNCHANGED <<hubKey, claim>>
      [] OTHER -> UNCHANGED account

Answer(c) ==
    /\ c \in calls /\ calls' = calls \ {c}
    /\ hub' = AtHub(c) /\ Answered(c, TRUE)
    /\ UNCHANGED <<consent, hubActs, hubFaults, sent, tokens>>

\* The hub is out of reach, or its answer is.
Lost(c) ==
    /\ c \in calls /\ HubFault /\ calls' = calls \ {c}
    /\ hub' \in {hub, AtHub(c)} /\ Answered(c, FALSE)
    /\ UNCHANGED <<consent, hubActs, sent, tokens>>

(***************************************************************************)
(* Orders                                                                  *)
(***************************************************************************)

\* Nothing is waited for between the question and the sending.
Send(c) ==
    /\ HubAct /\ Registered /\ ContextConsented(c)
    /\ sent' = sent \cup {[context |-> c, current |-> current]}
    /\ UNCHANGED <<consent, account, calls, hub, hubFaults, tokens>>

\* billing_topup, billing_auto_setup, billing_auto_amount.
TopUp == Send("billing_charge")
\* request_invoice.
RequestInvoice == Send("invoice_request")
\* api_license_hub: checkout, quantity, zahlungsweise.
OrderLicence == Send("license_purchase")
\* api_support_upload, upload_bundle.
UploadBundle == Send("support_upload")

\* cert_order asks nothing here: it says which editions are current.
OrderCertificate ==
    /\ HubAct /\ Registered
    /\ calls' = calls \cup {[kind |-> "order", claim |-> hubKey,
                             texts |-> {[doc |-> d, edition |-> current[d]] : d \in Required.hub_connect}]}
    /\ UNCHANGED <<consent, account, hub, hubFaults, sent, tokens>>

\* Cancelling, switching off, paying out: _ZAHLWEG_KONTEXT and _HUB_AKTIONEN
\* name no context, for what ends something must not ask for consent.
SendUngated ==
    /\ HubAct /\ Registered
    /\ UNCHANGED <<consent, account, calls, hub, hubFaults, sent, tokens>>

(***************************************************************************)
(* The licence                                                             *)
(***************************************************************************)

\* api_license_set: only what verify and tenant_error let pass is stored.
SetLicence ==
    /\ HubAct /\ licence' = "ours"
    /\ UNCHANGED <<consent, hubKey, claim, calls, hub, hubFaults, sent, tokens>>

\* api_license_fetch_hub: what the hub sends is checked like what is typed in.
FetchLicence ==
    /\ HubAct /\ Registered
    /\ calls' = calls \cup {[kind |-> "licence", claim |-> None, texts |-> {}]}
    /\ UNCHANGED <<consent, account, hub, hubFaults, sent, tokens>>

DeleteLicence ==
    /\ HubAct /\ licence # "none" /\ licence' = "none"
    /\ UNCHANGED <<consent, hubKey, claim, calls, hub, hubFaults, sent, tokens>>

LicenceEnds ==
    /\ HubFault /\ licence = "ours" /\ licence' = "expired"
    /\ UNCHANGED <<consent, hubKey, claim, calls, hub, hubActs, sent, tokens>>

\* status, fair_use_state: the notice on the pages, which blocks nothing.
Licensed == licence = "ours"
Exceeded(mailboxes, limit) == mailboxes > limit /\ (limit # 0 \/ ~Licensed)

HubRestart ==
    /\ HubFault /\ calls # {} /\ calls' = {}
    /\ UNCHANGED <<consent, account, hub, hubActs, sent, tokens>>

AccountNext ==
    \/ \E d \in Doc : Read(d) \/ NewEdition(d)
    \/ Agree \/ Register \/ PollClaim \/ Disconnect \/ HubRestart
    \/ SetLicence \/ FetchLicence \/ DeleteLicence \/ LicenceEnds
    \/ \E k \in Claim \cup {None} : SetKey(k) \/ Confirm(k)
    \/ \E c \in calls : Answer(c) \/ Lost(c)
    \/ TopUp \/ RequestInvoice \/ OrderLicence \/ OrderCertificate \/ UploadBundle
    \/ SendUngated

AccountSpec == AccountInit /\ [][AccountNext]_accountVars

(***************************************************************************)
(* Properties                                                              *)
(***************************************************************************)

AccountTypeOK ==
    /\ current \in [Doc -> Edition] /\ consents \subseteq Text /\ shown \subseteq Text
    /\ page \in Text \cup {NoText}
    /\ hubKey \in Claim \cup {None} /\ claim \in Claim \cup {None}
    /\ licence \in {"none", "ours", "expired"}
    /\ hub.claims \subseteq Claim /\ hub.confirmed \subseteq Claim
    /\ hub.live \subseteq hub.confirmed /\ hub.receipts \subseteq Text
    /\ tokens \in 0..MaxClaim /\ hubActs \in 0..MaxHubAct /\ hubFaults \in 0..MaxHubFault

\* No top-up, invoice or licence is ordered, and no diagnostic package sent,
\* unless an administrator was shown the edition of the documents that was
\* current at that moment, however the texts changed while his page was open.
\* The gateway sends the order of a certificate unasked; of those, none is
\* bought unless the editions current when it was sent had been shown, whatever
\* was connected anew, agreed to, lost or updated before it arrives ("bei
\* ausstehender Zustimmung dürfen keine Zertifikate bestellt werden").
OrdersWereRead ==
    /\ \A o \in sent :
          \A d \in Required[o.context] : [doc |-> d, edition |-> o.current[d]] \in shown
    /\ \A texts \in hub.bought : texts \subseteq shown
==================================================================================
