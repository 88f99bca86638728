-------------------------------- MODULE Templates --------------------------------
(***************************************************************************)
(* The templates of signatures and banners (routen/vorlagen.py,             *)
(* signature_engine.py, vorlagen_typ.py, template_seed.py) and what names   *)
(* them: the mailbox, the policies of everyone and of a group (policies.py) *)
(* and the campaigns (banner_campaigns.py).                                 *)
(*                                                                          *)
(* Nothing but the name connects them.  A name without a template makes the *)
(* mail carry the standard signature in its place, and nobody is told.      *)
(* Renaming therefore rewrites the references, once the files are moved;    *)
(* the SMTP thread renders in between, and the process may end there.       *)
(* Every start puts back shipped templates, sorts the stock by kind and     *)
(* tidies the mailboxes.                                                    *)
(*                                                                          *)
(* What editors do runs in one event loop without a pause: nothing of it    *)
(* falls between the steps of a rename.                                     *)
(***************************************************************************)
EXTENDS Integers, FiniteSets

CONSTANTS
    Template,     \* names of templates, "default" aside
    Shipped,      \* those that come with the gateway: banners
    MaxTplAct     \* bound on what editors do

ASSUME TemplateAssumption ==
    /\ Shipped \subseteq Template /\ MaxTplAct \in Nat
    /\ {"none", "unset", "default"} \cap Template = {}    \* no file of these names

TplSlot == {"sig", "banner"}     \* SLOT_ART, one slot of either rank
Art(slot) == IF slot = "sig" THEN "signatur" ELSE "banner"
Arts == {"signatur", "banner"}

\* Texts: Absent, Empty, what is shipped, or what the n-th edit wrote.
Absent == 0
Empty == -1
AsShipped == -2
\* Names besides the templates: no template, and a field that is not there.
NoTpl == "none"
Unset == "unset"
Ref == Template \cup {NoTpl, Unset, "default"}

VARIABLES
    text,         \* [Template -> its text]
    kind,         \* [Template -> the kind its meta file names; "open": none named]
    own,          \* the fields of the mailbox: [TplSlot -> Ref]
    usePolicy,    \* the mailbox follows the policies
    policy,       \* TEMPLATE_POLICIES
    team,         \* CUSTOM_POLICIES of the group the mailbox is in
    campaign,     \* BANNER_CAMPAIGNS: the banner of the one that is running
    renaming,     \* the rename under way, with what mails carried before it
    tplActs

stock == <<text, kind>>
refs == <<own, policy, team, campaign>>
templateVars == <<stock, refs, usePolicy, renaming, tplActs>>

Unserved == [served |-> FALSE, text |-> Absent, offered |-> FALSE]
NoRename == [step |-> "none", from |-> NoTpl, to |-> NoTpl, was |-> [s \in TplSlot |-> Unserved]]

TemplateInit ==
    /\ text = [n \in Template |-> IF n \in Shipped THEN AsShipped ELSE Absent]
    /\ kind \in [Template -> {"open"}]
    /\ own = [s \in TplSlot |-> Unset] /\ usePolicy = TRUE
    /\ policy = [s \in TplSlot |-> IF s = "sig" THEN "default" ELSE NoTpl]
    /\ team = [s \in TplSlot |-> Unset] /\ campaign = Unset /\ tplActs = 0
    /\ renaming = NoRename

TplAct == renaming = NoRename /\ tplActs < MaxTplAct /\ tplActs' = tplActs + 1
Written == tplActs + 1

Exists(n) == text[n] # Absent
\* vorlagen_art: what names no kind is a signature.
KindOf(n) == IF kind[n] = "open" THEN "signatur" ELSE kind[n]

(***************************************************************************)
(* What a mail carries                                                     *)
(***************************************************************************)

\* policies.standards: the group before everyone.
Standard(slot) == IF team[slot] # Unset THEN team[slot] ELSE policy[slot]

Norm(slot, ref) == IF slot = "sig" /\ ref \in {NoTpl, Unset} THEN "default"
                   ELSE IF ref = Unset THEN NoTpl ELSE ref

\* policies.aufloesen: the signature is the mailbox' choice, the banner the
\* company's, unless the mailbox is exempted from the policies.
Regular(slot) ==
    IF slot = "sig"
    THEN Norm(slot, IF own[slot] # Unset THEN own[slot] ELSE Standard(slot))
    ELSE Norm(slot, IF usePolicy THEN Standard(slot) ELSE own[slot])

\* banner_campaigns.banner_fuer: the banner of a running campaign comes first.
Carried(slot) == IF slot = "banner" /\ campaign # Unset THEN campaign ELSE Regular(slot)

\* signature_engine.render: a name without a file gives the standard signature.
TextOf(ref) ==
    IF ref \in Template THEN IF Exists(ref) THEN <<"text", text[ref]>> ELSE <<"standard">>
    ELSE IF ref = "default" THEN <<"standard">> ELSE <<"nothing">>

\* A slot that is served by a template with a text, and one whose template is in
\* its list.
Served(slot) == Carried(slot) \in Template /\ text[Carried(slot)] \notin {Absent, Empty}
Offered(slot) == KindOf(Carried(slot)) = Art(slot)

(***************************************************************************)
(* Editing                                                                 *)
(***************************************************************************)

CreateTemplate(n, k) ==
    /\ TplAct /\ ~Exists(n)
    /\ text' = [text EXCEPT ![n] = Empty] /\ kind' = [kind EXCEPT ![n] = k]
    /\ UNCHANGED <<refs, usePolicy, renaming>>

\* api_delete_template: what names it is left as it is.
DeleteTemplate(n) ==
    /\ TplAct /\ Exists(n)
    /\ text' = [text EXCEPT ![n] = Absent] /\ kind' = [kind EXCEPT ![n] = "open"]
    /\ UNCHANGED <<refs, usePolicy, renaming>>

Duplicate(from, to) ==
    /\ TplAct /\ Exists(from) /\ ~Exists(to)
    /\ text' = [text EXCEPT ![to] = text[from]]
    /\ kind' = IF kind[from] = "open" THEN kind ELSE [kind EXCEPT ![to] = kind[from]]
    /\ UNCHANGED <<refs, usePolicy, renaming>>

\* api_save_template_meta: the builder writes the kind too, which an old page
\* does not name, and refuses a template without blocks.  It may be open under
\* a name that was given up.
SaveBuilt(n) ==
    /\ TplAct
    /\ \E k \in Arts \cup {KindOf(n)} : kind' = [kind EXCEPT ![n] = k]
    /\ text' = [text EXCEPT ![n] = Written]
    /\ UNCHANGED <<refs, usePolicy, renaming>>

\* template_save: the source, which may be empty.
SaveSource(n) ==
    /\ TplAct
    /\ \E t \in {Empty, Written} : text' = [text EXCEPT ![n] = t]
    /\ UNCHANGED <<kind, refs, usePolicy, renaming>>

SetKind(n, k) ==
    /\ TplAct /\ Exists(n) /\ kind' = [kind EXCEPT ![n] = k]
    /\ UNCHANGED <<text, refs, usePolicy, renaming>>

Follow(ref, from, to) == IF ref = from THEN to ELSE ref

\* What it did for years: the banner's references fall through.
FollowedSignature(from, to) ==
    /\ own' = [own EXCEPT !["sig"] = Follow(@, from, to)]
    /\ policy' = [policy EXCEPT !["sig"] = Follow(@, from, to)]
    /\ team' = [s \in TplSlot |-> Follow(team[s], from, to)]
    /\ UNCHANGED campaign

\* _vorlagenverweise_umbenennen: every place but the campaigns.
Followed(from, to) ==
    /\ own' = [s \in TplSlot |-> Follow(own[s], from, to)]
    /\ policy' = [s \in TplSlot |-> Follow(policy[s], from, to)]
    /\ team' = [s \in TplSlot |-> Follow(team[s], from, to)]
    /\ UNCHANGED campaign

\* What a mail carries in a slot, and whether the template stays in the list of
\* the slot; a meta file that lies around under the new name may take it out.
Before(slot, to) ==
    IF Served(slot)
    THEN [served |-> TRUE, text |-> text[Carried(slot)],
          offered |-> Offered(slot) /\ kind[to] = "open"]
    ELSE Unserved

\* api_rename_template: the text is moved, then the meta file if there is one,
\* then the references follow.
MoveText(from, to) ==
    /\ TplAct /\ from # to /\ Exists(from) /\ ~Exists(to)
    /\ text' = [text EXCEPT ![to] = text[from], ![from] = Absent]
    /\ renaming' = [step |-> "meta", from |-> from, to |-> to, was |-> [s \in TplSlot |-> Before(s, to)]]
    /\ UNCHANGED <<kind, refs, usePolicy>>

MoveMeta ==
    /\ renaming.step = "meta" /\ renaming' = [renaming EXCEPT !.step = "refs"]
    /\ kind' = IF kind[renaming.from] = "open" THEN kind
               ELSE [kind EXCEPT ![renaming.to] = kind[renaming.from], ![renaming.from] = "open"]
    /\ UNCHANGED <<text, refs, usePolicy, tplActs>>

Refer ==
    /\ renaming.step = "refs" /\ renaming' = NoRename
    /\ Followed(renaming.from, renaming.to)
    /\ UNCHANGED <<stock, usePolicy, tplActs>>

\* The mailbox page and the own page of its user, the policies, the groups and
\* the campaigns.  A page may be older than a rename or a deletion.
Assign ==
    /\ TplAct
    /\ \/ \E s \in TplSlot, r \in Ref : own' = [own EXCEPT ![s] = r] /\ UNCHANGED <<policy, team, campaign>>
       \/ \E s \in TplSlot, r \in Ref \ {Unset} :
             policy' = [policy EXCEPT ![s] = r] /\ UNCHANGED <<own, team, campaign>>
       \/ \E s \in TplSlot, r \in Ref \ {"default"} :
             team' = [team EXCEPT ![s] = r] /\ UNCHANGED <<own, policy, campaign>>
       \/ \E r \in Template \cup {Unset} : campaign' = r /\ UNCHANGED <<own, policy, team>>
    /\ UNCHANGED <<stock, usePolicy, renaming>>

ExemptMailbox ==
    /\ TplAct /\ usePolicy' = ~usePolicy /\ UNCHANGED <<stock, refs, renaming>>

(***************************************************************************)
(* The start of the process                                                *)
(***************************************************************************)

\* seed_missing: a shipped template that is missing, or empty, is copied.
Seeded(n) == n \in Shipped /\ text[n] \in {Absent, Empty}
SeededText(n) == IF Seeded(n) THEN AsShipped ELSE text[n]
SeededKind(n) == IF Seeded(n) THEN "banner" ELSE kind[n]

\* zuweisungen_nach_art: the kinds a name is assigned as, by whom ever.
AssignedAs(n) ==
    {Art(s) : s \in {t \in TplSlot : n \in {own[t], policy[t], team[t]}}}
        \cup {Art("banner") : c \in {campaign} \cap {n}}

\* migriere_bestand: shipped banners without a kind, then whatever is
\* assigned as a banner and as nothing else.
Typed(n) ==
    LET plain == SeededText(n) # Absent /\ SeededKind(n) \in {"open", "signatur"}
    IN  IF \/ n \in Shipped /\ AssignedAs(n) \subseteq {"banner"} /\ SeededKind(n) = "open"
              /\ plain
           \/ AssignedAs(n) = {"banner"} /\ plain
        THEN "banner" ELSE SeededKind(n)

\* bereinige_eingefrorene_vorlagen: what a mailbox that follows the policies
\* still has of its own, the user's choices excepted.
Tidied == IF usePolicy THEN [own EXCEPT !["banner"] = Unset] ELSE own

\* The process may have ended in a rename.
Start ==
    /\ renaming' = NoRename
    /\ text' = [n \in Template |-> SeededText(n)]
    /\ kind' = [n \in Template |-> Typed(n)]
    /\ own' = Tidied
    /\ UNCHANGED <<policy, team, campaign, usePolicy, tplActs>>

TemplateNext ==
    \/ \E n \in Template, k \in Arts : CreateTemplate(n, k) \/ SetKind(n, k)
    \/ \E n \in Template : DeleteTemplate(n) \/ SaveBuilt(n) \/ SaveSource(n)
    \/ \E from, to \in Template : Duplicate(from, to) \/ MoveText(from, to)
    \/ MoveMeta \/ Refer \/ Assign \/ ExemptMailbox \/ Start

TemplateSpec == TemplateInit /\ [][TemplateNext]_templateVars

(***************************************************************************)
(* Properties                                                              *)
(***************************************************************************)

TemplateTypeOK ==
    /\ text \in [Template -> (-2)..MaxTplAct] /\ kind \in [Template -> Arts \cup {"open"}]
    /\ own \in [TplSlot -> Ref] /\ policy \in [TplSlot -> Ref] /\ team \in [TplSlot -> Ref]
    /\ campaign \in Ref /\ usePolicy \in BOOLEAN /\ renaming.step \in {"none", "meta", "refs"}
    /\ {renaming.from, renaming.to} \subseteq Template \cup {NoTpl} /\ tplActs \in 0..MaxTplAct

\* A running campaign's banner that is renamed: the campaigns are not followed.
Forgotten(slot) == slot = "banner" /\ campaign = renaming.from

\* The upkeep of a start is not seen in any mail: what the mailbox carries in a
\* slot stays the same text, and the template stays in the list of its slot.  Nor
\* is a rename that came to its end, once it has, except in the banner of a
\* running campaign.
UpkeepUnseen ==
    [][/\ Start => \A s \in TplSlot : Served(s) =>
            /\ TextOf(Carried(s))' = TextOf(Carried(s))
            /\ Offered(s) => Offered(s)'
       /\ Refer => \A s \in TplSlot : renaming.was[s].served /\ ~Forgotten(s) =>
            /\ TextOf(Carried(s))' = <<"text", renaming.was[s].text>>
            /\ renaming.was[s].offered => Offered(s)']_templateVars
==================================================================================
