-------------------------------- MODULE Mailboxes --------------------------------
(***************************************************************************)
(* Which mailboxes the gateway serves (routen/mailboxes.py, exo_mailboxes,  *)
(* mailbox_migrate, regel_split, the group updates of setup_wizard.py with  *)
(* their PowerShell scripts).                                               *)
(*                                                                          *)
(* A save of the page replaces the whole MAILBOX_CONFIG, orders             *)
(* certificates for what was switched on, and in the background brings the  *)
(* groups of Exchange in line, by which the transport rules choose the mail *)
(* that goes through the gateway.  That takes minutes; Exchange renames     *)
(* mailboxes, its list is cached or missing, other saves go on.             *)
(***************************************************************************)
EXTENDS Integers, Sequences, FiniteSets

CONSTANTS
    Mailbox,      \* mailboxes, by their ExchangeGuid
    Saver,        \* browsers of administrators
    MaxName,      \* names a mailbox may get, the first one included
    MaxSave,      \* bound on saves, faults included
    MaxMiss       \* bound on faults: failing calls, aborted scripts, restarts

ASSUME MailboxAssumption == MaxName \in Nat \ {0} /\ MaxSave \in Nat /\ MaxMiss \in Nat

Address == Mailbox \X (1..MaxName)
Place == Mailbox \X (0..MaxName)    \* a key: <<m, 0>> the Guid, <<m, n>> an address
Group == {"sig", "smime", "scope"}  \* ... - Enabled Mailboxes, - SMIME Mailboxes, - App Scope

VARIABLES
    \* Exchange
    name,         \* [Mailbox -> the number of its name now]; the earlier ones are aliases
    sameAs,       \* [Address -> the name that was this address for the first time]
    group,        \* [Group -> members]
    ruleOn,       \* the groups whose transport rule is enabled
    \* the gateway
    listed,       \* the cached list: [Mailbox -> name as fetched], 0: no list
    config,       \* MAILBOX_CONFIG: [Place -> entry]
    split,        \* WATCHDOG_RULE_SPLIT
    save,         \* [Saver -> the request and the update it began]
    saves, misses,
    \* ghosts
    laidOut,      \* the last update was one for two groups
    why,          \* what may have kept the groups from what was saved, since a save ran alone
    ever,         \* what may have misled an order or lost a choice, ever since
    turns,        \* [Mailbox -> how often its S/MIME went from off to on]
    orders,       \* [Address -> certificates ordered by themselves]
    chose         \* mailboxes whose people chose for themselves, since it was switched on

\* One more fault, within the bounds.
Miss == misses < MaxMiss /\ saves + misses < MaxSave /\ misses' = misses + 1

nameVars == <<name, sameAs>>
exchange == <<nameVars, group, ruleOn>>
mailboxVars == <<exchange, listed, config, split, save, saves, misses, laidOut, why,
                 ever, turns, orders, chose>>

NoEntry == [kind |-> "none", primary |-> 0, own |-> FALSE]
NoSave == [at |-> "idle", rows |-> [a \in Address |-> "none"],
           before |-> [p \in Place |-> NoEntry], todo |-> <<>>,
           want |-> [g \in Group |-> {}], cur |-> {}]

MailboxInit ==
    /\ name = [m \in Mailbox |-> 1] /\ sameAs = [a \in Address |-> a[2]]
    /\ group = [g \in Group |-> {}] /\ ruleOn = {}
    /\ listed = [m \in Mailbox |-> 0] /\ config = [p \in Place |-> NoEntry]
    /\ split = FALSE /\ laidOut = FALSE
    /\ save = [s \in Saver |-> NoSave] /\ saves = 0 /\ misses = 0
    /\ why = {} /\ ever = {}
    /\ turns = [m \in Mailbox |-> 0] /\ orders = [a \in Address |-> 0] /\ chose = {}

\* The address that was the n-th name of m.
AddressOf(m, n) == <<m, sameAs[<<m, n>>]>>
Now(m) == AddressOf(m, name[m])

Kinds(c, m) == {c[p].kind : p \in {q \in Place : q[1] = m}}
Signs(c, m) == Kinds(c, m) # {"none"}
Ciphers(c, m) == "smime" \in Kinds(c, m)

Because(reasons) ==
    /\ why' = why \cup (reasons \ {"unlisted"})
    /\ ever' = ever \cup (reasons \cap {"crossed", "unlisted"})

\* list_mailboxes: the cache, or a list fetched now; a failing fetch leaves
\* the cache, and after a restart nothing.
FetchList == listed' \in {listed, name}

(***************************************************************************)
(* The rows of the page                                                    *)
(***************************************************************************)

\* api_get_mailboxes: a row for the primary address of each mailbox, and one
\* for an entry under an address that no longer is one.  The page may be old.
Shows(a) ==
    \/ config[a].kind # "none"
    \/ \E n \in {1, listed[a[1]], config[<<a[1], 0>>].primary} \ {0} : a = AddressOf(a[1], n)

Rows ==
    {r \in [Address -> {"none", "sig", "smime"}] :
        /\ \A a \in Address : r[a] # "none" => Shows(a)
        /\ \A a, b \in Address :
              a # b /\ a[1] = b[1] /\ r[a] # "none" /\ r[b] # "none"
                  => \E n \in 1..MaxName : config[<<a[1], n>>].kind # "none"}

Anchored(list, a) == a[2] <= list[a[1]]
PlaceOf(list, a) == IF Anchored(list, a) THEN <<a[1], 0>> ELSE a
\* Mutant: the member is the address of the row.
RowMember(list, a) == a
Member(list, a) == IF Anchored(list, a) THEN AddressOf(a[1], list[a[1]]) ELSE a
Chosen(rows) == {a \in Address : rows[a] # "none"}

\* Mutant: what is not of the page is not carried over.
PageOnly(list, rows, before) ==
    [p \in Place |->
        LET here == {a \in Chosen(rows) : PlaceOf(list, a) = p}
        IN  IF here = {} THEN NoEntry
            ELSE [kind |-> IF \E a \in here : rows[a] = "smime" THEN "smime" ELSE "sig",
                  primary |-> IF p[2] = 0 THEN list[p[1]] ELSE 0, own |-> FALSE]]

\* The new map, made of the rows alone; what people chose for themselves
\* comes from the entry under the same key before.
Rebuilt(list, rows, before) ==
    [p \in Place |->
        LET here == {a \in Chosen(rows) : PlaceOf(list, a) = p}
        IN  IF here = {} THEN NoEntry
            ELSE [kind |-> IF \E a \in here : rows[a] = "smime" THEN "smime" ELSE "sig",
                  primary |-> IF p[2] = 0 THEN list[p[1]] ELSE 0,
                  own |-> before[p].own]]

\* _adressen_mit_smime
WithSmime(c) ==
    {AddressOf(p[1], c[p].primary) :
        p \in {q \in Place : c[q].kind = "smime" /\ c[q].primary # 0}}

\* Mutant: what is on is ordered for, not what is switched on.
AllOn(before, after) == WithSmime(after)
\* The mailboxes the save switches on.
Neu(before, after) == WithSmime(after) \ WithSmime(before)

(***************************************************************************)
(* Saving                                                                  *)
(***************************************************************************)

Busy(s) == save[s].at # "idle"

\* api_save_mailboxes up to its first await: the map as it is before.
BeginSave(s) ==
    /\ ~Busy(s) /\ saves + misses < MaxSave /\ saves' = saves + 1
    /\ \E rows \in Rows :
          save' = [save EXCEPT ![s] = [NoSave EXCEPT !.at = "list", !.rows = rows,
                                                     !.before = config]]
    /\ LET crossed == IF \E o \in Saver : Busy(o) THEN {"crossed"} ELSE {}
       IN  /\ why' = IF crossed = {} THEN {} ELSE why \cup crossed
           /\ ever' = ever \cup crossed
    /\ UNCHANGED <<exchange, listed, config, split, misses, laidOut, turns, orders, chose>>

\* The map is written, and what was switched on is ordered
\* (_auto_enrollment_anstossen).
WriteConfig(s) ==
    /\ save[s].at = "list" /\ FetchList
    /\ LET rows == save[s].rows
           after == Rebuilt(listed', rows, save[s].before)
           members == {Member(listed', a) : a \in Chosen(rows)}
       IN  /\ config' = after
           /\ turns' = [m \in Mailbox |->
                           turns[m] + IF Ciphers(after, m) /\ ~Ciphers(config, m) THEN 1 ELSE 0]
           /\ orders' = [a \in Address |->
                            orders[a] + IF a \in Neu(save[s].before, after) THEN 1 ELSE 0]
           /\ chose' = {m \in chose : Signs(after, m)}
           /\ save' = [save EXCEPT ![s] = [NoSave EXCEPT !.at = "order", !.want["sig"] = members]]
           /\ Because({reason \in {"stale", "unlisted"} :
                  IF reason = "stale" THEN \E a \in Chosen(rows) : listed'[a[1]] # name[a[1]]
                  ELSE \E a \in Chosen(rows) : ~Anchored(listed', a)})
    /\ UNCHANGED <<exchange, split, saves, misses, laidOut>>

\* partitioniere: by the map as it is now, where the rules are split.
OfKind(k) == {AddressOf(p[1], config[p].primary) :
                 p \in {q \in Place : config[q].kind = k /\ config[q].primary # 0}}
Planned(want) ==
    IF split THEN [want EXCEPT !["sig"] = OfKind("sig") \ OfKind("smime"),
                               !["smime"] = OfKind("smime")]
    ELSE want
Scripts == IF split THEN <<"sig", "smime", "scope">> ELSE <<"sig", "scope">>

\* The order is placed; the update begins (_run_dg_update_bg).
BeginUpdate(s) ==
    /\ save[s].at = "order" /\ laidOut' = split
    /\ save' = [save EXCEPT ![s] = [@ EXCEPT !.at = "add", !.todo = Scripts,
                                             !.want = Planned(save[s].want)]]
    /\ UNCHANGED <<exchange, listed, config, split, saves, misses, why, ever, turns, orders, chose>>

(***************************************************************************)
(* The scripts                                                             *)
(***************************************************************************)

\* Where the script of s works.
AtGroup(s, at, g) == save[s].at = at /\ Head(save[s].todo) = g

\* _app_scope_adressen
AppScope == {AddressOf(p[1], config[p].primary) :
                p \in {q \in Place : config[q].kind # "none" /\ config[q].primary # 0}}

\* The members now, by their primary addresses; who is missing is added.  A
\* member is refused, which is an error in the output only, as is a call that
\* fails.
Adds(s, g, answered) ==
    /\ AtGroup(s, "add", g)
    /\ LET cur == {Now(m) : m \in group[g]}
           want == IF g = "scope" THEN AppScope ELSE save[s].want[g]
       IN  /\ save' = [save EXCEPT ![s] = [@ EXCEPT !.at = "remove", !.cur = cur,
                                                     !.want = [save[s].want EXCEPT ![g] = want]]]
           /\ group' = IF ~answered THEN group
                       ELSE [group EXCEPT ![g] = @ \cup {a[1] : a \in want \ cur}]
    /\ IF answered THEN UNCHANGED <<misses, why, ever>>
       ELSE Miss /\ Because({"fault"})
    /\ UNCHANGED <<nameVars, ruleOn, listed, config, split, saves, laidOut, turns, orders, chose>>

NextGroup(r) == IF Len(r.todo) = 1 THEN NoSave
                ELSE [r EXCEPT !.at = "add", !.todo = Tail(@)]

\* Then who is not wanted; the scope is never emptied on purpose.  Last the
\* rule: enabled for a group that is meant to have members.
Removes(s, g) ==
    /\ AtGroup(s, "remove", g)
    /\ LET want == save[s].want[g]
           gone == IF g = "scope" /\ want = {} THEN {} ELSE {a[1] : a \in save[s].cur \ want}
       IN  /\ group' = [group EXCEPT ![g] = @ \ gone]
           /\ ruleOn' = IF g = "scope" THEN ruleOn
                        ELSE IF want # {} THEN ruleOn \cup {g} ELSE ruleOn \ {g}
    /\ save' = [save EXCEPT ![s] = NextGroup(@)]
    /\ UNCHANGED <<nameVars, listed, config, split, saves, misses, laidOut, why, ever, turns,
                   orders, chose>>

\* The script ends early; the scope is seen to all the same.
ScriptAborts(s) ==
    /\ save[s].at \in {"add", "remove"}
    /\ Miss
    /\ save' = [save EXCEPT ![s] = IF Head(@.todo) = "scope" THEN NoSave
                                   ELSE [@ EXCEPT !.at = "add", !.todo = <<"scope">>]]
    /\ Because({"fault"})
    /\ UNCHANGED <<exchange, listed, config, split, saves, laidOut, turns, orders, chose>>

(***************************************************************************)
(* What goes on meanwhile                                                  *)
(***************************************************************************)

\* _wahl_speichern, self_save, api_abwesenheit_postfach_setzen: somebody
\* chooses for the own mailbox.
SelfService(m) ==
    /\ \E p \in Place :
          /\ p[1] = m /\ config[p].kind # "none"
          /\ Now(m)[2] <= config[p].primary \/ p = Now(m)
          /\ config' = [config EXCEPT ![p].own = TRUE]
    /\ chose' = chose \cup {m}
    /\ ever' = ever \cup (IF \E s \in Saver : save[s].at = "list" THEN {"meanwhile"} ELSE {})
    /\ UNCHANGED <<exchange, listed, split, save, saves, misses, laidOut, why, turns,
                   orders>>

\* api_mailbox_migrate_apply, plan_migration: entries under an address move to
\* the Guid, merged with what is there.
Migrate ==
    /\ \E p \in Place : p[2] # 0 /\ config[p].kind # "none"
    /\ FetchList /\ \A m \in Mailbox : listed'[m] # 0
    /\ LET from(m) == {p \in Place : p[1] = m /\ config[p].kind # "none"
                                        /\ (p[2] = 0 \/ Anchored(listed', p))}
           merged(m, first) ==
               [kind |-> IF \E p \in from(m) : config[p].kind = "smime" THEN "smime" ELSE "sig",
                primary |-> listed'[m], own |-> config[<<m, first>>].own]
       IN  \E first \in [Mailbox -> 0..MaxName] :
              /\ \A m \in Mailbox : from(m) # {} => <<m, first[m]>> \in from(m)
              /\ config' = [p \in Place |->
                    IF p[2] # 0 THEN IF Anchored(listed', p) THEN NoEntry ELSE config[p]
                    ELSE IF from(p[1]) = {} THEN NoEntry ELSE merged(p[1], first[p[1]])]
    /\ UNCHANGED <<exchange, split, save, saves, misses, laidOut, why, ever, turns, orders, chose>>

\* A mailbox gets another primary address, a new one or one it has had.
RenameMailbox(m) ==
    /\ name[m] < MaxName /\ name' = [name EXCEPT ![m] = @ + 1]
    /\ \E n \in 1..(name[m] + 1) :
          /\ n = sameAs[<<m, n>>] /\ AddressOf(m, n) # Now(m)
          /\ sameAs' = [sameAs EXCEPT ![<<m, name[m] + 1>>] = n]
    /\ Because(IF \E s \in Saver : Busy(s) THEN {"stale"} ELSE {})
    /\ UNCHANGED <<group, ruleOn, listed, config, split, save, saves, misses, laidOut,
                   turns, orders, chose>>

SplitOn ==
    /\ ~split /\ split' = TRUE
    /\ UNCHANGED <<exchange, listed, config, save, saves, misses, laidOut, why, ever,
                   turns, orders, chose>>

MailboxRestart ==
    /\ Miss
    /\ save' = [s \in Saver |-> NoSave] /\ listed' = [m \in Mailbox |-> 0]
    /\ Because(IF \E s \in Saver : Busy(s) THEN {"fault"} ELSE {})
    /\ UNCHANGED <<exchange, config, split, saves, laidOut, turns, orders, chose>>

MailboxNext ==
    \/ \E s \in Saver :
          \/ BeginSave(s) \/ WriteConfig(s) \/ BeginUpdate(s)
          \/ \E g \in Group : Removes(s, g) \/ \E answered \in BOOLEAN : Adds(s, g, answered)
          \/ ScriptAborts(s)
    \/ \E m \in Mailbox : SelfService(m) \/ RenameMailbox(m)
    \/ Migrate \/ SplitOn \/ MailboxRestart

MailboxSpec == MailboxInit /\ [][MailboxNext]_mailboxVars

(***************************************************************************)
(* Properties                                                              *)
(***************************************************************************)

MailboxTypeOK ==
    /\ name \in [Mailbox -> 1..MaxName] /\ sameAs \in [Address -> 1..MaxName]
    /\ listed \in [Mailbox -> 0..MaxName]
    /\ group \in [Group -> SUBSET Mailbox] /\ ruleOn \subseteq {"sig", "smime"}
    /\ \A p \in Place : config[p].primary \in 0..MaxName
    /\ why \subseteq {"crossed", "fault", "stale"}
    /\ ever \subseteq {"crossed", "unlisted", "meanwhile"}
    /\ chose \subseteq Mailbox

\* The mail of m goes through the gateway.
Routed(m) == \E g \in ruleOn : m \in group[g]

\* How often the mailbox got the address a back.
Returns(a) == Cardinality({n \in (a[2] + 1)..name[a[1]] : AddressOf(a[1], n) = a})

\* "Verglichen wird, was ein Zertifikat bekäme": no address is ordered for
\* more often than S/MIME was switched on for its mailbox and the mailbox came
\* back to it from another one, through renames, restarts and migrations.  Only
\* saves without Exchange's list, and saves that crossed, order again.
OnlySwitchedOnOrders ==
    \A a \in Address :
        orders[a] > turns[a[1]] + Returns(a) => ever \cap {"unlisted", "crossed"} # {}

\* A save that ran alone, of the addresses Exchange has, repairs whatever was
\* before: then exactly the mail of the mailboxes saved goes through the
\* gateway, and with split rules none with S/MIME by the way that may be
\* bypassed.
RoutedAsSaved ==
    saves > 0 /\ why = {} /\ (\A s \in Saver : ~Busy(s))
        => \A m \in Mailbox :
              /\ Routed(m) <=> Signs(config, m)
              /\ laidOut /\ Ciphers(config, m) => m \notin group["sig"]

\* "Carryover [...] gingen sonst bei jedem Postfach-Speichern verloren": what
\* somebody chose for the own mailbox stays as long as it is served, through
\* saves, renames and the migration; but for a choice made while a save waits
\* for Exchange's list, and saves without that list.
ChoicesKept ==
    \A m \in chose :
        \/ \E p \in Place : p[1] = m /\ config[p].own
        \/ ever \cap {"unlisted", "meanwhile", "crossed"} # {}

\* "Post aus S/MIME-Postfächern MUSS in der Queue warten [...] NIE
\* unverschlüsselt raus" (regel_split.py): mail of a mailbox that is routed, and
\* keeps its S/MIME, never ceases to be.
SmimeNeverLeaves ==
    [][\A m \in Mailbox :
          Routed(m) /\ Ciphers(config, m) /\ Ciphers(config', m) => Routed(m)']_mailboxVars
===============================================================================
