--------------------------------- MODULE Admins ---------------------------------
(***************************************************************************)
(* Who may enter the web interface: ADMIN_USERS, the sign-in with a         *)
(* Microsoft account and the sessions (routen/anmeldung.py, sso.py,         *)
(* webui/deps.py).                                                          *)
(*                                                                          *)
(* The list is read, changed and written as a whole.  Where an object id or *)
(* a name is asked of Graph in between (adding, saving the page, showing    *)
(* the list), other requests change it meanwhile.  A session carries the    *)
(* role it began with.                                                      *)
(***************************************************************************)
EXTENDS Integers, Sequences, FiniteSets, SequencesExt

CONSTANTS
    Person,        \* accounts in Entra, known by their object id
    Upn,           \* the names accounts may have
    NoPerson,      \* an entry without id, and the local administrator
    MaxListChange, \* bound on begun changes of the list
    MaxRename,     \* bound on renamed accounts
    MaxListed      \* bound on the length of the list

ASSUME AdminAssumption ==
    /\ NoPerson \notin Person
    /\ MaxListChange \in Nat /\ MaxRename \in Nat /\ MaxListed \in Nat \ {0}

VARIABLES
    users,         \* ADMIN_USERS
    nameOf,        \* [Person -> Upn], in Entra
    session,       \* [Person -> the session it has]
    page,          \* the list the settings page shows, to be edited and saved
    asking,        \* the changes that wait for Graph
    listChanges, renames,
    demoted        \* ghost: a changed role left no administrator

adminVars == <<users, nameOf, session, page, asking, listChanges, renames, demoted>>

Role == {"admin", "editor", "self"}          \* the campaign manager is an editor here
Entry == [upn : Upn, role : Role, id : Person \cup {NoPerson}]
NoSession == [upn |-> CHOOSE u \in Upn : TRUE, role |-> "none"]

HasAdmin(list) == \E i \in 1..Len(list) : list[i].role = "admin"
Names(list) == {list[i].upn : i \in 1..Len(list)}

\* resolve_upn_to_oid: Graph knows the name, or does not answer.
Resolutions(u) == {NoPerson} \cup {p \in Person : nameOf[p] = u}

AdminInit ==
    /\ nameOf \in [Person -> Upn] /\ \A p, q \in Person : nameOf[p] = nameOf[q] => p = q
    /\ \E p \in Person, known \in BOOLEAN :       \* step 2b of the setup
          users = << [upn |-> nameOf[p], role |-> "admin",
                      id |-> IF known THEN p ELSE NoPerson] >>
    /\ session = [p \in Person |-> NoSession] /\ page = <<>> /\ asking = {}
    /\ listChanges = 0 /\ renames = 0 /\ demoted = FALSE

(***************************************************************************)
(* The sign-in                                                             *)
(***************************************************************************)

ById(list, p) == {i \in 1..Len(list) : list[i].id = p}
ByName(list, u) == {i \in 1..Len(list) : list[i].upn = u}
First(S) == CHOOSE i \in S : \A j \in S : i <= j

\* get_role_by_oid, then get_role.
RoleIn(list, p) ==
    IF ById(list, p) # {} THEN list[First(ById(list, p))].role
    ELSE IF ByName(list, nameOf[p]) # {} THEN list[First(ByName(list, nameOf[p]))].role
    ELSE "none"

\* The name follows the id; an entry found by its name gets the id.
AutoPatch(list, p) ==
    LET named == {i \in ByName(list, nameOf[p]) : list[i].id = NoPerson}
    IN  IF ById(list, p) # {} THEN [list EXCEPT ![First(ById(list, p))].upn = nameOf[p]]
        ELSE IF named # {} THEN [list EXCEPT ![First(named)].id = p]
        ELSE list

\* auth_callback_implicit; who is not in the list may own a mailbox
\* (self_service_rolle).
SignIn(p) ==
    /\ \/ /\ RoleIn(users, p) # "none"
          /\ session' = [session EXCEPT ![p] = [upn |-> nameOf[p], role |-> RoleIn(users, p)]]
          /\ users' = AutoPatch(users, p)
       \/ /\ RoleIn(users, p) = "none"
          /\ session' = [session EXCEPT ![p] = [upn |-> nameOf[p], role |-> "self"]]
          /\ UNCHANGED users
    /\ UNCHANGED <<nameOf, page, asking, listChanges, renames, demoted>>

\* Signed out, or eight hours are over.
SessionEnds(p) ==
    /\ session[p] # NoSession /\ session' = [session EXCEPT ![p] = NoSession]
    /\ UNCHANGED <<users, nameOf, page, asking, listChanges, renames, demoted>>

\* _require_admin: the role of the session counts, the list is not asked again;
\* the local administrator has no entry.
Acting == {NoPerson} \cup {p \in Person : session[p].role = "admin"}
Own(by, u) == by \in {p \in Person : session[p].upn = u}

Begins == listChanges < MaxListChange /\ listChanges' = listChanges + 1

(***************************************************************************)
(* The list                                                                *)
(***************************************************************************)

\* The list is read, and Graph is asked for the id ...
AddUser(by, u, r) ==
    /\ u \notin Names(users) /\ Len(users) < MaxListed /\ Begins
    /\ asking' = asking \cup {[kind |-> "add", list |-> users,
                               new |-> [upn |-> u, role |-> r, id |-> NoPerson]]}
    /\ UNCHANGED <<users, nameOf, session, page, renames, demoted>>

\* ... and what was read is written with the new entry.
AddAnswered(c) ==
    /\ c \in asking /\ c.kind = "add" /\ asking' = asking \ {c}
    /\ \E id \in Resolutions(c.new.upn) :
          users' = Append(c.list, [c.new EXCEPT !.id = id])
    /\ UNCHANGED <<nameOf, session, page, listChanges, renames, demoted>>

\* api_update_admin_user asks only that it is not the own role.
ChangeRole(by, u, r) ==
    /\ ~Own(by, u) /\ u \in Names(users) /\ Begins
    /\ users' = [users EXCEPT ![First(ByName(users, u))].role = r]
    /\ demoted' = (demoted \/ ~HasAdmin(users'))
    /\ UNCHANGED <<nameOf, session, page, asking, renames>>

\* The list without the entries of a name.
WithoutName(list, u) ==
    LET f[i \in 0..Len(list)] ==
            IF i = 0 THEN <<>>
            ELSE IF list[i].upn = u THEN f[i - 1] ELSE Append(f[i - 1], list[i])
    IN  f[Len(list)]

\* Mutant: the last administrator can be removed.
RemoveAnyone(by, u) ==
    /\ ~Own(by, u) /\ Begins
    /\ users' = WithoutName(users, u)
    /\ UNCHANGED <<nameOf, session, page, asking, renames, demoted>>

\* api_remove_admin_user: an administrator remains.
RemoveUser(by, u) ==
    /\ ~Own(by, u) /\ Begins
    /\ users' = WithoutName(users, u)
    /\ HasAdmin(users')
    /\ UNCHANGED <<nameOf, session, page, asking, renames, demoted>>

\* The page is loaded: refresh_stored_upns runs in a thread and asks for the
\* name of every entry with an id.
LoadPage ==
    /\ Begins
    /\ asking' = asking \cup {[kind |-> "refresh", list |-> users]}
    /\ UNCHANGED <<users, nameOf, session, page, renames, demoted>>

Refreshed(list) ==
    {[i \in 1..Len(list) |->
         IF i \in told /\ list[i].id # NoPerson
            THEN [list[i] EXCEPT !.upn = nameOf[list[i].id]] ELSE list[i]] :
       told \in SUBSET (1..Len(list))}

PageLoaded(c) ==
    /\ c \in asking /\ c.kind = "refresh" /\ asking' = asking \ {c}
    /\ \E list \in Refreshed(c.list) :
          /\ page' = list
          /\ users' = IF list # c.list THEN list ELSE users
    /\ UNCHANGED <<nameOf, session, listChanges, renames, demoted>>

\* What the page makes of its list before it is saved.
Edited ==
    {page}
      \cup {RemoveAt(page, i) : i \in 1..Len(page)}
      \cup {[page EXCEPT ![i].role = r] : i \in 1..Len(page), r \in Role}

\* Saved as a whole, after the missing ids were asked for.
SavePage ==
    /\ page # <<>> /\ Begins
    /\ \E list \in Edited :
          /\ HasAdmin(list)
          /\ asking' = asking \cup {[kind |-> "save", list |-> list]}
    /\ UNCHANGED <<users, nameOf, session, page, renames, demoted>>

PageSaved(c) ==
    /\ c \in asking /\ c.kind = "save" /\ asking' = asking \ {c}
    /\ \E ids \in [1..Len(c.list) -> Person \cup {NoPerson}] :
          /\ \A i \in 1..Len(c.list) :
                IF c.list[i].id # NoPerson THEN ids[i] = c.list[i].id
                                           ELSE ids[i] \in Resolutions(c.list[i].upn)
          /\ users' = [i \in 1..Len(c.list) |-> [c.list[i] EXCEPT !.id = ids[i]]]
    /\ UNCHANGED <<nameOf, session, page, listChanges, renames, demoted>>

\* An account is renamed in Entra.
Rename(p, u) ==
    /\ renames < MaxRename /\ renames' = renames + 1
    /\ \A q \in Person : nameOf[q] # u
    /\ nameOf' = [nameOf EXCEPT ![p] = u]
    /\ UNCHANGED <<users, session, page, asking, listChanges, demoted>>

\* Requests are lost with the process; list and sessions are not.
AdminRestart ==
    /\ asking # {} /\ asking' = {}
    /\ UNCHANGED <<users, nameOf, session, page, listChanges, renames, demoted>>

AdminNext ==
    \/ \E p \in Person : SignIn(p) \/ SessionEnds(p) \/ (\E u \in Upn : Rename(p, u))
    \/ LoadPage \/ SavePage                       \* by whoever is in Acting
    \/ \E by \in Acting, u \in Upn :
          RemoveUser(by, u) \/ (\E r \in Role : AddUser(by, u, r) \/ ChangeRole(by, u, r))
    \/ \E c \in asking : AddAnswered(c) \/ PageLoaded(c) \/ PageSaved(c)
    \/ AdminRestart

(***************************************************************************)
(* Properties                                                              *)
(***************************************************************************)

AdminTypeOK ==
    /\ users \in Seq(Entry) /\ page \in Seq(Entry)
    /\ Len(users) <= MaxListed + MaxListChange
    /\ nameOf \in [Person -> Upn]
    /\ session \in [Person -> [upn : Upn, role : Role \cup {"none"}]]
    /\ \A c \in asking : c.kind \in {"add", "refresh", "save"} /\ c.list \in Seq(Entry)
    /\ listChanges \in 0..MaxListChange /\ renames \in 0..MaxRename /\ demoted \in BOOLEAN

\* "Mindestens ein Admin muss verbleiben" (routen/anmeldung.py): removing and
\* saving see to it, and no list that is written late, from before somebody
\* else's change, nor a renamed account takes the last one away; only a changed
\* role does, which is not checked.
AdminRemains == demoted \/ HasAdmin(users)
===============================================================================
