----------------------------- MODULE SettingsStore -----------------------------
(***************************************************************************)
(* The settings (settings_store.py) and the restore of a backup            *)
(* (backup_manager.py).                                                    *)
(*                                                                         *)
(* The settings live in memory and in settings.json; every change writes   *)
(* the whole file: a temporary file first, then two renames, the old file  *)
(* to settings.bak and the new one in its place, all under one lock.  A    *)
(* restore runs in a thread of its own, and nothing keeps a second one     *)
(* from starting; it writes the other files of the backup, then            *)
(* settings.json, without that lock, and then has the settings read anew.  *)
(* A start reads settings.json or the defaults, and settings.bak if        *)
(* settings.json cannot be read; an older schema is migrated and saved at  *)
(* once.                                                                   *)
(***************************************************************************)
EXTENDS Naturals

CONSTANTS MaxChange,    \* bound on changes of a setting, numbered as they come
          MaxRestore,   \* bound on restores, numbered likewise
          MaxStoreCrash \* bound on crashes

ASSUME SettingsAssumption ==
    MaxChange \in Nat /\ MaxRestore \in Nat /\ MaxStoreCrash \in Nat

\* What a settings file says.  set: the change that is in effect, 0 for the
\* defaults, MaxChange + r for what restore r brought; bookings: the addresses
\* the service has found by itself; schema: migrated to the current schema.
Conf == [set : 0..(MaxChange + MaxRestore), bookings : BOOLEAN, schema : BOOLEAN]
Defaults == [set |-> 0, bookings |-> FALSE, schema |-> FALSE]
None == [set |-> 0, bookings |-> FALSE, schema |-> FALSE, none |-> "absent"]
Torn == [set |-> 0, bookings |-> FALSE, schema |-> FALSE, none |-> "torn"]
RestoreNo == 1..MaxRestore
Restored(r) == MaxChange + r

VARIABLES
    mem,        \* _data, None while the process is down
    file,       \* settings.json
    bak,        \* settings.bak
    tmp,        \* settings.tmp
    unflushed,  \* settings.json may not have reached the disk yet
    save,       \* the save under way: "none", "tmp", "moved"
    changes,    \* changes made
    restores,   \* restores begun
    restore,    \* [restore -> "none", "others", "merged", "written"]
    merged,     \* [restore -> the settings it is about to write]
    want,       \* [restore -> whether the settings were chosen, too]
    storeCrashes,
    acked,      \* ghost: the settings that count, by what was acknowledged last
    lost,       \* ghost: how acknowledged settings were lost
    whole,      \* ghost: restores all of whose other files are written
    undone,     \* ghost: restores acknowledged without taking effect
    raced       \* ghost: those with another write between theirs and reading anew

settingsVars == <<mem, file, bak, tmp, unflushed, save, changes, restores, restore,
                  merged, want, storeCrashes, acked, lost, whole, undone, raced>>

storeGhosts == <<acked, lost, whole, undone, raced>>
restoring == <<restores, restore, merged, want>>

SettingsInit ==
    /\ mem = [Defaults EXCEPT !.schema = TRUE] /\ file = mem
    /\ bak = None /\ tmp = None /\ unflushed = FALSE
    /\ save = "none"
    /\ changes = 0 /\ restores = 0
    /\ restore = [r \in RestoreNo |-> "none"] /\ merged = [r \in RestoreNo |-> None]
    /\ want = [r \in RestoreNo |-> TRUE]
    /\ storeCrashes = 0
    /\ acked = mem /\ lost = {} /\ whole = {} /\ undone = {} /\ raced = {}

Up == mem \in Conf

(***************************************************************************)
(* update, force_update and _save                                          *)
(***************************************************************************)

\* The change is in memory before it is on disk.
Update ==
    /\ Up /\ save = "none"
    /\ \/ /\ changes < MaxChange /\ changes' = changes + 1
          /\ mem' = [mem EXCEPT !.set = changes + 1]
       \/ ~mem.bookings /\ mem' = [mem EXCEPT !.bookings = TRUE] /\ UNCHANGED changes
    /\ \/ tmp' = mem' /\ save' = "tmp"
       \/ UNCHANGED <<tmp, save>>          \* the disk is full: the caller hears of it
    /\ UNCHANGED <<file, bak, unflushed, restoring, storeCrashes, storeGhosts>>

MoveToBak ==
    /\ save = "tmp" /\ save' = "moved"
    /\ IF file # None THEN bak' = file /\ file' = None ELSE UNCHANGED <<bak, file>>
    /\ UNCHANGED <<mem, tmp, unflushed, changes, restoring, storeCrashes, storeGhosts>>

MoveToFile ==
    /\ save = "moved" /\ save' = "none"
    /\ file' = tmp /\ tmp' = None /\ unflushed' = TRUE
    /\ acked' = mem
    /\ raced' = raced \cup {r \in RestoreNo : restore[r] = "written"}
    /\ UNCHANGED <<mem, bak, changes, restoring, storeCrashes, lost, whole, undone>>

Flush ==
    /\ unflushed /\ unflushed' = FALSE
    /\ UNCHANGED <<mem, file, bak, tmp, save, changes, restoring, storeCrashes,
                   storeGhosts>>

(***************************************************************************)
(* init                                                                    *)
(***************************************************************************)

\* Mutant: the copy comes first.
LoadedSwapped(f, b) ==
    CASE b \in Conf -> b [] f \in Conf -> f [] OTHER -> Defaults

\* settings.bak is looked at only if settings.json is there and unreadable.
Loaded(f, b) ==
    CASE f \in Conf               -> f
      [] f = Torn /\ b \in Conf   -> b
      [] OTHER                    -> Defaults

\* _run_migrations: an older schema is brought up to date and saved.
Load ==
    LET c == Loaded(file, bak)
    IN  /\ mem' = [c EXCEPT !.schema = TRUE]
        /\ IF c.schema THEN UNCHANGED <<tmp, save>>
                       ELSE tmp' = mem' /\ save' = "tmp"

StartUp ==
    /\ ~Up /\ Load
    /\ UNCHANGED <<file, bak, unflushed, changes, restoring, storeCrashes, storeGhosts>>

\* The process stops, or the power does: then a file renamed a moment ago may
\* be there without its content.
StoreCrash ==
    LET gone == Loaded(file', bak')
        kept == {acked.set, mem.set}
    IN  /\ Up /\ storeCrashes < MaxStoreCrash /\ storeCrashes' = storeCrashes + 1
        /\ file' = file \/ (unflushed /\ file # None /\ file' = Torn)
        /\ UNCHANGED bak
        /\ lost' = IF gone.set \in kept THEN lost
                   ELSE lost \cup {CASE file' = Torn -> "power"
                                     [] file' # Torn /\ save = "moved" -> "between renames"
                                     [] OTHER -> "unexplained"}
        /\ acked' = gone
        /\ mem' = None /\ tmp' = None /\ save' = "none" /\ unflushed' = FALSE
        /\ restore' = [r \in RestoreNo |-> "none"] /\ merged' = [r \in RestoreNo |-> None]
        /\ UNCHANGED <<changes, restores, want, whole, undone, raced>>

(***************************************************************************)
(* restore_backup                                                          *)
(***************************************************************************)

RestoreBegins ==
    /\ Up /\ restores < MaxRestore
    /\ restores' = restores + 1 /\ restore' = [restore EXCEPT ![restores + 1] = "others"]
    /\ \E w \in BOOLEAN : want' = [want EXCEPT ![restores + 1] = w]
    /\ UNCHANGED <<mem, file, bak, tmp, unflushed, save, changes, merged, storeCrashes,
                   storeGhosts>>

Continues(r, stage) == restore' = [restore EXCEPT ![r] = stage]

\* A file cannot be written: the settings stay as they are.
RestoreFails(r) ==
    /\ restore[r] \in {"others", "merged"} /\ Continues(r, "none")
    /\ merged' = [merged EXCEPT ![r] = None]
    /\ UNCHANGED <<mem, file, bak, tmp, unflushed, save, changes, restores, want,
                   storeCrashes, storeGhosts>>

\* The settings of the backup, with the addresses of the running system; they
\* are read from settings.json, if it is there.
FromBackup(r) ==
    \E b, s \in BOOLEAN :
        merged' = [merged EXCEPT ![r] = [set |-> Restored(r), schema |-> s,
                                         bookings |-> b \/ (file \in Conf /\ file.bookings)]]

\* Mutant: the settings are written before the other files.
MergeFirst(r) ==
    /\ restore[r] = "others" /\ want[r]
    /\ FromBackup(r) /\ Continues(r, "merged")
    /\ UNCHANGED <<mem, file, bak, tmp, unflushed, save, changes, restores, want,
                   storeCrashes, storeGhosts>>

\* All other files that were chosen are written.
MergeSettings(r) ==
    /\ restore[r] = "others" /\ want[r]
    /\ FromBackup(r) /\ Continues(r, "merged")
    /\ whole' = whole \cup {r}
    /\ UNCHANGED <<mem, file, bak, tmp, unflushed, save, changes, restores, want,
                   storeCrashes, acked, lost, undone, raced>>

\* write_secret_bytes: a temporary file of its own and a rename.
WriteRestored(r) ==
    /\ restore[r] = "merged" /\ Continues(r, "written")
    /\ file' = merged[r] /\ acked' = merged[r] /\ unflushed' = TRUE
    /\ raced' = raced \cup {q \in RestoreNo : restore[q] = "written"}
    /\ UNCHANGED <<mem, bak, tmp, save, changes, restores, merged, want, storeCrashes,
                   lost, whole, undone>>

\* Without the settings chosen, they are read anew all the same.
SkipSettings(r) ==
    /\ restore[r] = "others" /\ ~want[r]
    /\ Continues(r, "written")
    /\ UNCHANGED <<mem, file, bak, tmp, unflushed, save, changes, restores, merged,
                   want, storeCrashes, storeGhosts>>

ReadAnew(r) ==
    /\ restore[r] = "written" /\ save = "none"
    /\ Load
    /\ Continues(r, "none") /\ merged' = [merged EXCEPT ![r] = None]
    /\ undone' = IF want[r] /\ mem'.set # Restored(r) THEN undone \cup {r} ELSE undone
    /\ acked' = mem'
    /\ UNCHANGED <<file, bak, unflushed, changes, restores, want, storeCrashes, lost,
                   whole, raced>>

SettingsNext ==
    \/ Update \/ MoveToBak \/ MoveToFile \/ Flush
    \/ StartUp \/ StoreCrash
    \/ RestoreBegins
    \/ \E r \in RestoreNo :
          \/ RestoreFails(r) \/ MergeSettings(r) \/ WriteRestored(r)
          \/ SkipSettings(r) \/ ReadAnew(r)

SettingsSpec == SettingsInit /\ [][SettingsNext]_settingsVars

(***************************************************************************)
(* Properties                                                              *)
(***************************************************************************)

SettingsTypeOK ==
    /\ mem \in Conf \cup {None} /\ file \in Conf \cup {None, Torn}
    /\ bak \in Conf \cup {None, Torn} /\ tmp \in Conf \cup {None}
    /\ unflushed \in BOOLEAN /\ save \in {"none", "tmp", "moved"}
    /\ changes \in 0..MaxChange /\ restores \in 0..MaxRestore
    /\ restore \in [RestoreNo -> {"none", "others", "merged", "written"}]
    /\ merged \in [RestoreNo -> Conf \cup {None}] /\ want \in [RestoreNo -> BOOLEAN]
    /\ storeCrashes \in 0..MaxStoreCrash
    /\ acked \in Conf /\ lost \subseteq {"power", "between renames", "unexplained"}
    /\ whole \cup undone \cup raced \subseteq RestoreNo

\* An acknowledged change, or a restored file, is what the next start reads;
\* only a power cut and a crash between the two renames excuse anything else.
SettingsKept == "unexplained" \notin lost

\* The settings of a backup come into effect only when every other file that was
\* chosen is written, whatever fails, stops, is saved or restored in between (two
\* restores at once may write over each other's files); and one that reports
\* success has taken effect, unless a change was saved, or another restore
\* written, between its own write and the reading anew.
RestoreIsWhole ==
    /\ \A r \in RestoreNo : Restored(r) \in {mem.set, file.set} => r \in whole
    /\ undone \subseteq raced
===============================================================================
