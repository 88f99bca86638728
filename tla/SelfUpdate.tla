-------------------------------- MODULE SelfUpdate --------------------------------
(***************************************************************************)
(* How the gateway renews itself (update_core.py, update-watcher.sh).       *)
(*                                                                          *)
(* The container cannot rebuild itself: it leaves a file, which a script on *)
(* the host finds, reads in two goes, removes, and acts upon; what comes of *)
(* it is written to a status file, which the container asks before it takes *)
(* the next order.  Nothing is locked and nothing replaced atomically.      *)
(***************************************************************************)
EXTENDS Integers

CONSTANTS
    MaxVersion,   \* versions that are ever published
    MaxAsk,       \* bound on orders of the administrators
    MaxUpdFault   \* bound on failing steps and on stops of the script

ASSUME UpdateAssumption ==
    MaxVersion \in Nat \ {0} /\ MaxAsk \in Nat /\ MaxUpdFault \in Nat

Version == 1..MaxVersion
NoTarget == 0
Order == [channel : {"main", "release"}, target : Version \cup {NoTarget}]
NoOrder == [channel |-> "none", target |-> NoTarget]
Cut == [channel |-> "cut", target |-> NoTarget]   \* a file without its contents

VARIABLES
    trigger,      \* .update-trigger: an Order, Cut, or NoOrder when there is no file
    restart,      \* .restart-trigger exists
    status,       \* .update-status
    writing,      \* the order a request is just writing, or NoOrder
    script,       \* update-watcher.sh: where it is, and what it read
    disk, image,  \* the version that is checked out; the one the container runs
    tags, known,  \* released versions; those the clone on the host knows
    head,         \* the version of the main branch
    asks, updFaults

updateVars == <<trigger, restart, status, writing, script, disk, image, tags, known, head,
                asks, updFaults>>

Loop == [at |-> "loop", channel |-> "main", target |-> NoTarget]
At(pc) == [script EXCEPT !.at = pc]

UpdateInit ==
    /\ trigger = NoOrder /\ restart = FALSE /\ status = "idle" /\ writing = NoOrder
    /\ script = Loop /\ disk = 1 /\ image = 1 /\ tags = {} /\ known = {} /\ head = 1
    /\ asks = 0 /\ updFaults = 0

UpdFault == updFaults < MaxUpdFault /\ updFaults' = updFaults + 1
Ask == asks < MaxAsk /\ asks' = asks + 1

(***************************************************************************)
(* The container                                                           *)
(***************************************************************************)

\* request_update: refused while an update runs.  Opening the file empties it;
\* an order nobody took yet is gone then.
AskUpdate(order) ==
    /\ Ask /\ status # "running" /\ writing = NoOrder
    /\ trigger' = Cut /\ writing' = order
    /\ UNCHANGED <<restart, status, script, disk, image, tags, known, head, updFaults>>

\* _write_trigger: a file that was removed meanwhile takes the text with it.
WriteTrigger ==
    /\ writing # NoOrder /\ writing' = NoOrder
    /\ \/ trigger' = (IF trigger = NoOrder THEN NoOrder ELSE writing) /\ UNCHANGED updFaults
       \/ UpdFault /\ UNCHANGED trigger
    /\ UNCHANGED <<restart, status, script, disk, image, tags, known, head, asks>>

\* request_container_restart.
AskRestart ==
    /\ Ask /\ status # "running" /\ restart' = TRUE
    /\ UNCHANGED <<trigger, status, writing, script, disk, image, tags, known, head, updFaults>>

\* clear_status, which asks nothing.
ClearStatus ==
    /\ Ask /\ status # "idle" /\ status' = "idle"
    /\ UNCHANGED <<trigger, restart, writing, script, disk, image, tags, known, head, updFaults>>

Newest(list) == IF list = {} THEN NoTarget ELSE CHOOSE v \in list : \A w \in list : w <= v

\* check_update: what the page offers, by the file of the watcher or by GitHub.
Latest(channel) ==
    IF channel = "main" THEN head
    ELSE Newest(tags)
OffersUpdate(channel) == Latest(channel) > image

(***************************************************************************)
(* The script on the host                                                  *)
(***************************************************************************)

\* The restart of the container ends the request that was writing.
DoRestart ==
    /\ script.at = "loop" /\ restart
    /\ restart' = FALSE /\ writing' = NoOrder
    /\ UNCHANGED <<trigger, status, script, disk, image, tags, known, head, asks, updFaults>>

SeeTrigger ==
    /\ script.at = "loop" /\ trigger # NoOrder
    /\ script' = At("seen")
    /\ UNCHANGED <<trigger, restart, status, writing, disk, image, tags, known, head, asks, updFaults>>

\* Two readings of one file: what cannot be parsed is "main", and no target.
ReadChannel ==
    /\ script.at = "seen"
    /\ script' = [At("channel") EXCEPT
                    !.channel = IF trigger = Cut THEN "main" ELSE trigger.channel]
    /\ UNCHANGED <<trigger, restart, status, writing, disk, image, tags, known, head, asks, updFaults>>

ReadTarget ==
    /\ script.at = "channel"
    /\ script' = [At("read") EXCEPT !.target = trigger.target]
    /\ UNCHANGED <<trigger, restart, status, writing, disk, image, tags, known, head, asks, updFaults>>

TakeTrigger ==
    /\ script.at = "read" /\ trigger' = NoOrder /\ script' = At("taken")
    /\ UNCHANGED <<restart, status, writing, disk, image, tags, known, head, asks, updFaults>>

MarkRunning ==
    /\ script.at = "taken" /\ status' = "running" /\ script' = At("git")
    /\ UNCHANGED <<trigger, restart, writing, disk, image, tags, known, head, asks, updFaults>>

\* do_git_update: main's head, the tag that was asked for, or the newest one.
Wanted(list) ==
    IF script.channel # "release" THEN head
    ELSE IF script.target = NoTarget THEN Newest(list)
    ELSE IF script.target \in list THEN script.target ELSE NoTarget

\* In the release channel nobody looks at whether the tags could be fetched: then
\* the newest one the clone knows is taken.
GitUpdate ==
    /\ script.at = "git"
    /\ \/ known' = tags /\ UNCHANGED updFaults
       \/ script.channel = "release" /\ UpdFault /\ UNCHANGED known
    /\ Wanted(known') # NoTarget
    /\ disk' = Wanted(known') /\ script' = At("build")
    /\ UNCHANGED <<trigger, restart, status, writing, image, tags, head, asks>>

GitFails ==
    /\ script.at = "git" /\ script' = At("failed")
    /\ \/ Wanted(tags) = NoTarget /\ known' = tags /\ UNCHANGED updFaults
       \/ UpdFault /\ known' \in {known, tags}
    /\ UNCHANGED <<trigger, restart, status, writing, disk, image, tags, head, asks>>

\* docker compose up --build: a new container, which ends what the old one did.
Rebuild ==
    /\ script.at = "build" /\ image' = disk /\ writing' = NoOrder /\ script' = At("built")
    /\ UNCHANGED <<trigger, restart, status, disk, tags, known, head, asks, updFaults>>

BuildFails ==
    /\ script.at = "build" /\ UpdFault /\ script' = At("failed")
    /\ UNCHANGED <<trigger, restart, status, writing, disk, image, tags, known, head, asks>>

\* The outcome is written; after a success the script starts itself anew.
Report ==
    /\ script.at \in {"built", "failed"}
    /\ status' = IF script.at = "built" THEN "success" ELSE "error"
    /\ script' = Loop
    /\ UNCHANGED <<trigger, restart, writing, disk, image, tags, known, head, asks, updFaults>>

\* The host goes down, or the script is killed, at any point; the unit brings
\* it up again.
ScriptStops ==
    /\ script.at # "down" /\ UpdFault /\ script' = [Loop EXCEPT !.at = "down"]
    /\ UNCHANGED <<trigger, restart, status, writing, disk, image, tags, known, head, asks>>

\* The first lines: a "running" nobody is running any more is swept away;
\* NotSwept is a script without them.
NotSwept(s) == s
Swept(s) == IF s = "running" THEN "idle" ELSE s

ScriptStarts ==
    /\ script.at = "down" /\ script' = Loop /\ status' = Swept(status)
    /\ UNCHANGED <<trigger, restart, writing, disk, image, tags, known, head, asks, updFaults>>

\* Out there a version is published, and perhaps released.
Publish ==
    /\ \/ head < MaxVersion /\ head' = head + 1 /\ UNCHANGED tags
       \/ head \notin tags /\ tags' = tags \cup {head} /\ UNCHANGED head
    /\ UNCHANGED <<trigger, restart, status, writing, script, disk, image, known, asks, updFaults>>

UpdateNext ==
    \/ \E order \in Order : AskUpdate(order)
    \/ WriteTrigger \/ AskRestart \/ ClearStatus
    \/ DoRestart \/ SeeTrigger \/ ReadChannel \/ ReadTarget \/ TakeTrigger \/ MarkRunning
    \/ GitUpdate \/ GitFails \/ Rebuild \/ BuildFails \/ Report
    \/ ScriptStops \/ ScriptStarts \/ Publish

UpdateSpec == UpdateInit /\ [][UpdateNext]_updateVars

(***************************************************************************)
(* Properties                                                              *)
(***************************************************************************)

UpdateTypeOK ==
    /\ trigger \in Order \cup {NoOrder, Cut} /\ writing \in Order \cup {NoOrder}
    /\ restart \in BOOLEAN /\ status \in {"idle", "running", "success", "error"}
    /\ script.at \in {"down", "loop", "seen", "channel", "read", "taken", "git", "build",
                      "built", "failed"}
    /\ script.channel \in {"main", "release", "none", "cut"}
    /\ disk \in Version /\ image \in Version /\ head \in Version /\ tags \subseteq Version
    /\ known \subseteq tags
    /\ asks \in 0..MaxAsk /\ updFaults \in 0..MaxUpdFault

\* While the status says an update runs, every order to update and to restart
\* is refused; so whenever it says so the script is in the middle of that
\* update, or is down and sweeps it away when it starts, and what an
\* administrator sees as a success is the version the container runs.
OrdersComeThrough ==
    /\ status = "running" => script.at \in {"git", "build", "built", "failed", "down"}
    /\ status = "success" => image = disk
==================================================================================
