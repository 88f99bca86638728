-------------------------------- MODULE Counters --------------------------------
(***************************************************************************)
(* The counters of the gateway (stats.py): one of the KEYS stands for all.  *)
(*                                                                          *)
(* Threads that handle mails count while the scheduler takes the numbers of *)
(* its report.  The lock covers the counting and its writing, but not the   *)
(* writing of the snapshot; neither file is replaced atomically.            *)
(***************************************************************************)
EXTENDS Integers

CONSTANTS
    Worker,       \* threads that count
    MaxCount,     \* bound on events
    MaxReport,    \* bound on reports
    MaxCountStop  \* bound on restarts

ASSUME CountersAssumption == {MaxCount, MaxReport, MaxCountStop} \subseteq Nat

VARIABLES
    total, snap,  \* _stats, _snapshot
    saved,        \* stats.json: [total, snap], or TornFile
    byDay,        \* stats_daily.json: today's number, or TornFile
    lock,         \* who holds _lock
    worker,       \* each thread: where it is and the file as it read it
    report,       \* the same of the scheduler
    counted, told, gap,  \* history: events and reported ones since the start; what
                         \* stood between total and snapshot at the start
    countReports, countStops

countVars == <<total, snap, saved, byDay, lock, worker, report, counted, told, gap,
               countReports, countStops>>

TornFile == [total |-> -1, snap |-> -1]
ZeroFile == [total |-> 0, snap |-> 0]
NoWorker == [at |-> "idle", file |-> ZeroFile]
NoReport == [at |-> "idle", file |-> ZeroFile, delta |-> 0, mark |-> 0]
Nobody == "nobody"

\* Mutant: whatever the file says is taken for numbers.
ReadAnything == saved

\* What is read of the file: a torn one counts as empty.
ReadFile == IF saved = TornFile THEN ZeroFile ELSE saved

CountersInit ==
    /\ total = 0 /\ snap = 0 /\ saved = ZeroFile /\ byDay = 0 /\ lock = Nobody
    /\ worker = [w \in Worker |-> NoWorker] /\ report = NoReport
    /\ counted = 0 /\ told = 0 /\ gap = 0 /\ countReports = 0 /\ countStops = 0

\* increment, up to the reading in _persist_total
Count(w) ==
    /\ worker[w].at = "idle" /\ lock = Nobody /\ counted < MaxCount
    /\ lock' = w /\ total' = total + 1 /\ counted' = counted + 1
    /\ worker' = [worker EXCEPT ![w] = [at |-> "write", file |-> ReadFile]]
    /\ UNCHANGED <<snap, saved, byDay, report, told, gap, countReports, countStops>>

\* _persist_total: the file is opened, and empty until it is written; what it
\* said of the snapshot is written back.
OpenTotal(w) ==
    /\ worker[w].at = "write" /\ saved' = TornFile
    /\ worker' = [worker EXCEPT ![w].at = "open"]
    /\ UNCHANGED <<total, snap, byDay, lock, report, counted, told, gap, countReports, countStops>>
WriteTotal(w) ==
    /\ worker[w].at = "open"
    /\ saved' = [worker[w].file EXCEPT !.total = total] /\ lock' = Nobody
    /\ worker' = [worker EXCEPT ![w] = [NoWorker EXCEPT !.at = "day"]]
    /\ UNCHANGED <<total, snap, byDay, report, counted, told, gap, countReports, countStops>>

\* _increment_daily, with a lock of its own
CountDay(w) ==
    /\ worker[w].at = "day" /\ worker' = [worker EXCEPT ![w] = NoWorker]
    /\ byDay' = byDay + 1
    /\ UNCHANGED <<total, snap, saved, lock, report, counted, told, gap, countReports, countStops>>

\* take_daily_snapshot, under the lock
TakeNumbers ==
    /\ report.at = "idle" /\ lock = Nobody /\ countReports < MaxReport
    /\ countReports' = countReports + 1
    /\ report' = [at |-> "mark", file |-> ZeroFile,
                  delta |-> IF total > snap THEN total - snap ELSE 0, mark |-> total]
    /\ UNCHANGED <<total, snap, saved, byDay, lock, worker, counted, told, gap, countStops>>

\* Mutant: the totals are looked up again when the snapshot is stored.
MarkOfNow == total

\* The snapshot is the very totals the numbers were made of.
NewMark == report.mark

\* _save_snapshot, without the lock
SetMark ==
    /\ report.at = "mark"
    /\ snap' = NewMark /\ told' = told + report.delta
    /\ report' = [report EXCEPT !.at = "write", !.file = ReadFile]
    /\ UNCHANGED <<total, saved, byDay, lock, worker, counted, gap, countReports, countStops>>
OpenSnapshot ==
    /\ report.at = "write" /\ saved' = TornFile
    /\ report' = [report EXCEPT !.at = "open"]
    /\ UNCHANGED <<total, snap, byDay, lock, worker, counted, told, gap, countReports, countStops>>
WriteSnapshot ==
    /\ report.at = "open" /\ report' = NoReport
    /\ saved' = [total |-> report.mark, snap |-> report.mark]
    /\ UNCHANGED <<total, snap, byDay, lock, worker, counted, told, gap, countReports, countStops>>

\* The process stops and starts: _load.  A thread that was writing the file of
\* the days leaves it torn, and the next one starts it anew.
CountersRestart ==
    /\ countStops < MaxCountStop /\ countStops' = countStops + 1
    /\ total' = ReadFile.total /\ snap' = ReadFile.snap
    /\ counted' = 0 /\ told' = 0 /\ gap' = ReadFile.total - ReadFile.snap
    /\ worker' = [w \in Worker |-> NoWorker] /\ report' = NoReport /\ lock' = Nobody
    /\ byDay' \in IF \E w \in Worker : worker[w].at = "day" THEN {byDay, 0} ELSE {byDay}
    /\ UNCHANGED <<saved, countReports>>

CountersNext ==
    \/ \E w \in Worker : Count(w) \/ OpenTotal(w) \/ WriteTotal(w) \/ CountDay(w)
    \/ TakeNumbers \/ SetMark \/ OpenSnapshot \/ WriteSnapshot \/ CountersRestart

CountersSpec == CountersInit /\ [][CountersNext]_countVars

-----------------------------------------------------------------------------
File == [total : Nat, snap : Nat]

CountersTypeOK ==
    /\ total \in Nat /\ snap \in Nat /\ saved \in File \cup {TornFile} /\ byDay \in Nat
    /\ lock \in Worker \cup {Nobody}
    /\ \A w \in Worker : worker[w].at \in {"idle", "write", "open", "day"}
                         /\ worker[w].file \in File
    /\ report.at \in {"idle", "mark", "write", "open"} /\ report.file \in File
    /\ counted \in Nat /\ told \in Nat /\ gap \in Int
    /\ countReports \in 0..MaxReport /\ countStops \in 0..MaxCountStop

\* While a process lives, its reports miss no event and tell none twice: what
\* they told, and what the next one would, is what was counted and what the
\* process found when it started.
ToldOnce == told + (total - snap) = counted + gap
=============================================================================
