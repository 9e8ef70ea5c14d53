----------------------------- MODULE AlertSpool ------------------------------
(***************************************************************************)
(* How a failed Airflow task gets into monitoring.alert_events.  The       *)
(* failure callback (airflow/dags/analytics_tasks.py) puts a file into a   *)
(* spool and then posts the same alert to the driver; in the driver a      *)
(* handler thread and the main loop (analytics/driver.py) both insert it   *)
(* with an optimistic MERGE (analytics/common/delta.py), and the main loop *)
(* removes the file.                                                       *)
(*                                                                         *)
(* An alert stands for its alert_id, the hash of run and task; a task that *)
(* is cleared and fails again reports the same alert again.                *)
(***************************************************************************)
EXTENDS Naturals

CONSTANTS
  Alert,
  Handler,       \* handler threads of the driver's HTTP server
  Loop,          \* its main thread
  MergeAttempts, \* merge_attempts
  None

ASSUME SpoolAssumption ==
  /\ Loop \notin Handler
  /\ MergeAttempts \in Nat \ {0}
  /\ None \notin Alert

Writer == Handler \cup {Loop}

VARIABLES
  callback,      \* where the failure callback of each alert is
  handler,       \* the thread that serves its POST
  temporary,     \* <alert_id>.tmp
  spool,         \* <alert_id>.json
  reported,      \* alerts that have been in the spool
  entries,       \* how many rows alert_events has of each alert
  running,       \* the driver is up
  files,         \* what the main loop has listed and not yet looked at
  step,          \* where each writer is in insert_once(), or behind it
  row,           \* the alert it inserts
  attempt,       \* of retry()
  absent,        \* its snapshot has no such row
  behind         \* writers whose snapshot misses a commit

airflowVars == <<callback, handler, temporary, spool, reported>>
writerVars == <<step, row, attempt, absent, behind>>
vars == <<airflowVars, entries, running, files, writerVars>>

\* The values of the variables; what a writer holds, and what it does not.
TypeOK ==
  /\ callback \in [Alert -> {"idle", "writing", "written", "spooled", "posting"}]
  /\ handler \in [Alert -> Handler \cup {None}]
  /\ temporary \in [Alert -> {"none", "partial", "whole"}]
  /\ spool \in [Alert -> {"none", "partial", "whole"}]
  /\ reported \in SUBSET Alert
  /\ entries \in [Alert -> Nat]
  /\ running \in BOOLEAN
  /\ files \in SUBSET Alert
  /\ step \in [Writer -> {"idle", "begin", "commit", "done"}]
  /\ row \in [Writer -> Alert \cup {None}]
  /\ attempt \in [Writer -> 0..(MergeAttempts - 1)]
  /\ absent \in [Writer -> BOOLEAN]
  /\ behind \subseteq {w \in Writer : step[w] = "commit"}
  /\ \A w \in Writer : step[w] = "idle" <=> row[w] = None
  /\ ~running => files = {} /\ \A w \in Writer : step[w] = "idle"
  /\ \A a \in Alert : callback[a] = "written" => temporary[a] = "whole"

Init ==
  /\ callback = [a \in Alert |-> "idle"]
  /\ handler = [a \in Alert |-> None]
  /\ temporary = [a \in Alert |-> "none"]
  /\ spool = [a \in Alert |-> "none"]
  /\ reported = {}
  /\ entries = [a \in Alert |-> 0]
  /\ running = TRUE
  /\ files = {}
  /\ step = [w \in Writer |-> "idle"]
  /\ row = [w \in Writer |-> None]
  /\ attempt = [w \in Writer |-> 0]
  /\ absent = [w \in Writer |-> FALSE]
  /\ behind = {}

-----------------------------------------------------------------------------
(* task_failed().                                                          *)

At(a, from, to) ==
  /\ callback[a] = from
  /\ callback' = [callback EXCEPT ![a] = to]

\* A task has failed for the last time: write_text() opens the file ...
Fail(a) ==
  /\ At(a, "idle", "writing")
  /\ temporary' = [temporary EXCEPT ![a] = "partial"]
  /\ UNCHANGED <<handler, spool, reported, entries, running, files, writerVars>>

\* ... and has written all of it.
WriteText(a) ==
  /\ At(a, "writing", "written")
  /\ temporary' = [temporary EXCEPT ![a] = "whole"]
  /\ UNCHANGED <<handler, spool, reported, entries, running, files, writerVars>>

\* Mutant: the file gets its name before it is written.
RenameEarly(a) ==
  /\ At(a, "writing", "spooled")
  /\ spool' = [spool EXCEPT ![a] = temporary[a]]
  /\ temporary' = [temporary EXCEPT ![a] = "none"]
  /\ reported' = reported \cup {a}
  /\ UNCHANGED <<handler, entries, running, files, writerVars>>

\* replace() is atomic, also over a file of the same name.
Rename(a) ==
  /\ At(a, "written", "spooled")
  /\ spool' = [spool EXCEPT ![a] = temporary[a]]
  /\ temporary' = [temporary EXCEPT ![a] = "none"]
  /\ reported' = reported \cup {a}
  /\ UNCHANGED <<handler, entries, running, files, writerVars>>

\* A writer starts insert_once().
Insert(w, a) ==
  /\ step' = [step EXCEPT ![w] = "begin"]
  /\ row' = [row EXCEPT ![w] = a]
  /\ attempt' = [attempt EXCEPT ![w] = 0]
  /\ UNCHANGED <<absent, behind>>

\* POST /failure: a new thread of the server handles it ...
Post(a) ==
  /\ running
  /\ At(a, "spooled", "posting")
  /\ \E h \in Handler :
       /\ step[h] = "idle"
       /\ handler' = [handler EXCEPT ![a] = h]
       /\ Insert(h, a)
  /\ UNCHANGED <<temporary, spool, reported, entries, running, files>>

\* ... or there is no server.
Refused(a) ==
  /\ ~running
  /\ At(a, "spooled", "idle")
  /\ UNCHANGED <<handler, temporary, spool, reported, entries, running, files,
                 writerVars>>

-----------------------------------------------------------------------------
(* insert_once(): a MERGE reads a snapshot of the table and commits, if no *)
(* other transaction has added files in between.                           *)

Snapshot(w) ==
  /\ step[w] = "begin"
  /\ step' = [step EXCEPT ![w] = "commit"]
  /\ absent' = [absent EXCEPT ![w] = entries[row[w]] = 0]
  /\ UNCHANGED <<airflowVars, entries, running, files, row, attempt, behind>>

\* A commit: every snapshot taken before it misses it.
Overtake(w) == behind' = {v \in Writer \ {w} : step[v] = "commit"}

\* Mutant: without the Serializable level two appends do not conflict.
MergeBlindly(w) ==
  /\ step[w] = "commit"
  /\ step' = [step EXCEPT ![w] = "done"]
  /\ entries' = [entries EXCEPT ![row[w]] = @ + (IF absent[w] THEN 1 ELSE 0)]
  /\ behind' = behind \ {w}
  /\ UNCHANGED <<airflowVars, running, files, row, attempt, absent>>

\* A transaction that inserts nothing disturbs nobody.
Merge(w) ==
  /\ step[w] = "commit"
  /\ w \notin behind
  /\ step' = [step EXCEPT ![w] = "done"]
  /\ IF absent[w]
       THEN /\ entries' = [entries EXCEPT ![row[w]] = @ + 1]
            /\ Overtake(w)
       ELSE UNCHANGED <<entries, behind>>
  /\ UNCHANGED <<airflowVars, running, files, row, attempt, absent>>

Idle(w) ==
  /\ step' = [step EXCEPT ![w] = "idle"]
  /\ row' = [row EXCEPT ![w] = None]
  /\ attempt' = [attempt EXCEPT ![w] = 0]
  /\ absent' = [absent EXCEPT ![w] = FALSE]
  /\ behind' = behind \ {w}

\* The handler answers, and its callback, if it is still there, is over.
Answer(h) ==
  /\ callback' = [a \in Alert |-> IF handler[a] = h THEN "idle" ELSE callback[a]]
  /\ handler' = [a \in Alert |-> IF handler[a] = h THEN None ELSE handler[a]]
  /\ Idle(h)
  /\ UNCHANGED <<temporary, spool, reported, entries, running, files>>

\* The process ends: every thread is gone, every connection broken.
Ends ==
  /\ running' = FALSE
  /\ files' = {}
  /\ step' = [w \in Writer |-> "idle"]
  /\ row' = [w \in Writer |-> None]
  /\ attempt' = [w \in Writer |-> 0]
  /\ absent' = [w \in Writer |-> FALSE]
  /\ callback' = [a \in Alert |-> IF callback[a] = "posting" THEN "idle" ELSE callback[a]]
  /\ handler' = [a \in Alert |-> None]
  /\ behind' = {}
  /\ UNCHANGED <<temporary, spool, reported, entries>>

\* insert_once() raises: the handler answers 500, which the callback logs; the
\* main loop ends the process.
Raises(w) == IF w = Loop THEN Ends ELSE Answer(w)

\* Mutant: one attempt too many.
ConflictOnceMore(w) ==
  /\ step[w] = "commit"
  /\ w \in behind
  /\ IF attempt[w] + 1 <= MergeAttempts
       THEN /\ step' = [step EXCEPT ![w] = "begin"]
            /\ attempt' = [attempt EXCEPT ![w] = @ + 1]
            /\ behind' = behind \ {w}
            /\ UNCHANGED <<airflowVars, entries, running, files, row, absent>>
       ELSE Raises(w)

\* retry(): a conflict is repeated, except on the last attempt.
Conflict(w) ==
  /\ step[w] = "commit"
  /\ w \in behind
  /\ IF attempt[w] + 1 < MergeAttempts
       THEN /\ step' = [step EXCEPT ![w] = "begin"]
            /\ attempt' = [attempt EXCEPT ![w] = @ + 1]
            /\ behind' = behind \ {w}
            /\ UNCHANGED <<airflowVars, entries, running, files, row, absent>>
       ELSE Raises(w)

Respond(h) ==
  /\ step[h] = "done"
  /\ Answer(h)

-----------------------------------------------------------------------------
(* The main loop.                                                          *)

Glob ==
  /\ running
  /\ step[Loop] = "idle"
  /\ files = {}
  /\ files' = {a \in Alert : spool[a] # "none"}
  /\ files' # {}
  /\ UNCHANGED <<airflowVars, entries, running, writerVars>>

\* Mutant: the file is removed when it has been read.
ReadFileAway(a) ==
  /\ step[Loop] = "idle"
  /\ a \in files
  /\ files' = files \ {a}
  /\ spool' = [spool EXCEPT ![a] = "none"]
  /\ Insert(Loop, a)
  /\ UNCHANGED <<callback, handler, temporary, reported, entries, running>>

ReadFile(a) ==
  /\ step[Loop] = "idle"
  /\ a \in files
  /\ IF spool[a] = "whole"
       THEN /\ files' = files \ {a}
            /\ Insert(Loop, a)
            /\ UNCHANGED <<airflowVars, entries, running>>
       ELSE Ends

\* The file may by now be that of a later report of the same alert.
Unlink ==
  /\ step[Loop] = "done"
  /\ spool' = [spool EXCEPT ![row[Loop]] = "none"]
  /\ Idle(Loop)
  /\ UNCHANGED <<callback, handler, temporary, reported, entries, running, files>>

\* Compose starts the driver again.
Restart ==
  /\ ~running
  /\ running' = TRUE
  /\ UNCHANGED <<airflowVars, entries, files, writerVars>>

-----------------------------------------------------------------------------
(* Failures.                                                               *)

\* An exception that is no conflict.
WriteFails(w) ==
  /\ step[w] \in {"begin", "commit"}
  /\ Raises(w)

\* The driver dies, or a stopped query ends it.
DriverEnds == running /\ Ends

\* The Airflow worker dies, or urlopen() gives up; the thread goes on.
CallbackEnds(a) ==
  /\ callback[a] # "idle"
  /\ callback' = [callback EXCEPT ![a] = "idle"]
  /\ handler' = [handler EXCEPT ![a] = None]
  /\ UNCHANGED <<temporary, spool, reported, entries, running, files, writerVars>>

\* Another transaction on alert_events: an alert of the streams, the retention.
OtherCommit ==
  /\ behind' = {w \in Writer : step[w] = "commit"}
  /\ UNCHANGED <<airflowVars, entries, running, files, step, row, attempt, absent>>

-----------------------------------------------------------------------------
Callback(a) == WriteText(a) \/ Rename(a) \/ Post(a) \/ Refused(a)
Write(w) == Snapshot(w) \/ Merge(w) \/ Conflict(w)
MainLoop == Glob \/ (\E a \in Alert : ReadFile(a)) \/ Write(Loop) \/ Unlink \/ Restart
Serve(h) == Write(h) \/ Respond(h)

Operation ==
  \/ \E a \in Alert : Fail(a) \/ Callback(a)
  \/ MainLoop
  \/ \E h \in Handler : Serve(h)

Disruption ==
  \/ \E w \in Writer : WriteFails(w)
  \/ DriverEnds
  \/ \E a \in Alert : CallbackEnds(a)
  \/ OtherCommit

Next == Operation \/ Disruption

Spec == Init /\ [][Next]_vars

Fairness == WF_vars(MainLoop)

-----------------------------------------------------------------------------
(* Properties.                                                             *)

\* The callback may die, its POST be refused and the driver end at any point: an
\* alert that has reached the spool is there until it is in the table.
SpooledUntilRecorded ==
  \A a \in reported : spool[a] = "whole" \/ entries[a] > 0

\* A reported failure is recorded at last.
EveryReportIsRecorded ==
  \A a \in Alert : a \in reported ~> entries[a] > 0

Ledger == INSTANCE AlertLedger

\* File and POST, repeated reports and restarts leave one row of each alert, and
\* none of an alert that was not reported.
RecordedOnce == Ledger!Spec
=============================================================================
