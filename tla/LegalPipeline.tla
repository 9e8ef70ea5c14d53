--------------------------- MODULE LegalPipeline ----------------------------
(***************************************************************************)
(* airflow: the DAG analytics_legal_ingestion.  A sensor with a consumer   *)
(* group of its own wakes a run when the Legal topic has grown; the run    *)
(* has the driver execute two streaming jobs, whose checkpoints know       *)
(* nothing of that group, and acknowledges the offsets of the wake-up      *)
(* after both have succeeded.                                              *)
(*                                                                         *)
(* Kafka counts offsets from 0 and names the next one; so a partition's    *)
(* high is the number of records ever written to it.  A micro-batch is one *)
(* step here; SilverStreams takes it apart.                                *)
(***************************************************************************)
EXTENDS Integers

CONSTANTS
  Partition,     \* of the Legal topic
  Records,       \* how many records a partition gets
  Retries        \* default_args["retries"]

ASSUME PipelineAssumption ==
  /\ Records \in Nat
  /\ Retries \in Nat

Record == Partition \X (1..Records)
Offset == 0..Records
Offsets == [Partition -> Offset]
Layer == {"bronze", "silver"}

\* XCom without a value; partitions without a committed offset; a query without a
\* checkpoint.
NoOffsets == [p \in Partition |-> -1]

VARIABLES
  low,           \* the watermarks of each partition: what retention removed ...
  high,          \* ... and what was written
  committed,     \* offsets of the sensor's group
  origin,        \* checkpoint of legal_kafka_to_bronze: where its first query began ...
  ingested,      \* ... and how far its batches have come
  bronze,        \* records in the Bronze table
  silver,        \* records of Bronze that legal_bronze_to_silver has merged
  task,          \* the task of the run that is due
  tries,         \* how often it has failed
  event,         \* XCom of the sensor
  call,          \* its request to the driver
  lost,          \* requests for each layer whose caller is gone
  job,           \* the layer the driver runs under batch_lock
  until,         \* availableNow: the end offsets a Bronze job started with ...
  rows,          \* ... or the records of Bronze a Silver job started with
  stray          \* offsets of a commit whose task has been given up

topicVars == <<low, high>>
tableVars == <<origin, ingested, bronze, silver>>
runVars == <<task, tries, event>>
jobVars == <<job, until, rows>>
vars == <<topicVars, committed, tableVars, runVars, call, lost, jobVars, stray>>

\* The values of the variables.
TypeOK ==
  /\ low \in Offsets
  /\ high \in Offsets
  /\ committed \in Offsets \cup {NoOffsets}
  /\ origin \in Offsets \cup {NoOffsets}
  /\ ingested \in Offsets \cup {NoOffsets}
  /\ origin = NoOffsets <=> ingested = NoOffsets
  /\ bronze \in SUBSET Record
  /\ silver \in SUBSET Record
  /\ task \in Layer \cup {"wait", "ack", "alerts"}
  /\ tries \in 0..Retries
  /\ event \in Offsets \cup {NoOffsets}
  /\ call \in {"none", "waiting", "running", "done", "failed"}
  /\ lost \in [Layer -> Nat]
  /\ job \in Layer \cup {"none"}
  /\ until \in Offsets
  /\ rows \in SUBSET Record
  /\ stray \in Offsets \cup {NoOffsets}
  /\ job = "bronze" => origin \in Offsets
  /\ task \notin Layer => call = "none"
  /\ call = "running" => job = task
  /\ task # "wait" <=> event # NoOffsets

Zero == [p \in Partition |-> 0]

Init ==
  /\ low = Zero
  /\ high = Zero
  /\ committed = NoOffsets
  /\ origin = NoOffsets
  /\ ingested = NoOffsets
  /\ bronze = {}
  /\ silver = {}
  /\ task = "wait"
  /\ tries = 0
  /\ event = NoOffsets
  /\ call = "none"
  /\ lost = [l \in Layer |-> 0]
  /\ job = "none"
  /\ until = Zero
  /\ rows = {}
  /\ stray = NoOffsets

-----------------------------------------------------------------------------
(* The topic.                                                              *)

Publish(p) ==
  /\ high[p] < Records
  /\ high' = [high EXCEPT ![p] = @ + 1]
  /\ UNCHANGED <<low, committed, tableVars, runVars, call, lost, jobVars, stray>>

\* retention.ms removes the oldest record, read or not.
Expire(p) ==
  /\ low[p] < high[p]
  /\ low' = [low EXCEPT ![p] = @ + 1]
  /\ UNCHANGED <<high, committed, tableVars, runVars, call, lost, jobVars, stray>>

-----------------------------------------------------------------------------
(* A run of the DAG.                                                       *)

\* @continuous with max_active_runs=1: the next run starts when this one ends.
NewRun ==
  /\ task' = "wait"
  /\ tries' = 0
  /\ event' = NoOffsets

AfterTask(t) ==
  CASE t = "bronze" -> "silver" [] t = "silver" -> "ack" [] t = "ack" -> "alerts"

\* The task that is due has succeeded ...
Succeeds ==
  /\ task' = AfterTask(task)
  /\ tries' = 0
  /\ UNCHANGED event

\* Mutant: one try too many.
FailsOnceMore ==
  IF tries <= Retries
    THEN tries' = tries + 1 /\ UNCHANGED <<task, event>>
    ELSE NewRun

\* ... or failed: it is tried again, or the run is given up.
Fails ==
  IF tries < Retries
    THEN tries' = tries + 1 /\ UNCHANGED <<task, event>>
    ELSE NewRun

\* Mutant: the last partition decides.
PendingLast ==
  LET p == CHOOSE p \in Partition : TRUE
  IN high[p] > (IF committed[p] >= 0 THEN committed[p] ELSE low[p])

\* Mutant: an exclusive end taken for an inclusive one.
PendingAlways ==
  \E p \in Partition : high[p] >= (IF committed[p] >= 0 THEN committed[p] ELSE low[p])

\* pending_offsets(): a group without a committed offset starts at the low
\* watermark.
Pending ==
  \E p \in Partition : high[p] > (IF committed[p] >= 0 THEN committed[p] ELSE low[p])

\* LegalOffsetsTrigger polls until something is pending.  The partitions are read
\* one by one; as only writes to other partitions come in between, one reading
\* of all of them stands for it.
Wake ==
  /\ task = "wait"
  /\ Pending
  /\ event' = high
  /\ task' = "bronze"
  /\ tries' = 0
  /\ UNCHANGED <<topicVars, committed, tableVars, call, lost, jobVars, stray>>

\* submit() posts to /run and blocks.
Submit ==
  /\ task \in Layer
  /\ call = "none"
  /\ call' = "waiting"
  /\ UNCHANGED <<topicVars, committed, tableVars, runVars, lost, jobVars, stray>>

\* submit() returns or raises.
Return ==
  /\ call \in {"done", "failed"}
  /\ call' = "none"
  /\ IF call = "done" THEN Succeeds ELSE Fails
  /\ UNCHANGED <<topicVars, committed, tableVars, lost, jobVars, stray>>

\* Mutant: the end offsets are read again.
AckLatest ==
  /\ task = "ack"
  /\ committed' = high
  /\ Succeeds
  /\ UNCHANGED <<topicVars, tableVars, call, lost, jobVars, stray>>

\* acknowledge_sensor() commits what the sensor has seen.
Ack ==
  /\ task = "ack"
  /\ committed' = event
  /\ Succeeds
  /\ UNCHANGED <<topicVars, tableVars, call, lost, jobVars, stray>>

\* evaluate() only reads; the run ends whether it succeeds or not.
Finish ==
  /\ task = "alerts"
  /\ NewRun
  /\ UNCHANGED <<topicVars, committed, tableVars, call, lost, jobVars, stray>>

-----------------------------------------------------------------------------
(* The driver: one job at a time, in no particular order.                  *)

\* startingOffsets=earliest: a query without a checkpoint begins at the low
\* watermarks, and writes them down for good.
OpenCheckpoint ==
  IF origin = NoOffsets
    THEN origin' = low /\ ingested' = low
    ELSE UNCHANGED <<origin, ingested>>

\* availableNow freezes its end when the query starts.
StartJob(l) ==
  /\ job = "none"
  /\ job' = l
  /\ IF l = "bronze" THEN OpenCheckpoint ELSE UNCHANGED <<origin, ingested>>
  /\ until' = IF l = "bronze" THEN high ELSE Zero
  /\ rows' = IF l = "silver" THEN bronze ELSE {}
  /\ UNCHANGED <<topicVars, committed, bronze, silver, runVars, stray>>

TakeCall ==
  /\ call = "waiting"
  /\ call' = "running"
  /\ StartJob(task)
  /\ UNCHANGED lost

TakeLost(l) ==
  /\ lost[l] > 0
  /\ lost' = [lost EXCEPT ![l] = @ - 1]
  /\ StartJob(l)
  /\ UNCHANGED call

\* A batch of at most maxOffsetsPerTrigger records.  With failOnDataLoss a range
\* behind the checkpoint that has lost its beginning cannot be read.
IngestBatch ==
  /\ job = "bronze"
  /\ \E end \in Offsets :
       /\ end # ingested
       /\ \A p \in Partition : ingested[p] <= end[p] /\ end[p] <= until[p]
       /\ \A p \in Partition : ingested[p] < end[p] => low[p] <= ingested[p]
       /\ bronze' = bronze \cup {r \in Record : /\ ingested[r[1]] < r[2]
                                                /\ r[2] <= end[r[1]]}
       /\ ingested' = end
  /\ UNCHANGED <<topicVars, committed, origin, silver, runVars, call, lost, jobVars,
                 stray>>

MergeBatch ==
  /\ job = "silver"
  /\ \E batch \in SUBSET (rows \ silver) :
       /\ batch # {}
       /\ silver' = silver \cup batch
  /\ UNCHANGED <<topicVars, committed, origin, ingested, bronze, runVars, call, lost,
                 jobVars, stray>>

\* The job ends and its caller, if there still is one, is answered.
Answer(result) ==
  /\ job # "none"
  /\ job' = "none"
  /\ until' = Zero
  /\ rows' = {}
  /\ call' = IF call = "running" THEN result ELSE call
  /\ UNCHANGED <<topicVars, committed, tableVars, runVars, lost, stray>>

EndJob ==
  /\ job = "bronze" => \A p \in Partition : until[p] <= ingested[p]
  /\ rows \subseteq silver
  /\ Answer("done")

DataLoss ==
  /\ job = "bronze"
  /\ \E p \in Partition : ingested[p] < until[p] /\ ingested[p] < low[p]
  /\ Answer("failed")

-----------------------------------------------------------------------------
(* Failures.                                                               *)

\* Anything raises: the query, a progress report, the schema registry.
JobFails == Answer("failed")

\* A job that fails before its query is planned leaves no checkpoint behind.
JobFailsAtOnce ==
  /\ job = "none"
  /\ \/ call = "waiting" /\ call' = "failed" /\ UNCHANGED lost
     \/ /\ \E l \in Layer : lost[l] > 0 /\ lost' = [lost EXCEPT ![l] = @ - 1]
        /\ UNCHANGED call
  /\ UNCHANGED <<topicVars, committed, tableVars, runVars, jobVars, stray>>

\* The connection breaks or its timeout of an hour passes; the driver does not
\* notice and will run, or is running, the job all the same.
CallerGone ==
  /\ call \in {"waiting", "running"}
  /\ call' = "failed"
  /\ lost' = IF call = "waiting" THEN [lost EXCEPT ![task] = @ + 1] ELSE lost
  /\ UNCHANGED <<topicVars, committed, tableVars, runVars, jobVars, stray>>

DriverDies ==
  /\ job' = "none"
  /\ until' = Zero
  /\ rows' = {}
  /\ lost' = [l \in Layer |-> 0]
  /\ call' = IF call \in {"waiting", "running"} THEN "failed" ELSE call
  /\ UNCHANGED <<topicVars, committed, tableVars, runVars, stray>>

SensorFails ==
  /\ task = "wait"
  /\ Fails
  /\ UNCHANGED <<topicVars, committed, tableVars, call, lost, jobVars, stray>>

\* The commit raises, before or after Kafka has it ...
AckFails ==
  /\ task = "ack"
  /\ committed' \in {committed, event}
  /\ Fails
  /\ UNCHANGED <<topicVars, tableVars, call, lost, jobVars, stray>>

\* ... or Airflow gives the task up although its process goes on ...
AckHangs ==
  /\ task = "ack"
  /\ stray = NoOffsets
  /\ stray' = event
  /\ Fails
  /\ UNCHANGED <<topicVars, committed, tableVars, call, lost, jobVars>>

\* ... and commits at any later time.
StrayAck ==
  /\ stray # NoOffsets
  /\ committed' = stray
  /\ stray' = NoOffsets
  /\ UNCHANGED <<topicVars, tableVars, runVars, call, lost, jobVars>>

-----------------------------------------------------------------------------
Airflow == Wake \/ Submit \/ Return \/ Ack \/ Finish

Driver ==
  \/ TakeCall \/ \E l \in Layer : TakeLost(l)
  \/ IngestBatch \/ MergeBatch \/ EndJob \/ DataLoss

Topic == \E p \in Partition : Publish(p) \/ Expire(p)

Operation == Topic \/ Airflow \/ Driver \/ StrayAck

Disruption ==
  JobFails \/ JobFailsAtOnce \/ CallerGone \/ DriverDies \/ SensorFails \/ AckFails \/ AckHangs

Next == Operation \/ Disruption

Spec == Init /\ [][Next]_vars

Fairness == WF_vars(Airflow) /\ WF_vars(Driver) /\ WF_vars(StrayAck)

-----------------------------------------------------------------------------
(* Properties.                                                             *)

\* Records that had expired before the first Bronze query: it began behind them.
Skipped == {r \in Record : r[2] <= origin[r[1]]}

\* Records no later job has to merge.
Settled == silver \cup Skipped

\* What the sensor's group has passed is in Silver, unless it had expired before
\* any job could have read it: an acknowledgement never puts to sleep a sensor
\* whose records were there for a job and no job has merged.
AckedIsMergedOrSkipped ==
  \A r \in Record : r[2] <= committed[r[1]] => r \in Settled

\* From the first Bronze query on, retention removes no record before its merge.
\* (It would take the reason to wake away, too, before the first acknowledgement.)
RetentionSuffices ==
  [](origin # NoOffsets => \A r \in Record : r[2] <= low[r[1]] => r \in Settled)

\* Every Legal record is merged at last, also one that arrives while a run is under
\* way and is not part of its wake-up, if it has not expired before the first
\* Bronze query: only those are both unmerged and below the low watermark.
EveryRecordIsMerged ==
  RetentionSuffices =>
    \A r \in Record : high[r[1]] >= r[2] ~> r \in silver \/ r[2] <= low[r[1]]

\* With nothing new on the topic the runs come to an end.
ComesToRest == RetentionSuffices => <>[](task = "wait")
=============================================================================
