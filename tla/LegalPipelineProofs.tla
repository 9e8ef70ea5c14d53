------------------------- MODULE LegalPipelineProofs -------------------------
(***************************************************************************)
(* The Legal DAG, for any partitions, records and retries: what the        *)
(* sensor's group has passed is in Silver, or had expired before the first *)
(* query.                                                                  *)
(***************************************************************************)
EXTENDS LegalPipeline, TLAPS

-----------------------------------------------------------------------------
(* Types.                                                                  *)

(* Offsets that were read are not the missing ones.                        *)
LEMMA SomeOffsets ==
  ASSUME NEW o \in Offsets, NEW p \in Partition
  PROVE  o # NoOffsets
<1>1. o[p] \in Nat /\ NoOffsets[p] = -1
  BY PipelineAssumption DEF Offsets, Offset, NoOffsets
<1>2. o[p] # NoOffsets[p]
  BY <1>1
<1> QED BY <1>2

(* The initial state has the types.                                        *)
LEMMA TypeInit == Init => TypeOK
  BY PipelineAssumption DEF Init, TypeOK, Zero, Offsets, Offset, Layer

(* A task that failed is due again, or the next run is.                    *)
LEMMA FailsType ==
  ASSUME TypeOK, Fails
  PROVE  /\ task' \in Layer \cup {"wait", "ack", "alerts"}
         /\ tries' \in 0..Retries
         /\ event' \in Offsets \cup {NoOffsets}
         /\ task' # "wait" <=> event' # NoOffsets
         /\ task' \in {task, "wait"}
  BY PipelineAssumption DEF TypeOK, Fails, NewRun

(* The successor of a task that succeeded is due.                          *)
LEMMA SucceedsType ==
  ASSUME TypeOK, Succeeds, task \in Layer \cup {"ack"}
  PROVE  /\ task' \in {"silver", "ack", "alerts"}
         /\ tries' \in 0..Retries
         /\ event' \in Offsets \cup {NoOffsets}
         /\ task' # "wait" <=> event' # NoOffsets
  BY PipelineAssumption DEF TypeOK, Succeeds, AfterTask, Layer

(* A job is answered only if somebody waits for it.                        *)
LEMMA AnswerType ==
  ASSUME TypeOK, NEW result \in {"done", "failed"}, Answer(result)
  PROVE  TypeOK'
  BY PipelineAssumption DEF TypeOK, Answer, Zero, Offsets, Offset, topicVars, tableVars, runVars

(* Every step keeps the types.                                             *)
LEMMA TypeStep == TypeOK /\ [Next]_vars => TypeOK'
<1> SUFFICES ASSUME TypeOK, [Next]_vars PROVE TypeOK'
  OBVIOUS
<1> USE DEF topicVars, tableVars, runVars, jobVars
<1>publish. ASSUME NEW p \in Partition, Publish(p) PROVE TypeOK'
  <2>1. high' \in Offsets
    BY <1>publish, PipelineAssumption DEF Publish, TypeOK, Offsets, Offset
  <2> QED BY <1>publish, <2>1 DEF Publish, TypeOK
<1>expire. ASSUME NEW p \in Partition, Expire(p) PROVE TypeOK'
  <2>1. low' \in Offsets
    BY <1>expire, PipelineAssumption DEF Expire, TypeOK, Offsets, Offset
  <2> QED BY <1>expire, <2>1 DEF Expire, TypeOK
<1>wake. CASE Wake
  <2>1. event' # NoOffsets
    BY <1>wake, SomeOffsets DEF Wake, Pending, TypeOK
  <2> QED BY <1>wake, <2>1, PipelineAssumption DEF Wake, TypeOK, Layer
<1>submit. CASE Submit
  BY <1>submit DEF Submit, TypeOK
<1>return. CASE Return
  <2>1. CASE call = "done"
    BY <1>return, <2>1, SucceedsType DEF Return, TypeOK, Layer
  <2>2. CASE call = "failed"
    BY <1>return, <2>2, FailsType DEF Return, TypeOK
  <2> QED BY <1>return, <2>1, <2>2 DEF Return
<1>ack. CASE Ack
  BY <1>ack, SucceedsType DEF Ack, TypeOK, Layer
<1>finish. CASE Finish
  BY <1>finish, PipelineAssumption DEF Finish, NewRun, TypeOK, Layer
<1>start. ASSUME NEW l \in Layer, StartJob(l), lost' \in [Layer -> Nat],
                 call' = call \/ (call' = "running" /\ l = task)
          PROVE  TypeOK'
  <2>1. until' \in Offsets /\ rows' \in SUBSET Record
    BY <1>start, PipelineAssumption DEF StartJob, TypeOK, Zero, Offsets, Offset
  <2>2. job = "none" /\ job' = l /\ call # "running"
    BY <1>start DEF StartJob, TypeOK, Layer
  <2>3. UNCHANGED <<low, high, committed, bronze, silver, task, tries, event, stray>>
    BY <1>start DEF StartJob
  <2>4. /\ call' \in {"none", "waiting", "running", "done", "failed"}
        /\ task \notin Layer => call' = "none"
        /\ call' = "running" => l = task
    BY <1>start, <2>2 DEF TypeOK
  <2>5. /\ origin' \in Offsets \cup {NoOffsets} /\ ingested' \in Offsets \cup {NoOffsets}
        /\ origin' = NoOffsets <=> ingested' = NoOffsets
        /\ l = "bronze" => origin' \in Offsets
    BY <1>start DEF StartJob, OpenCheckpoint, TypeOK
  <2> QED BY <1>start, <2>1, <2>2, <2>3, <2>4, <2>5 DEF TypeOK
<1>takecall. CASE TakeCall
  <2>1. task \in Layer
    BY <1>takecall DEF TakeCall, TypeOK
  <2> QED BY <1>takecall, <1>start, <2>1 DEF TakeCall, TypeOK
<1>takelost. ASSUME NEW l \in Layer, TakeLost(l) PROVE TypeOK'
  <2>1. lost' \in [Layer -> Nat]
    BY <1>takelost DEF TakeLost, TypeOK
  <2> QED BY <1>takelost, <1>start, <2>1 DEF TakeLost
<1>ingest. CASE IngestBatch
  <2>1. PICK end \in Offsets : ingested' = end /\ end # ingested
    BY <1>ingest DEF IngestBatch
  <2>2. end # NoOffsets /\ origin # NoOffsets
    <3>1. PICK p \in Partition : TRUE
      BY <2>1 DEF TypeOK, Offsets, NoOffsets
    <3> QED BY <1>ingest, <3>1, SomeOffsets DEF IngestBatch, TypeOK
  <2>3. bronze' \in SUBSET Record
    BY <1>ingest DEF IngestBatch, TypeOK
  <2> QED BY <1>ingest, <2>1, <2>2, <2>3 DEF IngestBatch, TypeOK
<1>merge. CASE MergeBatch
  BY <1>merge DEF MergeBatch, TypeOK
<1>answer. CASE EndJob \/ DataLoss \/ JobFails
  BY <1>answer, AnswerType DEF EndJob, DataLoss, JobFails
<1>atonce. CASE JobFailsAtOnce
  <2>1. lost' \in [Layer -> Nat]
    BY <1>atonce DEF JobFailsAtOnce, TypeOK
  <2>2. call' \in {call, "failed"} /\ (task \notin Layer => call' = "none")
    BY <1>atonce DEF JobFailsAtOnce, TypeOK
  <2> QED BY <1>atonce, <2>1, <2>2 DEF JobFailsAtOnce, TypeOK
<1>gone. CASE CallerGone
  <2>1. lost' \in [Layer -> Nat]
    BY <1>gone DEF CallerGone, TypeOK
  <2> QED BY <1>gone, <2>1 DEF CallerGone, TypeOK
<1>dies. CASE DriverDies
  BY <1>dies, PipelineAssumption DEF DriverDies, TypeOK, Zero, Offsets, Offset
<1>sensor. CASE SensorFails
  BY <1>sensor, FailsType DEF SensorFails, TypeOK, Layer
<1>ackfails. CASE AckFails
  BY <1>ackfails, FailsType DEF AckFails, TypeOK, Layer
<1>hangs. CASE AckHangs
  BY <1>hangs, FailsType DEF AckHangs, TypeOK, Layer
<1>stray. CASE StrayAck
  BY <1>stray DEF StrayAck, TypeOK
<1>idle. CASE UNCHANGED vars
  BY <1>idle DEF vars, TypeOK
<1> QED
  BY <1>publish, <1>expire, <1>wake, <1>submit, <1>return, <1>ack, <1>finish, <1>takecall,
     <1>takelost, <1>ingest, <1>merge, <1>answer, <1>atonce, <1>gone, <1>dies, <1>sensor,
     <1>ackfails, <1>hangs, <1>stray, <1>idle
  DEF Next, Operation, Disruption, Topic, Airflow, Driver

(* The variables of the pipeline keep their types; the driver runs the job *)
(* of the task that is due when a request is running (driver.py).          *)
THEOREM TypeCorrect == Spec => []TypeOK
  BY TypeInit, TypeStep, PTL DEF Spec

-----------------------------------------------------------------------------
(* The inductive invariant: how the offsets of a wake-up become rows of    *)
(* Silver.                                                                 *)

Covered(o, S) == \A r \in Record : r[2] <= o[r[1]] => r \in S

\* The sensor has seen only what was written ...
EventWritten == \A p \in Partition : event[p] <= high[p]

\* ... what the Bronze checkpoint has passed is in Bronze, or its first query began
\* behind it ...
IngestedIsThere == Covered(ingested, bronze \cup Skipped)

\* ... the job a task waits for reaches as far as the wake-up ...
JobReaches ==
  call = "running" =>
    /\ task = "bronze" => \A p \in Partition : event[p] <= until[p]
    /\ task = "silver" => Covered(event, rows \cup Skipped)

\* ... so that the next task finds it done ...
EventIngested ==
  task \in {"silver", "ack", "alerts"} \/ (task = "bronze" /\ call = "done") =>
    \A p \in Partition : event[p] <= ingested[p]

EventMerged ==
  task \in {"ack", "alerts"} \/ (task = "silver" /\ call = "done") =>
    Covered(event, Settled)

\* ... and a late acknowledgement is of what an earlier run has merged.
StrayMerged == Covered(stray, Settled)

IInv ==
  TypeOK /\ EventWritten /\ IngestedIsThere /\ JobReaches /\ EventIngested
  /\ EventMerged /\ StrayMerged /\ AckedIsMergedOrSkipped

(* Missing offsets cover nothing.                                          *)
LEMMA NothingCovered ==
  ASSUME NEW S PROVE Covered(NoOffsets, S)
<1> SUFFICES ASSUME NEW r \in Record PROVE ~(r[2] <= NoOffsets[r[1]])
  BY DEF Covered
<1>1. r[1] \in Partition /\ r[2] \in Nat /\ r[2] >= 1
  BY PipelineAssumption DEF Record
<1>2. NoOffsets[r[1]] = -1
  BY <1>1 DEF NoOffsets
<1> QED BY <1>1, <1>2

(* What is covered stays so in a larger set.                               *)
LEMMA CoveredGrows ==
  ASSUME NEW o, NEW S, NEW T, Covered(o, S), S \subseteq T PROVE Covered(o, T)
  BY DEF Covered

(* Before the first query nothing is skipped.                              *)
LEMMA NothingSkipped ==
  ASSUME origin = NoOffsets PROVE Skipped = {}
<1>1. Covered(NoOffsets, {})
  BY NothingCovered
<1> QED BY <1>1 DEF Covered, Skipped

(* What was skipped is decided by the first query.                         *)
LEMMA SkippedStays ==
  ASSUME UNCHANGED origin
  PROVE  /\ Skipped' = Skipped
         /\ UNCHANGED silver => Settled' = Settled
         /\ silver \subseteq silver' => Settled \subseteq Settled'
  BY DEF Skipped, Settled

(* The invariant holds initially.                                          *)
LEMMA IInvInit == Init => IInv
<1> SUFFICES ASSUME Init PROVE IInv
  OBVIOUS
<1>1. Covered(ingested, bronze \cup Skipped)
  BY NothingCovered DEF Init
<1>2. AckedIsMergedOrSkipped
  BY NothingCovered DEF Init, AckedIsMergedOrSkipped, Covered
<1>3. EventWritten
  <2> SUFFICES ASSUME NEW p \in Partition PROVE NoOffsets[p] <= Zero[p]
    BY DEF Init, EventWritten
  <2> QED BY DEF NoOffsets, Zero
<1> QED
  BY TypeInit, NothingCovered, <1>1, <1>2, <1>3
  DEF Init, IInv, IngestedIsThere, JobReaches, EventIngested, EventMerged, StrayMerged

(* A new run has nothing to show for itself.                               *)
LEMMA NewRunKeeps ==
  ASSUME IInv, NewRun, TypeOK', UNCHANGED <<high, tableVars>>,
         Covered(committed', Settled), Covered(stray', Settled)
  PROVE  IInv'
<1>1. EventWritten'
  <2> SUFFICES ASSUME NEW p \in Partition PROVE NoOffsets[p] <= high[p]
    BY DEF NewRun, EventWritten
  <2> QED BY PipelineAssumption DEF IInv, TypeOK, Offsets, Offset, NoOffsets
<1>2. JobReaches' /\ EventIngested' /\ EventMerged'
  BY DEF NewRun, JobReaches, EventIngested, EventMerged
<1>3. UNCHANGED <<origin, ingested, bronze, silver>> /\ Skipped' = Skipped /\ Settled' = Settled
  BY SkippedStays DEF tableVars
<1> QED
  BY <1>1, <1>2, <1>3
  DEF IInv, IngestedIsThere, StrayMerged, AckedIsMergedOrSkipped, Covered

(* A failed task has not changed what is known of the run.                 *)
LEMMA FailsKeeps ==
  ASSUME IInv, Fails, TypeOK', UNCHANGED <<high, tableVars>>,
         call' = "none", call # "done", Covered(committed', Settled), Covered(stray', Settled)
  PROVE  IInv'
<1>1. CASE tries < Retries
  <2>1. /\ UNCHANGED <<high, origin, ingested, bronze, silver, task, event>>
        /\ Skipped' = Skipped /\ Settled' = Settled
    BY <1>1, SkippedStays DEF Fails, tableVars
  <2> QED
    BY <2>1
    DEF IInv, EventWritten, IngestedIsThere, JobReaches, EventIngested, EventMerged,
        StrayMerged, AckedIsMergedOrSkipped, Covered
<1>2. CASE ~(tries < Retries)
  BY <1>2, NewRunKeeps DEF Fails
<1> QED BY <1>1, <1>2

(* An answered request has done what its task wanted, or has failed.       *)
LEMMA AnswerKeeps ==
  ASSUME IInv, NEW result \in {"done", "failed"}, Answer(result),
         result = "done" /\ job = "bronze" => \A p \in Partition : until[p] <= ingested[p],
         result = "done" => rows \subseteq silver
  PROVE  IInv'
<1> USE DEF topicVars, tableVars, runVars
<1>1. TypeOK'
  BY AnswerType DEF IInv
<1>2. /\ UNCHANGED <<high, committed, ingested, bronze, silver, task, event, stray>>
      /\ call' = IF call = "running" THEN result ELSE call
      /\ Skipped' = Skipped /\ Settled' = Settled
  BY SkippedStays DEF Answer
<1>3. JobReaches'
  BY <1>2 DEF JobReaches
<1>4. CASE call = "running" /\ result = "done"
  <2>1. job = task
    BY <1>4 DEF IInv, TypeOK
  <2>2. CASE task = "bronze"
    <3>1. \A p \in Partition : event[p] <= ingested[p]
      <4> TAKE p \in Partition
      <4>1. event[p] <= until[p] /\ until[p] <= ingested[p]
        BY <1>4, <2>1, <2>2 DEF IInv, JobReaches
      <4>2. event[p] \in Int /\ until[p] \in Int /\ ingested[p] \in Int
        BY PipelineAssumption DEF IInv, TypeOK, Offsets, Offset, NoOffsets
      <4> QED BY <4>1, <4>2
    <3> QED
      BY <1>1, <1>2, <1>3, <2>2, <3>1
      DEF IInv, EventWritten, IngestedIsThere, EventIngested, EventMerged, StrayMerged,
          AckedIsMergedOrSkipped, Covered
  <2>3. CASE task = "silver"
    <3>1. Covered(event, Settled)
      <4>1. Covered(event, rows \cup Skipped) /\ rows \subseteq silver
        BY <1>4, <2>3 DEF IInv, JobReaches
      <4> QED BY <4>1 DEF Covered, Settled
    <3> QED
      BY <1>1, <1>2, <1>3, <2>3, <3>1
      DEF IInv, EventWritten, IngestedIsThere, EventIngested, EventMerged, StrayMerged,
          AckedIsMergedOrSkipped, Covered
  <2>4. task \in Layer
    BY <1>4 DEF IInv, TypeOK
  <2> QED BY <2>2, <2>3, <2>4 DEF Layer
<1>5. CASE ~(call = "running" /\ result = "done")
  <2>1. call' = "done" => call = "done"
    BY <1>2, <1>5
  <2> QED
    BY <1>1, <1>2, <1>3, <2>1
    DEF IInv, EventWritten, IngestedIsThere, EventIngested, EventMerged, StrayMerged,
        AckedIsMergedOrSkipped, Covered
<1> QED BY <1>4, <1>5

(* The first query of Bronze skips what has expired, and passes no more.   *)
LEMMA FirstQuery ==
  ASSUME TypeOK, IngestedIsThere, NEW l, StartJob(l)
  PROVE  /\ Skipped \subseteq Skipped'
         /\ \A p \in Partition : ingested[p] <= ingested'[p]
         /\ IngestedIsThere'
<1>0. UNCHANGED bronze
  BY DEF StartJob
<1>1. CASE UNCHANGED <<origin, ingested>>
  <2>1. Skipped' = Skipped
    BY <1>1, SkippedStays
  <2>2. ASSUME NEW p \in Partition PROVE ingested[p] \in Int
    BY PipelineAssumption DEF TypeOK, Offsets, Offset, NoOffsets
  <2> QED BY <1>0, <1>1, <2>1, <2>2 DEF IngestedIsThere, Covered
<1>2. CASE origin = NoOffsets /\ origin' = low /\ ingested' = low
  <2>1. Skipped = {}
    BY <1>2, NothingSkipped
  <2>2. \A p \in Partition : ingested[p] <= ingested'[p]
    <3> SUFFICES ASSUME NEW p \in Partition PROVE ingested[p] <= low[p]
      BY <1>2
    <3>1. ingested[p] = -1
      BY <1>2 DEF TypeOK, NoOffsets
    <3>2. low[p] \in Nat
      BY PipelineAssumption DEF TypeOK, Offsets, Offset
    <3> QED BY <3>1, <3>2
  <2>3. Covered(ingested', bronze' \cup Skipped')
    BY <1>2 DEF Covered, Skipped
  <2> QED BY <2>1, <2>2, <2>3 DEF IngestedIsThere, Skipped
<1> QED BY <1>1, <1>2 DEF StartJob, OpenCheckpoint

(* A job starts from all that is written, or from all that is in Bronze.   *)
LEMMA StartKeeps ==
  ASSUME IInv, TypeOK', NEW l \in Layer, StartJob(l),
         call' = call \/ (call' = "running" /\ l = task)
  PROVE  IInv'
<1> USE DEF topicVars, runVars
<1>1. /\ UNCHANGED <<high, committed, bronze, silver, task, event, stray>>
      /\ until' = IF l = "bronze" THEN high ELSE Zero
      /\ rows' = IF l = "silver" THEN bronze ELSE {}
  BY DEF StartJob
<1>2. call # "running"
  BY DEF StartJob, IInv, TypeOK, Layer
<1>3. /\ Skipped \subseteq Skipped'
      /\ \A p \in Partition : ingested[p] <= ingested'[p]
      /\ IngestedIsThere'
  BY FirstQuery DEF IInv
<1>4. Settled \subseteq Settled'
  BY <1>1, <1>3 DEF Settled
<1>5. Covered(event, bronze \cup Skipped) \/ task # "silver"
  <2> SUFFICES ASSUME task = "silver", NEW r \in Record, r[2] <= event[r[1]]
               PROVE  r \in bronze \cup Skipped
    BY DEF Covered
  <2>1. r[1] \in Partition /\ r[2] \in Int
    BY PipelineAssumption DEF Record
  <2>2. event[r[1]] \in Int /\ ingested[r[1]] \in Int
    BY <2>1, PipelineAssumption DEF IInv, TypeOK, Offsets, Offset, NoOffsets
  <2>3. event[r[1]] <= ingested[r[1]]
    BY <2>1 DEF IInv, EventIngested
  <2>4. r[2] <= ingested[r[1]]
    BY <2>1, <2>2, <2>3
  <2> QED BY <2>4 DEF IInv, IngestedIsThere, Covered
<1>6. JobReaches'
  <2> SUFFICES ASSUME call' = "running"
               PROVE  /\ task = "bronze" => \A p \in Partition : event[p] <= until'[p]
                      /\ task = "silver" => Covered(event, rows' \cup Skipped')
    BY <1>1 DEF JobReaches, Covered
  <2>1. l = task
    BY <1>2
  <2>2. CASE task = "bronze"
    BY <1>1, <2>1, <2>2 DEF IInv, EventWritten
  <2>3. CASE task = "silver"
    BY <1>1, <1>3, <1>5, <2>1, <2>3 DEF Covered
  <2> QED BY <2>2, <2>3
<1>7. call' = "done" => call = "done"
  OBVIOUS
<1>8. EventIngested'
  <2> SUFFICES ASSUME NEW p \in Partition, event[p] <= ingested[p]
               PROVE  event[p] <= ingested'[p]
    BY <1>1, <1>7 DEF IInv, EventIngested
  <2>1. event[p] \in Int /\ ingested[p] \in Int /\ ingested'[p] \in Int
    BY PipelineAssumption DEF IInv, TypeOK, Offsets, Offset, NoOffsets
  <2> QED BY <1>3, <2>1
<1>9. EventMerged' /\ StrayMerged' /\ AckedIsMergedOrSkipped'
  BY <1>1, <1>4, <1>7 DEF IInv, EventMerged, StrayMerged, AckedIsMergedOrSkipped, Covered
<1> QED BY <1>1, <1>3, <1>6, <1>8, <1>9 DEF IInv, EventWritten

(* Bronze has what a batch has passed.                                     *)
LEMMA IngestKeeps == IInv /\ TypeOK' /\ IngestBatch => IInv'
<1> SUFFICES ASSUME IInv, TypeOK', IngestBatch PROVE IInv'
  OBVIOUS
<1> USE DEF topicVars, tableVars, runVars, jobVars
<1>1. PICK end \in Offsets :
        /\ \A p \in Partition : ingested[p] <= end[p]
        /\ bronze' = bronze \cup {r \in Record : ingested[r[1]] < r[2] /\ r[2] <= end[r[1]]}
        /\ ingested' = end
  BY DEF IngestBatch
<1>2. /\ UNCHANGED <<high, committed, silver, task, event, call, until, rows, stray>>
      /\ Skipped' = Skipped /\ Settled' = Settled
  BY SkippedStays DEF IngestBatch
<1>3. IngestedIsThere'
  <2> SUFFICES ASSUME NEW r \in Record, r[2] <= end[r[1]] PROVE r \in bronze' \cup Skipped
    BY <1>1, <1>2 DEF IngestedIsThere, Covered
  <2>1. r[1] \in Partition /\ r[2] \in Int
    BY PipelineAssumption DEF Record
  <2>2. ingested[r[1]] \in Int
    BY <2>1, PipelineAssumption DEF IInv, TypeOK, Offsets, Offset, NoOffsets
  <2>3. CASE r[2] <= ingested[r[1]]
    BY <1>1, <2>3 DEF IInv, IngestedIsThere, Covered
  <2>4. CASE ingested[r[1]] < r[2]
    BY <1>1, <2>4
  <2> QED BY <2>1, <2>2, <2>3, <2>4
<1>4. EventIngested'
  <2> SUFFICES ASSUME NEW p \in Partition, event[p] <= ingested[p]
               PROVE  event[p] <= ingested'[p]
    BY <1>2 DEF IInv, EventIngested
  <2>1. event[p] \in Int /\ ingested[p] \in Int /\ end[p] \in Int
    BY PipelineAssumption DEF IInv, TypeOK, Offsets, Offset, NoOffsets
  <2> QED BY <1>1, <2>1
<1> QED
  BY <1>2, <1>3, <1>4
  DEF IInv, EventWritten, JobReaches, EventMerged, StrayMerged, AckedIsMergedOrSkipped, Covered

(* Every step keeps the invariant.                                         *)
LEMMA IInvStep == IInv /\ [Next]_vars => IInv'
<1> SUFFICES ASSUME IInv, [Next]_vars PROVE IInv'
  OBVIOUS
<1> USE DEF topicVars, tableVars, runVars, jobVars
<1>type. TypeOK /\ TypeOK'
  BY TypeStep DEF IInv
<1>same. ASSUME UNCHANGED <<origin, silver>>
         PROVE  Skipped' = Skipped /\ Settled' = Settled
  BY <1>same, SkippedStays
<1>quiet. ASSUME UNCHANGED <<high, committed, tableVars, task, event, stray>>,
                 call' # "running" \/ UNCHANGED <<call, until, rows>>,
                 call' = "done" => call = "done"
          PROVE  IInv'
  BY <1>quiet, <1>type, <1>same
  DEF IInv, EventWritten, IngestedIsThere, JobReaches, EventIngested, EventMerged,
      StrayMerged, AckedIsMergedOrSkipped, Covered
<1>publish. ASSUME NEW p \in Partition, Publish(p) PROVE IInv'
  <2>1. EventWritten'
    <3> SUFFICES ASSUME NEW q \in Partition PROVE event[q] <= high'[q]
      BY <1>publish DEF Publish, EventWritten
    <3>1. event[q] \in Int /\ high[q] \in Int /\ event[q] <= high[q]
      BY PipelineAssumption DEF IInv, EventWritten, TypeOK, Offsets, Offset, NoOffsets
    <3>2. high'[q] >= high[q]
      BY <1>publish, <3>1, <1>type DEF Publish, TypeOK, Offsets
    <3>3. high'[q] \in Int
      BY <1>type, PipelineAssumption DEF TypeOK, Offsets, Offset
    <3> QED BY <3>1, <3>2, <3>3
  <2> QED
    BY <1>publish, <1>type, <1>same, <2>1
    DEF Publish, IInv, IngestedIsThere, JobReaches, EventIngested, EventMerged,
        StrayMerged, AckedIsMergedOrSkipped, Covered
<1>expire. ASSUME NEW p \in Partition, Expire(p) PROVE IInv'
  BY <1>expire, <1>quiet DEF Expire
<1>wake. CASE Wake
  <2>1. call = "none" /\ call' = "none"
    BY <1>wake, <1>type DEF Wake, TypeOK, Layer
  <2>2. EventWritten'
    <3> SUFFICES ASSUME NEW p \in Partition PROVE high[p] <= high[p]
      BY <1>wake DEF Wake, EventWritten
    <3> QED BY <1>type, PipelineAssumption DEF TypeOK, Offsets, Offset
  <2> QED
    BY <1>wake, <1>type, <1>same, <2>1, <2>2
    DEF Wake, IInv, IngestedIsThere, JobReaches, EventIngested, EventMerged, StrayMerged,
        AckedIsMergedOrSkipped, Covered
<1>submit. CASE Submit
  BY <1>submit, <1>quiet DEF Submit
<1>return. CASE Return
  <2>1. task \in {"bronze", "silver"}
    BY <1>return, <1>type DEF Return, TypeOK, Layer
  <2>2. CASE call = "done"
    <3>1. /\ task' = IF task = "bronze" THEN "silver" ELSE "ack"
          /\ call' = "none"
          /\ UNCHANGED <<high, committed, ingested, bronze, silver, event, stray>>
          /\ Skipped' = Skipped /\ Settled' = Settled
      BY <1>return, <1>same, <2>1, <2>2 DEF Return, Succeeds, AfterTask
    <3>2. EventIngested' /\ EventMerged'
      BY <2>1, <2>2, <3>1 DEF IInv, EventIngested, EventMerged, Covered
    <3> QED
      BY <1>type, <3>1, <3>2
      DEF IInv, EventWritten, IngestedIsThere, JobReaches, StrayMerged, AckedIsMergedOrSkipped,
          Covered
  <2>3. CASE call = "failed"
    BY <1>return, <1>type, <1>same, <2>3, FailsKeeps
    DEF Return, IInv, StrayMerged, AckedIsMergedOrSkipped, Covered
  <2> QED BY <1>return, <2>2, <2>3 DEF Return
<1>ack. CASE Ack
  <2>1. /\ task = "ack" /\ task' = "alerts" /\ committed' = event
        /\ UNCHANGED <<high, ingested, bronze, silver, event, call, until, rows, stray>>
        /\ Skipped' = Skipped /\ Settled' = Settled
    BY <1>ack, <1>same DEF Ack, Succeeds, AfterTask
  <2>2. Covered(event, Settled)
    BY <2>1 DEF IInv, EventMerged
  <2>3. call = "none"
    BY <2>1, <1>type DEF TypeOK, Layer
  <2> QED
    BY <1>type, <2>1, <2>2, <2>3
    DEF IInv, EventWritten, IngestedIsThere, JobReaches, EventIngested, EventMerged,
        StrayMerged, AckedIsMergedOrSkipped, Covered
<1>finish. CASE Finish
  BY <1>finish, <1>type, NewRunKeeps DEF Finish, IInv, StrayMerged, AckedIsMergedOrSkipped, Covered
<1>takecall. CASE TakeCall
  <2>1. task \in Layer
    BY <1>takecall, <1>type DEF TakeCall, TypeOK
  <2> QED BY <1>takecall, <1>type, <2>1, StartKeeps DEF TakeCall
<1>takelost. ASSUME NEW l \in Layer, TakeLost(l) PROVE IInv'
  BY <1>takelost, <1>type, StartKeeps DEF TakeLost
<1>ingest. CASE IngestBatch
  BY <1>ingest, <1>type, IngestKeeps
<1>merge. CASE MergeBatch
  <2>1. Settled \subseteq Settled' /\ Skipped' = Skipped
    BY <1>merge, SkippedStays DEF MergeBatch
  <2> QED
    BY <1>merge, <1>type, <2>1
    DEF MergeBatch, IInv, EventWritten, IngestedIsThere, JobReaches, EventIngested,
        EventMerged, StrayMerged, AckedIsMergedOrSkipped, Covered
<1>answer. CASE EndJob \/ DataLoss \/ JobFails
  BY <1>answer, AnswerKeeps DEF EndJob, DataLoss, JobFails
<1>atonce. CASE JobFailsAtOnce
  BY <1>atonce, <1>quiet DEF JobFailsAtOnce
<1>gone. CASE CallerGone
  BY <1>gone, <1>quiet DEF CallerGone
<1>dies. CASE DriverDies
  BY <1>dies, <1>quiet DEF DriverDies
<1>sensor. CASE SensorFails
  <2>1. call = "none"
    BY <1>sensor, <1>type DEF SensorFails, TypeOK, Layer
  <2> QED
    BY <1>sensor, <1>type, <2>1, FailsKeeps
    DEF SensorFails, IInv, StrayMerged, AckedIsMergedOrSkipped, Covered
<1>acktask. ASSUME task = "ack"
            PROVE  call = "none" /\ Covered(event, Settled)
  BY <1>acktask, <1>type DEF TypeOK, Layer, IInv, EventMerged
<1>ackfails. CASE AckFails
  BY <1>ackfails, <1>type, <1>acktask, FailsKeeps
  DEF AckFails, IInv, StrayMerged, AckedIsMergedOrSkipped, Covered
<1>hangs. CASE AckHangs
  BY <1>hangs, <1>type, <1>acktask, FailsKeeps
  DEF AckHangs, IInv, StrayMerged, AckedIsMergedOrSkipped, Covered
<1>stray. CASE StrayAck
  <2>1. Covered(stray', Settled)
    BY <1>stray, NothingCovered DEF StrayAck
  <2> QED
    BY <1>stray, <1>type, <1>same, <2>1
    DEF StrayAck, IInv, EventWritten, IngestedIsThere, JobReaches, EventIngested,
        EventMerged, StrayMerged, AckedIsMergedOrSkipped, Covered
<1>idle. CASE UNCHANGED vars
  BY <1>idle, <1>quiet DEF vars
<1> QED
  BY <1>publish, <1>expire, <1>wake, <1>submit, <1>return, <1>ack, <1>finish, <1>takecall,
     <1>takelost, <1>ingest, <1>merge, <1>answer, <1>atonce, <1>gone, <1>dies, <1>sensor,
     <1>ackfails, <1>hangs, <1>stray, <1>idle
  DEF Next, Operation, Disruption, Topic, Airflow, Driver

(* What the sensor's group has passed is in Silver, or had expired before  *)
(* the first Bronze query could read it: whatever jobs are orphaned and    *)
(* acknowledgements late, the sensor does not sleep over a record that was *)
(* there for a job and that no job has merged (acknowledge_sensor()).      *)
THEOREM AcknowledgedIsMerged == Spec => []AckedIsMergedOrSkipped
<1>1. Spec => []IInv
  BY IInvInit, IInvStep, PTL DEF Spec
<1>2. IInv => AckedIsMergedOrSkipped
  BY DEF IInv
<1> QED BY <1>1, <1>2, PTL

-----------------------------------------------------------------------------
(* At-least-once delivery, of the sensor's group.                          *)

\* The records as ConsentDelivery names them; and the next offset of each
\* partition, 0 before the first commit.
Named(S) == {[partition |-> r[1], offset |-> r[2]] : r \in S}
NextOffset == [p \in Partition |-> committed[p] + 1]

\* A record is settled when it is in Silver, or by startingOffsets=earliest when it
\* has expired before the first Bronze query.
Delivery == INSTANCE ConsentDelivery
              WITH Record <- Named(Record), First <- 0,
                   settled <- Named(Settled), committed <- NextOffset

\* The group's offsets, which belong to a consumer that never reads a record,
\* are at-least-once delivery to Silver all the same, of what Bronze could read.
DeliversToSilver == Delivery!Spec

(* Records only become settled, and only commits move the offsets; never   *)
(* both.                                                                   *)
LEMMA CommitKinds ==
  ASSUME TypeOK, IngestedIsThere, [Next]_vars
  PROVE  /\ Settled \subseteq Settled'
         /\ UNCHANGED committed \/ UNCHANGED Settled
<1> USE DEF topicVars, tableVars, runVars, jobVars
<1>1. CASE Topic \/ UNCHANGED vars
  BY <1>1, SkippedStays DEF Topic, Publish, Expire, vars
<1>2. CASE Airflow \/ StrayAck
  BY <1>2, SkippedStays DEF Airflow, Wake, Submit, Return, Ack, Finish, StrayAck
<1>3. ASSUME NEW l, StartJob(l) PROVE Settled \subseteq Settled' /\ UNCHANGED committed
  BY <1>3, FirstQuery DEF StartJob, Settled
<1>4. CASE Driver
  <2>1. CASE TakeCall \/ \E l \in Layer : TakeLost(l)
    BY <1>3, <2>1 DEF TakeCall, TakeLost
  <2>2. CASE IngestBatch \/ MergeBatch \/ EndJob \/ DataLoss
    BY <2>2, SkippedStays DEF IngestBatch, MergeBatch, EndJob, DataLoss, Answer
  <2> QED BY <1>4, <2>1, <2>2 DEF Driver
<1>5. CASE Disruption
  BY <1>5, SkippedStays
  DEF Disruption, JobFails, JobFailsAtOnce, Answer, CallerGone, DriverDies, SensorFails,
     AckFails, AckHangs
<1> QED BY <1>1, <1>2, <1>4, <1>5 DEF Next, Operation

(* Offsets that are covered have nothing unsettled behind them.            *)
LEMMA BehindCovered ==
  ASSUME NEW c \in Offsets \cup {NoOffsets}, NEW S, Covered(c, S), NEW p \in Partition
  PROVE  /\ c[p] + 1 \in Nat
         /\ {d \in Named(Record) : d.partition = p /\ d.offset < c[p] + 1} \subseteq Named(S)
<1>1. c[p] \in Nat \cup {-1}
  BY PipelineAssumption DEF Offsets, Offset, NoOffsets
<1>2. ASSUME NEW r \in Record, r[1] = p, r[2] < c[p] + 1 PROVE r \in S
  <2>1. r[2] \in Nat
    BY PipelineAssumption DEF Record
  <2>2. r[2] <= c[r[1]]
    BY <1>1, <1>2, <2>1
  <2> QED BY <2>2 DEF Covered
<1>3. ASSUME NEW d \in Named(Record), d.partition = p, d.offset < c[p] + 1
      PROVE  d \in Named(S)
  <2>1. PICK r \in Record : d = [partition |-> r[1], offset |-> r[2]]
    BY DEF Named
  <2>2. r \in S
    BY <1>2, <1>3, <2>1
  <2> QED BY <2>1, <2>2 DEF Named
<1> QED BY <1>1, <1>3

(* The DAG, the driver and everything that fails between them implement    *)
(* at-least-once delivery: an orphaned job settles records nobody asked    *)
(* for any more, a late commit moves the offsets back, and none moves them *)
(* beyond a record that Bronze could read and that is not merged           *)
(* (legal_sensor.py).                                                      *)
THEOREM SensorDelivers == Spec => DeliversToSilver
<1>1. Init => Delivery!Init
  <2> SUFFICES ASSUME Init PROVE Settled = {} /\ committed = NoOffsets
    BY DEF Delivery!Init, Named, NextOffset, NoOffsets
  <2>1. Skipped = {}
    BY NothingSkipped DEF Init
  <2> QED BY <2>1 DEF Init, Settled
<1>2. ASSUME IInv, [Next]_vars
      PROVE  Delivery!Next \/ UNCHANGED <<Named(Settled), NextOffset>>
  <2>1. IInv'
    BY <1>2, IInvStep
  <2>2. CASE UNCHANGED committed
    <3>1. Settled \subseteq Settled' /\ Settled' \subseteq Record
      BY <1>2, <2>1, CommitKinds DEF IInv, TypeOK, Settled, Skipped
    <3>2. Named(Settled) \subseteq Named(Settled') /\ Named(Settled') \subseteq Named(Record)
      BY <3>1 DEF Named
    <3> QED BY <2>2, <3>2 DEF Delivery!Next, Delivery!Settle, NextOffset, Named
  <2>3. CASE UNCHANGED Settled
    <3>1. ASSUME NEW p \in Partition
          PROVE  /\ NextOffset'[p] \in Nat
                 /\ Delivery!Behind(p, NextOffset'[p]) \subseteq Named(Settled)
      <4>1. committed' \in Offsets \cup {NoOffsets} /\ Covered(committed', Settled)
        BY <2>1, <2>3 DEF IInv, TypeOK, AckedIsMergedOrSkipped, Covered
      <4>2. NextOffset'[p] = committed'[p] + 1
        BY DEF NextOffset
      <4> QED BY <4>1, <4>2, BehindCovered DEF Delivery!Behind
    <3>2. NextOffset' \in [Partition -> Nat]
      BY <3>1 DEF NextOffset
    <3> QED BY <2>3, <3>1, <3>2 DEF Delivery!Next, Delivery!Release, Named
  <2> QED BY <1>2, <2>2, <2>3, CommitKinds DEF IInv
<1>3. IInv /\ [Next]_vars => [Delivery!Next]_<<Named(Settled), NextOffset>>
  BY <1>2
<1>4. Spec => []IInv
  BY IInvInit, IInvStep, PTL DEF Spec
<1> QED BY <1>1, <1>3, <1>4, PTL DEF Spec, DeliversToSilver, Delivery!Spec
=============================================================================
