# Verification of the TikBlog unsubscribe platform

TLA+ specifications of the platform in `src/`: what happens to an unsubscribe
request between a producer and the table `subscription`, and between the topic
and the daily Gold counts; and the machinery around both: topics, producers,
sensor, alerts. TLC checks small deployments; TLAPS proves the most
important properties for all of them. `PROJECT.json` maps each definition to the
lines it was translated from and lists the hazards, runs, mutants and theorems.

## The system

| Part | State | Operations | Correct when |
|---|---|---|---|
| UnsubscribeMe (`services/unsubscribeme`) | Postgres table `subscription`, one row per reader and writer | `POST /unsubscribe`: fault injection, UPSERT | the row converges to the earliest request, whatever the order and repetition of calls |
| Unsubscribe consumers (`services/unsubscribe-consumer`, `libs/tikblog_kafka/consumer.py`), one group per topic | record in hand, attempt, shutdown flag, fetch positions; committed offsets in Kafka | poll, deliver with retries, park, commit, shut down | no offset passes a request that is neither in force nor parked; no record blocks those behind it |
| Dead-letter producer (`libs/tikblog_kafka/dlq.py`) | queued copies | `park()`, delivery callback, `close()` | a parked record is never lost |
| Producer library (`libs/tikblog_kafka/producer.py`) | local queue, delivery counters | `send()`, `poll()`, `flush()` | what is counted as delivered is on the topic |
| Event producers (`services/event-producers`) | batch in hand, shutdown flag, exit code | generate, send, stop, flush and exit | an exit with 0 has lost nothing; a stop ends the process |
| Topic tool (`tools/apply_topics.py`, `infra/topics.yaml`) | the topics; metadata read at the start | create, add partitions, alter the config | an exit with 0 means that the topics are as the file says, before a producer starts |
| Legal ingestion (`services/legal-ingestion`, `libs/tikblog_storage`) | objects in inbox, processed and rejects | list, read, send, check, write rejects, move | a moved file is published completely and its rejects are on record; a file never vanishes |
| Analytics streams (`analytics/jobs/streams.py`, `common/`) | checkpoints, Bronze, Silver, quarantine, results, alerts | append, validate and merge | Bronze is the topic; every record is in Silver once or in quarantine |
| Analytics driver and Gold (`analytics/driver.py`, `jobs/gold.py`) | `silver_gold_lock`, `batch_lock`, Silver and Gold tables | merge, find touched dates, refresh, backfill | a stale aggregate is always found, and every event is counted at last |
| Legal DAG and its sensor (`airflow/dags/analytics_legal_ingestion.py`, `legal_sensor.py`) | offsets of the sensor's group, XCom of a run, jobs in the driver | wake, submit, retry, acknowledge | the sensor never sleeps over a record that is not merged, and does sleep when all are |
| Failure callback and alert spool (`airflow/dags/analytics_tasks.py`, `driver.py`, `common/delta.py`) | spool files, `alert_events` | write and rename, POST, `insert_once()`, unlink | each reported failure is recorded once |
| Other DAGs (Gold, backfill, housekeeping) | dates of a run | schedule, retry, retire old rows | jobs are repeated safely |
| Metabase, Trino registration, batch generator | none of their own | one-off set-up, test data | - |

The parts interact through Kafka (producers to topics, topics to the consumer
groups and to the Bronze streams, consumers to the dead-letter topics), by HTTP
(consumers to UnsubscribeMe, Airflow to the driver), through the object store
(the Legal team to ingestion), and through shared tables guarded by a lock in
the driver's process.

The hard behaviours are: processes that die between two effects; members that
Kafka has evicted and that go on working; calls that time out and are executed
later; two topics without an order between them; a full local queue and an
unconfirmed flush; overlapping runs around a move that is not atomic; four table
commits in a row that are repeated from the start; timestamps taken before a
commit becomes visible; a plan made in one request and executed in another;
acknowledgements that arrive after their task was given up; files read while they
are written; settings that are right only after another process has run.

## Modules

| Module | Models | EXTENDS or INSTANCE |
|---|---|---|
| `Subscription` | a row of the table and the UPSERT | - |
| `UnsubscribeConsumer` | the consumer loop, the Kafka client, the dead-letter producer, the endpoint, the group coordinator | extends `Subscription`, refines `ConsentDelivery` |
| `ConsentDelivery` | the abstract promise of consumers and sensor: at-least-once delivery | - |
| `UnsubscribeProducer` | the producer library: queue, reports, flush | - |
| `LegalIngestion` | the ingestion job over the object store | extends `UnsubscribeProducer`, refines `FileTransfer` |
| `FileTransfer` | the abstract promise: a file is published, its rejects recorded, archived, removed | - |
| `GoldRefresh` | the driver's two writing threads, its locks, Silver and Gold, the Airflow plan | refines `GoldView` |
| `GoldView` | the abstract promise: Gold is a view of Silver, recomputed by dates in atomic steps | - |
| `SilverStreams` | one channel from the topic to Silver, with checkpoints, quarantine, results and alerts | refines `SilverLedger` |
| `SilverLedger` | the abstract promise: each record is accepted once or rejected, and passed when settled | - |
| `LegalPipeline` | the Legal DAG: sensor, tasks, the driver's two streaming jobs, acknowledgement | implements `ConsentDelivery` (proved in `LegalPipelineProofs`) |
| `AlertSpool` | the failure callback, the spool, the driver's handlers and main loop, optimistic inserts | refines `AlertLedger` |
| `AlertLedger` | the abstract promise: each report is entered once | - |
| `TopicTool` | the topic tool over the Kafka controller | - |
| `EventProducers` | the loop of an event producer, to its exit code | extends `UnsubscribeProducer` |
| `EventSources` | tool, producers and brokers as Compose starts them | extends `TopicTool`, `EventProducers` |
| `*Proofs` | the theorems about the module of the same name | extend it |
| `MC*` | constants and bounds for TLC | extend the module they check |

**UnsubscribeConsumer.** `pc` is the place in `main()`: an iteration of
`messages()` is `PollEvent` or `PollUndecoded`; `deliver()` is `Send` followed by
`CallAccepted`, `CallRejected` or `CallFailed`; `park()` queues a copy and waits in
`flush()` (`FlushReturns`, with or without a delivery report); `Commit` or
`CommitRaises` follows. The shutdown flag is read only at the head of the loop.
The endpoint executes a call while the caller waits (`ServeCall`), or later
(`ServeOrphan`). Because any exception of `from_bytes()` leads to parking, an
outage of the schema registry parks well-formed events: `PollUndecoded` is
therefore enabled for every record. The coordinator is modelled as far as the
code relies on it: cooperative hand-over without a callback, eviction noticed
late, commits accepted from any member. A commit may thus move the offset back.
A 2xx answer that does not parse ends the process although the row is written
(`CallUnparsed`). Not modelled: a produce to the dead-letter queue that finds the
local queue full (it holds 100,000 messages and every message is flushed), and a
message without a value, which fails the assertion in `messages()`; nothing in the
repository writes one.

**LegalIngestion.** A row is good, bad (`build_event()` rejects it) or broken
(reading it raises). `Run` is one pass of the loop in `main()`; the producer's
thread delivers or expires messages at any time. Several runs may overlap. A file
is identified with its name, so an upload of a different content under a known
name is outside the model (the code skips it).

**GoldRefresh.** Threads "stream" (the callback of the priority stream) and "http"
(one job at a time, by `batch_lock`). Only valid rows are represented. A merge
takes the lock, freezes its timestamp, merges, writes metrics and lets go; a
refresh takes the lock, aggregates and freezes its timestamp, replaces whole date
partitions, checks them and lets go. The Gold DAG's two requests are two steps,
with any retry, loss or abandonment in between. Each timestamp is a tick of one
clock: the driver's clock is assumed not to go back, and two readings under the
lock to differ.

**SilverStreams.** Two queries with their offset and commit logs: a batch is
planned, executed and recorded; an interrupted one is repeated as planned. The
steps of `validate_and_merge()` are its commits, in order: quarantine, results,
alerts, merge. A row is good, bad, or "early": dated ahead of the clock and
therefore rejected until it is due. The code numbers batches from 0, the model
from 1. The results stand for rates over a threshold: in a batch of fewer than
1,000 rows of a source one failing row is enough, in a larger one it need not be,
and there the model says nothing of when a check turns yellow. `Retire` is the
housekeeping of Bronze: it removes the oldest rows, read or not. The stream skips
such commits (`skipChangeCommits`) and still reads the files of earlier ones, a
backfill sees what is left. Two things are assumed and not checked: the stream comes
to a row before VACUUM, which keeps files a week, takes its file, and its first query,
which begins with what Bronze then has, comes before the first row is retired. The
retention of the topic is left out (`LegalPipeline` has it): records are numbered
from the first one the ingest query found. An early row becomes due while it waits in
quarantine; whether somebody then replays it is not in the code (the backfill DAG has
no schedule), so no property promises that it comes to Silver, only that it is
accounted for, and in Silver once at most.

**LegalPipeline.** `task` is the task of the one active run (`max_active_runs=1`),
`event` what the sensor handed on. A task submits its request and waits; the
request waits for `batch_lock` and runs. A caller that is gone leaves its request
behind (`lost`), and the driver executes it all the same, possibly beside a retry.
Each job reads up to the ends it found at its start (`until`, `rows`) and may die
between two batches. `AckFails` and `AckHangs` cover a commit that raises on either
side of its effect, and one that reaches Kafka after its task was given up
(`StrayAck`). A batch is one step here; `SilverStreams` takes it apart. Topic
retention removes records at any time. The first Bronze query begins at the low
watermarks (`startingOffsets=earliest`) and writes them down (`origin`): what had
expired by then is skipped for good (`Skipped`). From then on a job that misses a
record fails, and goes on failing (`failOnDataLoss`). A job may also fail before it
has a checkpoint (`JobFailsAtOnce`). Retention of Bronze is left out here.

**AlertSpool.** A callback writes `<alert_id>.tmp`, renames it and posts the alert;
a handler thread and the main loop insert it, each by `insert_once()`: a snapshot,
a MERGE that conflicts with every commit since, at most `merge_attempts` of these.
The main loop reads what it has listed and unlinks it after its insert, although by
then the file may be that of a later report of the same alert. A file that is read
while it is half written ends the driver.

**TopicTool, EventProducers, EventSources.** The tool lists the topics once
(`listing`) and works on with what it saw; each admin call is a step, which Kafka
refuses when the topic is no longer as the call expects, or which times out and is
executed later (`ExecuteLate`). A second process may run beside it. A topic is its
partitions, its replicas and its config, the number behind `min.insync.replicas`. A
producer's `next_batch()` is one event and any of its anomalies; `_enqueue()` may
wait, raise at its deadline, or the registry may be away; `flush()` returns at any
time, which is its timeout. `EventSources` gates the producers behind the tool as
`depends_on` does, and lets brokers fail: a leader confirms a message when every
replica in sync has it, and refuses while there are too few.

## What is checked

| Run | Bounds | Shows |
|---|---|---|
| `one_group` | 2 instances, 1 partition, 2 events of one subscription, 2 attempts, 2 disruptions | `CommittedIsSettled`, `ClosesSettled`, `RewrittenOnlyEarlier`, and the refinement `AtLeastOnce` |
| `two_topics` | 2 partitions with undecodable bytes and 2 events, 1 instance each, 1 disruption | `RowsConverge`, and `EveryRecordIsSettled` under fairness |
| `legal_ingestion` | 2 overlapping runs, 2 files, queue limit 1 | `ProcessedIsPublished`, `ProcessedHasRejects`, the refinement `FilesAreTransferred`, and `EveryFileIsProcessed` |
| `gold_refresh` | 3 events in 2 aggregates on 2 dates, 1 disruption | `StaleIsPending`, `BackfillDelivers`, `FirstMergeKept`, the refinement `AtomicRefresh`, and `EveryEventIsCounted` |
| `silver_streams` | 3 records, an early one, its duplicate that is good, and a bad one; 1 backfill, 2 disruptions, retention at any time | `BronzeIsTopic`, `PassedIsAccountedFor`, `OneRowPerEvent`, `DuplicatesAreAlerted`, `FirstResultsKept`, the refinement `ExactlyOnce`, and `EveryRecordIsAccountedFor` |
| `legal_pipeline` | 2 partitions with 2 records and 1, 1 retry, 2 disruptions | `AckedIsMergedOrSkipped`, `EveryRecordIsMerged`, `ComesToRest` |
| `alert_spool` | 2 alerts, 2 handlers, 2 attempts, 2 disruptions | `SpooledUntilRecorded`, `EveryReportIsRecorded`, and the refinement `RecordedOnce` |
| `event_sources` | 2 processes of the tool, 2 topics of several setups, 1 producer with 1 batch, queue limit 1, 3 brokers, 2 disruptions | `AppliedConforms`, `CleanExitLosesNothing`, `ConfirmedIsReplicated`, `TopicsOnlyImprove`, `StopEnds` |
| `dead_letter`, `first_request`, `unreadable_file`, `dq_alerts` | the same, smaller | the findings below |

`MaxDisruptions` bounds, in the MC modules only, the crashes, evictions,
revocations, failures, replays and extra jobs of one behaviour. Two disruptions
are enough for the races the code comments worry about: one actor is set back
while another takes its place, and the first one returns. Ordinary failures (calls
that fail, answers that are lost, publications that fail, orphaned calls) are not
bounded in `UnsubscribeConsumer`; in `LegalIngestion` nothing is bounded except by
the two files and the queue limit. `MaxAttempts` = 2 has a first, a repeated and a
last attempt. Symmetry is used for the instances of one group, without liveness.
`CHECK_DEADLOCK FALSE` is given where everything may be read and done; a driver and
a broker can always move, so `alert_spool` and `event_sources` check it. The setups
of the topic before the tool runs are those that take each of its branches: missing,
as wanted, too few partitions, too many, too few replicas, another config. One batch
of two messages fills a queue of one; two brokers failing of three is one more than
the setting survives.

Fairness. Process threads run and an HTTP call ends by its timeout; Compose
restarts what exits (`restart: unless-stopped`); Kafka assigns partitions. A call
that fails is as fair an outcome as one that succeeds, so `EveryRecordIsSettled`
does not assume a healthy service. The liveness properties ask only that
disruptions come to an end: for the consumers and the Legal job as an antecedent
(`<>[][~Disruption]_vars`, `Calm`), for the analytics modules by the bound of the
run. Legal runs are started again and again. In the driver, strong fairness of
jobs and of the callback says that the lock starves nobody: triggers are seconds,
and schedules minutes, apart. In `AlertSpool` only the driver's main loop is fair
(it polls, and Compose restarts it): the spool alone must carry an alert, whatever
callback and handler do. In `LegalPipeline` Airflow's scheduler, the driver and a
late commit are; `EveryRecordIsMerged` and `ComesToRest` also assume that topic
retention, from the first Bronze query on, leaves a record until it is merged
(`RetentionSuffices`); what expires earlier they except. `StopEnds` rests
on the producer's own loop: `send()` has a deadline and `flush()` a timeout; the
brokers need not come back.

## Findings

1. `dead_letter`: `park()` ignores the result of `flush()`, and the delivery
   callback only counts; the offset of a lost or unsent copy is committed, against
   the comment in `dlq.py:70-71`. `CommittedIsSettled` counts such a copy as settled;
   only `CommittedIsKept`, which this run violates, asks for the copy. (`docs/operational-design.md:190` lists a stronger
   confirmation as still to be done.)
2. `first_request`: `docs/operational-design.md:99` says that the time of the first
   request that changed the state is preserved; the UPSERT replaces it by an
   earlier request that arrives later. What does hold is `RewrittenOnlyEarlier`
   and `RowsConverge`.
3. `unreadable_file`: `docs/operational-design.md:144` says that a file that cannot be
   read is set aside; it stays, and ends every run before the files after it.
4. `dq_alerts`: after a failure behind the MERGE the repeated batch finds its own
   rows in Silver. `dq_results` keeps the first, green result, but an alert for
   duplicates is recorded under the same run.

Also noticed: a Legal record that expires before the first Bronze query is
acknowledged although no job has read it. Publish one record, let it expire, publish
a second: the sensor wakes, Bronze begins at the second (`startingOffsets=earliest`,
`streams.py:97`), and the group's offset passes both. No doc promises otherwise, so
`AckedIsMergedOrSkipped` excepts just these records. The docstrings in
`consumer.py:31-33` and `105-107` describe an older design (seek back and retry for ever); `docs/operational-design.md:127` says that the
key removes concurrent writers of a row, but calls that timed out may be executed
beside later ones; two requests with the same `requested_at` leave whichever came
first; a record that was quarantined while early keeps its quarantine row when a
retry accepts it; before the sensor's group has its first committed offset, a topic
whose records all expired after a run that was given up between its Bronze and its
Silver task gives the sensor no reason to wake (`start` = low = high), and they stay
unmerged until a new record comes; an object overwritten in the inbox between the
reading and the move would be moved unread.

## What is proved

For every number of instances, partitions, events, dates and sources, and every
retry budget, from the assumptions named in the modules:

- `TypeCorrect` (consumers). `TypeInv` adds to `TypeOK` what the later proofs need
  of the record in hand.
- `CommitsAreSafe`, `ShutdownIsSafe`: `CommittedIsSettled` is not inductive, for it
  says nothing of the record about to be committed, nor of those before it. `IInv`
  adds that a call the endpoint has served is honoured (`CallHonoured`), that a
  record about to be committed is settled (`HandSettled`), and that every record
  behind the one in hand, and behind a fetch position other than the one in hand,
  is settled (`BehindHand`, `BehindPosition`): an evicted instance may commit any
  of them. Settled records stay settled (`SettledStays`): an UPSERT keeps what the
  row honours, and a parked copy is always queued, delivered or lost.
- `Convergence`: with `IInv`, every committed unparked request is honoured; with
  `RowSource`, a row holds a request of its own subscription; so it holds the
  earliest.
- `NoLaterRewrite`: from the WHERE clause of the UPSERT, through every action.
- `Refinement`: each step of the consumers settles records, moves one committed
  offset to a safe place, or is invisible to `ConsentDelivery`.
- `RepeatsAreAbsorbed`, `RequestsCommute`: the algebra of the UPSERT that makes
  at-least-once enough. A request that is granted changes nothing when it comes
  again, at once or behind others, and two of different times may come in either
  order. Of two that ask for the same time the first is kept, so these commute only
  when they are the same request.
- `TypeCorrect` (driver) with the discipline of the lock: a thread is in a section
  exactly when it holds it.
- `StaleIsFound`: `StaleIsPending` needs `Ordered`: no timestamp is ahead of the
  clock, the time a merge has frozen is later than every published aggregate, and
  a refresh about to replace has aggregated what Silver still holds. Both of the
  last rest on the lock: no refresh runs inside a merge, nor a merge inside it.
- `FirstMerge`: a merge leaves matched rows alone.
- `GoldIsAView`: to a reader the driver is `GoldView`. Aggregating and replacing are
  two steps of the code under one lock; `Ordered` says that Silver is at the second
  what it was at the first, so the replacement is the atomic refresh of its dates, and
  everything else either adds rows to Silver or is invisible.
- `CountsNeverFall`, `AggregatesAdvance`: consequences that are not invariants of a
  state but of each step. Gold has rows of Silver only (`CountsSilver`), so a view
  recomputed from a Silver that grows grows with it; the timestamp a refresh has frozen
  is later than that of every aggregate (`Timed`), so none goes back.
- `Backfill`: `Promise` follows each row of the goal through the job: it is in Bronze
  with its channel still to be merged, or in the batch being merged, or in Silver;
  then its date is among those picked, then it is in what the refresh read, and at
  last in Gold. The stream's merges take no row out of Silver.
- `NothingIsLost`, `Once` (alert spool): `IInv` says that a file under its final
  name is whole (`WholeFiles`), that a report is in the spool or in the table
  (`ReportedRows`), that a snapshot which is not behind tells the truth of the table
  (`SnapshotsHold`: the MERGE of a writer that saw no row then adds the first), and
  that the main loop unlinks only what is recorded (`LoopRecorded`). With these
  every step enters one report in `AlertLedger` or is invisible to it.
- `AcknowledgedIsMerged` (Legal DAG): the offsets of a run are those of the topic at
  its wake-up (`EventWritten`). When its Bronze task has returned they are ingested
  (`EventIngested`), because a job reads at least what there was when it was asked for
  (`JobReaches`); when its Silver task has returned they are merged (`EventMerged`).
  A commit that comes late is one of merged offsets (`StrayMerged`). Records that had
  expired before the first Bronze query count as merged throughout; that set changes
  only once, when the checkpoint is written, and then only grows (`FirstQuery`).
- `SensorDelivers`: with these the DAG implements `ConsentDelivery`, the promise the
  consumers implement, with merged or skipped for settled and the sensor's group for the
  committed offsets. An acknowledgement writes all partitions in one call, so
  `Release` moves any number of offsets at once. No run checks this refinement.
- `Bronze`, `NothingIsDropped`, `NothingIsDoubled`, `DuplicatesAlerted`, `FirstResults`
  (streams): `IInv` holds the discipline of the checkpoints (`Logs`, `Planned`): a
  batch once planned is repeated with the same rows, and committed only behind its
  last step. `Checked` and `Written` say how far the four table commits of the batch
  in hand have come. A duplicate recorded in the results of a batch is found again
  by every repetition (`RedPending`, `RedSent`), so its alert is not lost with an
  attempt.
- `EachRecordOnce`: with `IInv` each table commit is a step of `SilverLedger`, or
  invisible to it. What a merge adds are valid rows of events Silver does not have,
  one of each, because the batch was reduced to one row of an event and compared with
  Silver by the same step; what quarantine adds is never a good row; and the commit
  of a batch passes it behind both.
- `GoodIsMerged`: `PassedIsAccountedFor` lets quarantine account for any record;
  `Sound` (quarantine has no good row) and it together say that a record valid
  from the beginning is in Silver once it is passed.
- `MovedIsPublished`, `MovedHasRejects` (Legal ingestion): between
  two files nothing is queued or unreported (`BetweenFiles`); so the counters of a run
  are the sizes of sets of messages of the file in hand (`CountersFit`), and equal
  counts mean equal sets. Other runs only add to what a run relies on (`StillKeeps`).
- `TransfersFiles`, `NothingVanishes`: `FileTransfer` orders the steps of a file and lets
  nothing be published that was not uploaded. The order follows from `RunInv`; for the
  origin of events `Uploaded` adds that a run's file and the events its producer still
  holds come from files that were uploaded, also when another run has moved them since.
  That copy comes before deletion in it is why a file is always somewhere.
- `Applied` (topic tool): what a listing has told of a topic stays true in the part
  the tool relies on (`ListingsHold`): the topic exists, its replicas do not change,
  its partitions are as listed or as wanted. A call, also a late one, never spoils a
  topic that conforms (`ExecuteKeeps`), so a process that passes a topic may leave it
  (`DoneConforms`, `HandConforms`).
- `OnlyImprove`: a topic that conforms stays so, and no topic or partition disappears
  (`ExecuteGrows`), by any call of any run. This is about each step; `Applied` is
  about the moment of an exit.
- `CleanExit` (event producers): until a failure is counted, every message a process
  has made is on the topic, queued, reported as failed, or still to be sent
  (`ProducerOK`).
- `Replicated` (together): a running producer implies a tool that has succeeded
  (`Gate`), so the topic has its `min.insync.replicas` of at least 2.
  `RunningProducerIsSafe` states that by itself, for the whole life of a producer.

The assumptions on constants are those of the code and its files: names of topics
are distinct in `topics.yaml`, `min.insync.replicas` of the producers' topic is at
least 2, messages are finite in number, a main loop is no handler. TLC finds the
`IInv` of each of these modules to hold in the deployment of its run, too.

Only model-checked: liveness (fairness and ENABLED are out of the prover's reach),
so `EveryRecordIsSettled`, `EveryFileIsProcessed`, `EveryEventIsCounted`,
`EveryRecordIsAccountedFor`, `EveryRecordIsMerged`, `ComesToRest`,
`EveryReportIsRecorded` and `StopEnds`. The abstract specifications promise safety only.
No module declares a RECURSIVE operator, so all of them can be proved about.

## Plan

1. Done: the modules above, in the order of the consequences of a fault: the consent
   path, its sources, reporting, then what runs around them. Every invariant and
   every action property and refinement of a passing run is proved.
2. Done: abstract specifications of the streams (`SilverLedger`) and of Gold
   (`GoldView`) and of the Legal job (`FileTransfer`), checked and proved to be
   implemented; the sensor's group as a second implementation of `ConsentDelivery`.
3. Left: uploads of a second content under a known name in `LegalIngestion`;
   exceptions of `park()`; deletion of monitoring rows.

Not modelled: the Avro codec and row parsing (a record is decodable or not, a row
good or not), Airflow's scheduler beyond its retries, schema evolution, OPTIMIZE and
VACUUM, the deletion of monitoring rows after 90 days, the Legal batch generator,
table registration and dashboards, metrics, logging and health endpoints.
