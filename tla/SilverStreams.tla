--------------------------- MODULE SilverStreams ----------------------------
(***************************************************************************)
(* analytics: one channel from its Kafka topic to Bronze and from Bronze   *)
(* to Silver, as two Structured Streaming queries (jobs/streams.py), and   *)
(* the backfill that replays Bronze (jobs/maintenance.py).  Both put their *)
(* rows through validate_and_merge() (common/dq.py), which writes four     *)
(* Delta tables in four commits and is run again after a failure.          *)
(*                                                                         *)
(* A row is the number of its record on the topic.                         *)
(***************************************************************************)
EXTENDS Naturals, Sequences, SequencesExt, FiniteSetsExt

CONSTANTS
  Rows,          \* how many records the producers write
  Id,            \* event ids
  IdOf,          \* the event_id of each row
  Kind,          \* "good"; "bad": fails a check; "early": fails until it is due
  MaxBackfills   \* runs of the backfill DAG

Row == 1..Rows

ASSUME RowAssumption ==
  /\ Rows \in Nat
  /\ IdOf \in [Row -> Id]
  /\ Kind \in [Row -> {"good", "bad", "early"}]
  /\ MaxBackfills \in Nat

Query == {"ingest", "merge"}
Check == {"validity", "in_batch", "already"}

\* A run_id: that of a micro-batch or of a backfill.
Run == ({"stream"} \X (0..Rows)) \cup ({"backfill"} \X (1..MaxBackfills))

NoRun == <<"stream", 0>>

VARIABLES
  topic,         \* records on the topic
  bronze,        \* rows appended to the Bronze table, in the order of the commits
  version,       \* txnVersion of its last append; 0: none
  retired,       \* how many of its oldest rows retention has deleted
  quarantine,    \* <<run, row>> in dq_quarantine
  results,       \* dq_results: the status of <<run, check>>, "none" if absent
  alerts,        \* <<run, check>> with an alert
  silver,        \* rows of the Silver table
  from,          \* checkpoint of each query: the end of its last batch ...
  to,            \* ... the end of the batch it has planned ...
  batchId,       \* ... and that batch's number
  step,          \* what the holder of the lock does next in validate_and_merge()
  run,           \* the run_id it works for
  batch,         \* its rows
  failed,        \* those that fail a check, by the time they were checked
  backfills,     \* runs of the backfill DAG so far
  due            \* the early rows have become valid

bronzeVars == <<bronze, version, retired>>
tableVars == <<bronzeVars, quarantine, results, alerts, silver>>
queryVars == <<from, to, batchId>>
sectionVars == <<step, run, batch, failed>>
vars == <<topic, tableVars, queryVars, sectionVars, backfills, due>>

\* The values of the variables; nothing is held of a batch nobody works on.
TypeOK ==
  /\ topic \in 0..Rows
  /\ bronze \in Seq(Row)
  /\ version \in 0..Rows
  /\ retired \in 0..Len(bronze)
  /\ quarantine \in SUBSET (Run \X Row)
  /\ results \in [Run \X Check -> {"none", "GREEN", "RED"}]
  /\ alerts \in SUBSET (Run \X Check)
  /\ silver \in SUBSET Row
  /\ from \in [Query -> 0..Rows]
  /\ to \in [Query -> 0..Rows]
  /\ batchId \in [Query -> 1..(Rows + 1)]
  /\ step \in {"idle", "quarantine", "results", "alerts", "merge", "end"}
  /\ run \in Run
  /\ batch \in SUBSET Row
  /\ failed \in SUBSET Row
  /\ backfills \in 0..MaxBackfills
  /\ step = "idle" => run = NoRun /\ batch = {} /\ failed = {}
  /\ due \in BOOLEAN

Init ==
  /\ topic = 0
  /\ bronze = <<>>
  /\ version = 0
  /\ retired = 0
  /\ quarantine = {}
  /\ results = [k \in Run \X Check |-> "none"]
  /\ alerts = {}
  /\ silver = {}
  /\ from = [q \in Query |-> 0]
  /\ to = [q \in Query |-> 0]
  /\ batchId = [q \in Query |-> 1]
  /\ step = "idle"
  /\ run = NoRun
  /\ batch = {}
  /\ failed = {}
  /\ backfills = 0
  /\ due = FALSE

-----------------------------------------------------------------------------
(* The world.                                                              *)

Publish ==
  /\ topic < Rows
  /\ topic' = topic + 1
  /\ UNCHANGED <<tableVars, queryVars, sectionVars, backfills, due>>

TimePasses ==
  /\ ~due
  /\ due' = TRUE
  /\ UNCHANGED <<topic, tableVars, queryVars, sectionVars, backfills>>

-----------------------------------------------------------------------------
(* Structured Streaming.  A batch is planned in the offset log before the  *)
(* callback sees it and recorded in the commit log after; a new process    *)
(* repeats the planned batch.                                              *)

Available(q) == IF q = "ingest" THEN topic ELSE Len(bronze)

Plan(q) ==
  /\ to[q] = from[q]
  /\ \E end \in (from[q] + 1)..Available(q) : to' = [to EXCEPT ![q] = end]
  /\ UNCHANGED <<topic, tableVars, from, batchId, sectionVars, backfills, due>>

Committed(q) ==
  /\ from' = [from EXCEPT ![q] = to[q]]
  /\ batchId' = [batchId EXCEPT ![q] = @ + 1]
  /\ UNCHANGED to

\* Mutant: an append without txnAppId and txnVersion.
AppendAgain ==
  /\ to["ingest"] > from["ingest"]
  /\ bronze' = bronze \o [i \in 1..(to["ingest"] - from["ingest"]) |-> from["ingest"] + i]
  /\ version' = batchId["ingest"]
  /\ UNCHANGED <<topic, retired, quarantine, results, alerts, silver, queryVars,
                 sectionVars, backfills, due>>

\* append_bronze(): Delta ignores a transaction whose txnVersion it has seen.
AppendBronze ==
  /\ to["ingest"] > from["ingest"]
  /\ version < batchId["ingest"]
  /\ bronze' = bronze \o [i \in 1..(to["ingest"] - from["ingest"]) |-> from["ingest"] + i]
  /\ version' = batchId["ingest"]
  /\ UNCHANGED <<topic, retired, quarantine, results, alerts, silver, queryVars,
                 sectionVars, backfills, due>>

CommitIngest ==
  /\ to["ingest"] > from["ingest"]
  /\ version = batchId["ingest"]
  /\ Committed("ingest")
  /\ UNCHANGED <<topic, tableVars, sectionVars, backfills, due>>

Replayable == ToSet(SubSeq(bronze, retired + 1, Len(bronze)))

\* enforce_bronze_retention deletes what arrived long ago, read or not.
Retire ==
  /\ \E n \in (retired + 1)..Len(bronze) : retired' = n
  /\ UNCHANGED <<topic, bronze, version, quarantine, results, alerts, silver,
                 queryVars, sectionVars, backfills, due>>

-----------------------------------------------------------------------------
(* validate_and_merge().  The lock makes it a section from begin to end.   *)

Fails(r) ==
  \/ Kind[r] = "bad"
  \/ Kind[r] = "early" /\ ~due

\* The checked frame is cached: the rows that fail are the same in every step.
Begin(id, B) ==
  /\ step = "idle"
  /\ step' = "quarantine"
  /\ run' = id
  /\ batch' = B
  /\ failed' = {r \in B : Fails(r)}
  /\ UNCHANGED <<topic, tableVars, queryVars, due>>

\* Mutant: the batch is what the table has of its rows.
BeginBatchOfTable ==
  /\ to["merge"] > from["merge"]
  /\ Begin(<<"stream", batchId["merge"]>>,
           {bronze[i] : i \in (from["merge"] + 1)..to["merge"]} \cap Replayable)
  /\ UNCHANGED backfills

\* A batch is what was appended to the table; the stream skips the commits that
\* change or delete rows.
BeginBatch ==
  /\ to["merge"] > from["merge"]
  /\ Begin(<<"stream", batchId["merge"]>>,
           ToSet(SubSeq(bronze, from["merge"] + 1, to["merge"])))
  /\ UNCHANGED backfills

\* Mutant: every attempt has a run_id of its own.
BeginBackfillAnew ==
  /\ backfills' = backfills + 1
  /\ Replayable # {}
  /\ Begin(<<"backfill", backfills'>>, Replayable)

\* The backfill DAG replays what retention has left, over all dates; Airflow may
\* try a run again under its id, when there is less, or more, of it.
BeginBackfill ==
  /\ \/ backfills < MaxBackfills /\ backfills' = backfills + 1
     \/ backfills > 0 /\ UNCHANGED backfills
  /\ Replayable # {}
  /\ Begin(<<"backfill", backfills'>>, Replayable)

Valid == batch \ failed
IdsOf(S) == {IdOf[r] : r \in S}

Quarantine ==
  /\ step = "quarantine"
  /\ quarantine' = quarantine \cup ({run} \X failed)
  /\ step' = "results"
  /\ UNCHANGED <<topic, bronzeVars, results, alerts, silver, queryVars,
                 run, batch, failed, backfills, due>>

\* The three kinds of checks.  "RED" is YELLOW or RED: one row of fewer than a
\* thousand is enough for either.
Status(c) ==
  IF \/ c = "validity" /\ failed # {}
     \/ c = "in_batch" /\ Cardinality(IdsOf(Valid)) < Cardinality(Valid)
     \/ c = "already" /\ IdsOf(Valid) \cap IdsOf(silver) # {}
    THEN "RED" ELSE "GREEN"

\* The checks a source without valid rows has no result for are left out.
Measured == IF Valid = {} THEN {"validity"} ELSE Check

\* Mutant: a repeated run overwrites its results.
RecordLast ==
  /\ step = "results"
  /\ results' = [k \in Run \X Check |->
       IF k[1] = run /\ k[2] \in Measured THEN Status(k[2]) ELSE results[k]]
  /\ step' = "alerts"
  /\ UNCHANGED <<topic, bronzeVars, quarantine, alerts, silver, queryVars,
                 run, batch, failed, backfills, due>>

\* write_dq(): a result that exists for the run and check is kept ...
RecordResults ==
  /\ step = "results"
  /\ results' = [k \in Run \X Check |->
       IF k[1] = run /\ k[2] \in Measured /\ results[k] = "none"
         THEN Status(k[2]) ELSE results[k]]
  /\ step' = "alerts"
  /\ UNCHANGED <<topic, bronzeVars, quarantine, alerts, silver, queryVars,
                 run, batch, failed, backfills, due>>

\* Mutant: the alerts are sent before the checks for duplicates are added.
EmitEarly ==
  /\ step = "alerts"
  /\ alerts' = alerts \cup {<<run, c>> : c \in {c \in {"validity"} : Status(c) = "RED"}}
  /\ step' = "merge"
  /\ UNCHANGED <<topic, bronzeVars, quarantine, results, silver, queryVars,
                 run, batch, failed, backfills, due>>

\* ... and emit_alerts() takes the result as it was computed now.
EmitAlerts ==
  /\ step = "alerts"
  /\ alerts' = alerts \cup {<<run, c>> : c \in {c \in Measured : Status(c) = "RED"}}
  /\ step' = "merge"
  /\ UNCHANGED <<topic, bronzeVars, quarantine, results, silver, queryVars,
                 run, batch, failed, backfills, due>>

\* Mutant: duplicates within the batch are not dropped.
MergeAll ==
  /\ step = "merge"
  /\ silver' = silver \cup {r \in Valid : IdOf[r] \notin IdsOf(silver)}
  /\ step' = "end"
  /\ UNCHANGED <<topic, bronzeVars, quarantine, results, alerts, queryVars,
                 run, batch, failed, backfills, due>>

\* Mutant: a batch with a row that fails a check is not merged.
MergeWhole ==
  /\ step = "merge"
  /\ failed = {}
  /\ silver' = silver \cup {CHOOSE r \in Valid : IdOf[r] = i : i \in IdsOf(Valid) \ IdsOf(silver)}
  /\ step' = "end"
  /\ UNCHANGED <<topic, bronzeVars, quarantine, results, alerts, queryVars,
                 run, batch, failed, backfills, due>>

\* Mutant: the rows that fail are quarantined and merged all the same.
MergeUnchecked ==
  /\ step = "merge"
  /\ silver' = silver \cup
       {CHOOSE r \in batch : IdOf[r] = i : i \in IdsOf(batch) \ IdsOf(silver)}
  /\ step' = "end"
  /\ UNCHANGED <<topic, bronzeVars, quarantine, results, alerts, queryVars,
                 run, batch, failed, backfills, due>>

\* dropDuplicates() keeps any one row of an event_id; the MERGE inserts those
\* whose event_id Silver does not have.
MergeSilver ==
  /\ step = "merge"
  /\ \E unique \in SUBSET Valid :
       /\ IdsOf(unique) = IdsOf(Valid)
       /\ \A r, q \in unique : IdOf[r] = IdOf[q] => r = q
       /\ silver' = silver \cup {r \in unique : IdOf[r] \notin IdsOf(silver)}
  /\ step' = "end"
  /\ UNCHANGED <<topic, bronzeVars, quarantine, results, alerts, queryVars,
                 run, batch, failed, backfills, due>>

LeaveSection ==
  /\ step' = "idle"
  /\ run' = NoRun
  /\ batch' = {}
  /\ failed' = {}

\* The callback returns and the batch is recorded, or the backfill is over.
End ==
  /\ step = "end"
  /\ LeaveSection
  /\ IF run[1] = "stream" THEN Committed("merge") ELSE UNCHANGED queryVars
  /\ UNCHANGED <<topic, tableVars, backfills, due>>

\* A table operation raises, or the process dies: what is planned is repeated.
Interrupt ==
  /\ step # "idle"
  /\ LeaveSection
  /\ UNCHANGED <<topic, tableVars, queryVars, backfills, due>>

-----------------------------------------------------------------------------
Validate ==
  \/ BeginBatch \/ Quarantine \/ RecordResults \/ EmitAlerts \/ MergeSilver \/ End

Ingest == Plan("ingest") \/ AppendBronze \/ CommitIngest

Operation == Publish \/ TimePasses \/ Retire \/ Ingest \/ Plan("merge") \/ Validate

Disruption == Interrupt \/ BeginBackfill

Next == Operation \/ Disruption

Spec == Init /\ [][Next]_vars

-----------------------------------------------------------------------------
(* Properties.                                                             *)

\* Bronze is the topic, record by record, in spite of repeated batches.
BronzeIsTopic ==
  /\ Len(bronze) <= topic
  /\ \A i \in 1..Len(bronze) : bronze[i] = i

\* What the checkpoint of the Silver query has passed is in Silver under its
\* event_id, or in quarantine with a reason.
PassedIsAccountedFor ==
  \A i \in 1..from["merge"] :
    \/ IdOf[bronze[i]] \in IdsOf(silver)
    \/ \E id \in Run : <<id, bronze[i]>> \in quarantine

\* Replays, duplicates and backfills leave one row per event_id in Silver.
OneRowPerEvent ==
  \A r, q \in silver : IdOf[r] = IdOf[q] => r = q

\* A duplicate that dq_results reports for a batch the checkpoint has passed is
\* in alert_events too, however often the batch was interrupted between the two.
DuplicatesAreAlerted ==
  \A n \in 1..(batchId["merge"] - 1), c \in {"in_batch", "already"} :
    results[<<<<"stream", n>>, c>>] = "RED" => <<<<"stream", n>>, c>> \in alerts

\* The first results of a run are preserved.
FirstResultsKept ==
  [][\A k \in Run \X Check : results[k] # "none" => results'[k] = results[k]]_vars

\* The comment above write_dq() has the results of the first attempt stand: an
\* alert then tells of a result of its run that is not green.
AlertsMatchResults ==
  \A k \in alerts : results[k] = "RED"

Quarantined == {r \in Row : \E id \in Run : <<id, r>> \in quarantine}

Ledger == INSTANCE SilverLedger
            WITH passed <- from["merge"], rejected <- Quarantined

\* Whatever is repeated, interrupted, replayed or retired, each record of the
\* topic is settled once: a row that can never be valid does not reach Silver, a
\* valid one is not quarantined, and the checkpoint passes nothing unsettled.
ExactlyOnce == Ledger!Spec

Fairness ==
  /\ WF_vars(Ingest)
  /\ WF_vars(Plan("merge"))
  /\ WF_vars(Validate)

\* Every record that reaches the topic is in Silver or in quarantine at last, if
\* failures and backfills come to an end.
EveryRecordIsAccountedFor ==
  \A r \in Row : topic >= r ~>
    IdOf[r] \in IdsOf(silver) \/ \E id \in Run : <<id, r>> \in quarantine
=============================================================================
