---------------------------- MODULE GoldRefresh -----------------------------
(***************************************************************************)
(* The driver of the analytics plane (analytics/driver.py) and its two     *)
(* threads that write Silver and Gold: the callback of the priority        *)
(* stream, and the HTTP jobs that Airflow submits one at a time (Legal     *)
(* merge, Gold rebuild, backfill).  A process-local lock makes each merge  *)
(* into Silver and each refresh of Gold a critical section.                *)
(*                                                                         *)
(* Only rows that pass validation are represented, and an aggregate is     *)
(* represented by the set of Silver rows it was computed from.             *)
(***************************************************************************)
EXTENDS Naturals, FiniteSets

CONSTANTS
  Event,         \* valid events, one per event_id
  Date, Source,
  DateOf,        \* event_date
  SourceOf,
  Priority       \* the events of the topic unsubscribe-priority

ASSUME TableAssumption ==
  /\ DateOf \in [Event -> Date]
  /\ SourceOf \in [Event -> Source]
  /\ Priority \subseteq Event

Channel == {"priority", "legal"}
Thread == {"stream", "http"}
Group == Date \X Source

InChannel(c) == IF c = "priority" THEN Priority ELSE Event \ Priority
OnDates(D) == {e \in Event : DateOf[e] \in D}
GroupOf(e) == <<DateOf[e], SourceOf[e]>>

VARIABLES
  bronze,        \* events in the Bronze tables
  silver,        \* silver_processed_at of each event; 0: not in Silver
  counted,       \* rows behind each aggregate of Gold; {}: no such aggregate
  updated,       \* its gold_updated_at; 0: no such aggregate
  clock,         \* the last timestamp the driver has taken
  holder,        \* who holds silver_gold_lock, or "none"
  pc,            \* where each thread is
  batch,         \* rows a thread is merging
  stamp,         \* the timestamp it froze
  seen,          \* the Silver rows the refresh has aggregated
  job,           \* the HTTP job that holds batch_lock
  plan,          \* the dates Airflow has from find_touched_dates, if known
  active         \* the priority query is active

tableVars == <<bronze, silver, counted, updated>>
threadVars == <<clock, holder, pc, batch, stamp, seen>>
vars == <<tableVars, threadVars, job, plan, active>>

NoPlan == [known |-> FALSE, dates |-> {}]
NoJob == [kind |-> "none", merges |-> {}, dates |-> {}, goal |-> {}]

\* Inside the critical section.
Merging == {"merging", "stamped", "merged"}
Refreshing == {"refreshing", "computed", "replaced"}
Section == Merging \cup Refreshing

\* The values of the variables.  A thread is in a section, or idle; an HTTP job
\* is also between sections ("job"), about to refresh ("ready") or to answer
\* ("done").  The lock is held by the thread in a section.
TypeOK ==
  /\ bronze \in SUBSET Event
  /\ silver \in [Event -> Nat]
  /\ counted \in [Group -> SUBSET Event]
  /\ updated \in [Group -> Nat]
  /\ clock \in Nat
  /\ holder \in Thread \cup {"none"}
  /\ pc \in [Thread -> {"idle", "job", "ready", "done"} \cup Section]
  /\ batch \in [Thread -> SUBSET Event]
  /\ stamp \in [Thread -> Nat]
  /\ seen \in SUBSET Event
  /\ job \in [kind : {"none", "legal", "rebuild", "backfill"},
              merges : SUBSET Channel, dates : SUBSET Date, goal : SUBSET Event]
  /\ plan \in [known : BOOLEAN, dates : SUBSET Date]
  /\ active \in BOOLEAN
  /\ \A t \in Thread : pc[t] \in Section <=> holder = t

Init ==
  /\ bronze = {}
  /\ silver = [e \in Event |-> 0]
  /\ counted = [g \in Group |-> {}]
  /\ updated = [g \in Group |-> 0]
  /\ clock = 0
  /\ holder = "none"
  /\ pc = [t \in Thread |-> "idle"]
  /\ batch = [t \in Thread |-> {}]
  /\ stamp = [t \in Thread |-> 0]
  /\ seen = {}
  /\ job = NoJob
  /\ plan = NoPlan
  /\ active = TRUE

InSilver == {e \in Event : silver[e] # 0}
RowsOf(g) == {e \in InSilver : GroupOf(e) = g}

\* The condition of touched() and of freshness(): Silver has a row newer than
\* the aggregate, or there is none.
Pending(g) ==
  \E e \in RowsOf(g) : updated[g] = 0 \/ silver[e] > updated[g]

\* Mutant: only aggregates that exist are looked at.
PendingExisting == {d \in Date : \E s \in Source :
  Pending(<<d, s>>) /\ updated[<<d, s>>] # 0}

PendingDates == {d \in Date : \E s \in Source : Pending(<<d, s>>)}
SilverDates == {DateOf[e] : e \in InSilver}
GoldDates == {d \in Date : \E s \in Source : counted[<<d, s>>] # {}}

Goto(t, place) == pc' = [pc EXCEPT ![t] = place]

-----------------------------------------------------------------------------
(* The critical section of validate_and_merge().                           *)

\* A row reaches Bronze.
Arrive(e) ==
  /\ e \notin bronze
  /\ bronze' = bronze \cup {e}
  /\ UNCHANGED <<silver, counted, updated, threadVars, job, plan, active>>

\* Mutant: the merge does not take the lock.
BeginMergeUnlocked(t, B) ==
  /\ batch' = [batch EXCEPT ![t] = B]
  /\ Goto(t, "merging")
  /\ UNCHANGED <<tableVars, clock, holder, stamp, seen, plan, active>>

BeginMerge(t, B) ==
  /\ holder = "none"
  /\ holder' = t
  /\ batch' = [batch EXCEPT ![t] = B]
  /\ Goto(t, "merging")
  /\ UNCHANGED <<tableVars, clock, stamp, seen, plan, active>>

TakeTime(t) ==
  /\ clock' = clock + 1
  /\ stamp' = [stamp EXCEPT ![t] = clock + 1]

\* prepared.count() freezes silver_processed_at for the merge.
Freeze(t) ==
  /\ pc[t] = "merging"
  /\ TakeTime(t)
  /\ Goto(t, "stamped")
  /\ UNCHANGED <<tableVars, holder, batch, seen, job, plan, active>>

\* Mutant: the MERGE updates matched rows.
MergeUpdates(t) ==
  /\ pc[t] = "stamped"
  /\ silver' = [e \in Event |-> IF e \in batch[t] THEN stamp[t] ELSE silver[e]]
  /\ Goto(t, "merged")
  /\ UNCHANGED <<bronze, counted, updated, clock, holder, batch, stamp, seen,
                 job, plan, active>>

\* silver_merge(): an event_id that is there already is left alone.
Merge(t) ==
  /\ pc[t] = "stamped"
  /\ silver' = [e \in Event |->
       IF e \in batch[t] /\ silver[e] = 0 THEN stamp[t] ELSE silver[e]]
  /\ Goto(t, "merged")
  /\ UNCHANGED <<bronze, counted, updated, clock, holder, batch, stamp, seen,
                 job, plan, active>>

\* The latency metrics are written, the lock is released.
EndMerge(t) ==
  /\ pc[t] = "merged"
  /\ holder' = "none"
  /\ batch' = [batch EXCEPT ![t] = {}]
  /\ Goto(t, IF t = "http" THEN "job" ELSE "idle")
  /\ UNCHANGED <<tableVars, clock, stamp, seen, job, plan, active>>

\* The callback of the priority stream gets a micro-batch of new rows.
StreamBatch(B) ==
  /\ active
  /\ pc["stream"] = "idle"
  /\ B \subseteq (bronze \cap Priority) \ InSilver
  /\ B # {}
  /\ BeginMerge("stream", B)
  /\ UNCHANGED job

\* After a failure behind the merge the micro-batch comes once more.
StreamReplay(B) ==
  /\ active
  /\ pc["stream"] = "idle"
  /\ B \subseteq bronze \cap Priority
  /\ B \cap InSilver # {}
  /\ BeginMerge("stream", B)
  /\ UNCHANGED job

-----------------------------------------------------------------------------
(* The HTTP jobs.  batch_lock admits one at a time.                        *)

StartJob(kind, merges, dates, goal, place) ==
  /\ pc["http"] = "idle"
  /\ job' = [kind |-> kind, merges |-> merges, dates |-> dates, goal |-> goal]
  /\ Goto("http", place)
  /\ UNCHANGED <<tableVars, clock, holder, batch, stamp, seen, plan, active>>

\* The Legal DAG, woken by new offsets, submits bronze_to_silver.
StartLegal ==
  /\ ~(bronze \subseteq Priority \cup InSilver)
  /\ StartJob("legal", {"legal"}, Date, {}, "job")

\* The Gold DAG asks which dates were touched: the pending ones, and those
\* with a row in the look-back window, which may be any.
FindTouched(extra) ==
  /\ pc["http"] = "idle"
  /\ ~plan.known
  /\ extra \subseteq SilverDates \ PendingDates
  /\ plan' = [known |-> TRUE, dates |-> PendingDates \cup extra]
  /\ UNCHANGED <<tableVars, threadVars, job, active>>

\* ... and submits their rebuild in a second request.
StartRebuild ==
  /\ plan.known
  /\ StartJob("rebuild", {}, plan.dates, {}, "ready")

\* The backfill DAG.  goal: the rows that its Gold range is to contain.
StartBackfill(layer, D) ==
  IF layer = "silver"
    THEN StartJob("backfill", Channel, D, bronze \cap OnDates(D), "job")
    ELSE StartJob("backfill", {}, D, InSilver \cap OnDates(D), "job")

\* A job merges the Bronze rows of a channel in its range, the priority channel
\* first; the Legal stream those it has not merged.  (A batch it repeats does to
\* the tables what a backfill does.)  An empty batch is left alone.
MergeChannel(c) ==
  LET B == (bronze \cap InChannel(c) \cap OnDates(job.dates))
             \ (IF job.kind = "legal" THEN InSilver ELSE {})
      mergesLeft == [job EXCEPT !.merges = @ \ {c}]
  IN  /\ pc["http"] = "job"
      /\ c \in job.merges
      /\ c = "legal" => "priority" \notin job.merges
      /\ job' = mergesLeft
      /\ IF B = {} THEN UNCHANGED <<tableVars, threadVars, plan, active>>
                   ELSE BeginMerge("http", B)

\* Mutant: a backfill rebuilds only what is in Gold already.
GoldDatesOf(D) == D \cap GoldDates

\* The dates a backfill rebuilds are those of its range with a row in Silver
\* or Gold.
DatesOf(D) == D \cap (SilverDates \cup GoldDates)

PickDates ==
  /\ pc["http"] = "job"
  /\ job.kind = "backfill"
  /\ job.merges = {}
  /\ job' = [job EXCEPT !.dates = DatesOf(@)]
  /\ Goto("http", "ready")
  /\ UNCHANGED <<tableVars, clock, holder, batch, stamp, seen, plan, active>>

\* Mutant: the refresh does not take the lock.
BeginRefreshUnlocked ==
  /\ pc["http"] = "ready"
  /\ Goto("http", IF job.dates = {} THEN "done" ELSE "refreshing")
  /\ UNCHANGED <<tableVars, clock, holder, batch, stamp, seen, job, plan, active>>

\* refresh() takes the lock; without dates it returns at once.
BeginRefresh ==
  /\ pc["http"] = "ready"
  /\ holder = "none"
  /\ IF job.dates = {}
       THEN Goto("http", "done") /\ UNCHANGED holder
       ELSE Goto("http", "refreshing") /\ holder' = "http"
  /\ UNCHANGED <<tableVars, clock, batch, stamp, seen, job, plan, active>>

\* gold.count() reads Silver and freezes gold_updated_at.
Compute ==
  /\ pc["http"] = "refreshing"
  /\ TakeTime("http")
  /\ seen' = InSilver \cap OnDates(job.dates)
  /\ Goto("http", "computed")
  /\ UNCHANGED <<tableVars, holder, batch, job, plan, active>>

\* replaceWhere: the partitions of all the dates, in one commit.
Replace ==
  LET rows(g) == {e \in seen : GroupOf(e) = g}
      time(g) == IF rows(g) = {} THEN 0 ELSE stamp["http"]
  IN  /\ pc["http"] = "computed"
      /\ counted' = [g \in Group |->
           IF g[1] \in job.dates THEN rows(g) ELSE counted[g]]
      /\ updated' = [g \in Group |->
           IF g[1] \in job.dates THEN time(g) ELSE updated[g]]
      /\ Goto("http", "replaced")
      /\ UNCHANGED <<bronze, silver, clock, holder, batch, stamp, seen,
                     job, plan, active>>

\* Gold checks and metrics are written, the lock is released.
EndRefresh ==
  /\ pc["http"] = "replaced"
  /\ holder' = "none"
  /\ seen' = {}
  /\ Goto("http", "done")
  /\ UNCHANGED <<tableVars, clock, batch, stamp, job, plan, active>>

EndLegal ==
  /\ pc["http"] = "job"
  /\ job.kind = "legal"
  /\ job.merges = {}
  /\ Goto("http", "done")
  /\ UNCHANGED <<tableVars, clock, holder, batch, stamp, seen, job, plan, active>>

\* The answer; the DAG run of a rebuild is over.
Respond ==
  /\ pc["http"] = "done"
  /\ Goto("http", "idle")
  /\ job' = NoJob
  /\ plan' = IF job.kind = "rebuild" THEN NoPlan ELSE plan
  /\ UNCHANGED <<tableVars, clock, holder, batch, stamp, seen, active>>

-----------------------------------------------------------------------------
(* Failures.                                                               *)

\* Mutant: an exception leaves the lock locked.
KeepLock(t) == UNCHANGED holder

Unlock(t) == holder' = IF holder = t THEN "none" ELSE holder

\* A table operation raises in the callback, which ends the query.
StreamFails ==
  /\ pc["stream"] # "idle"
  /\ Unlock("stream")
  /\ batch' = [batch EXCEPT !["stream"] = {}]
  /\ Goto("stream", "idle")
  /\ active' = FALSE
  /\ UNCHANGED <<tableVars, clock, stamp, seen, job, plan>>

\* Airflow submits a failed rebuild again, with the same dates, or, with its
\* retries used up, gives the run up.
PlanAfterFailure ==
  \/ UNCHANGED plan
  \/ job.kind = "rebuild" /\ plan' = NoPlan

\* A job raises, and 500 is answered.
JobFails ==
  /\ pc["http"] \notin {"idle", "done"}
  /\ Unlock("http")
  /\ batch' = [batch EXCEPT !["http"] = {}]
  /\ seen' = {}
  /\ Goto("http", "idle")
  /\ job' = NoJob
  /\ PlanAfterFailure
  /\ UNCHANGED <<tableVars, clock, stamp, active>>

\* The answer does not arrive, and Airflow submits the same dates again.
AnswerLost ==
  /\ pc["http"] = "done"
  /\ job.kind = "rebuild"
  /\ Goto("http", "idle")
  /\ job' = NoJob
  /\ UNCHANGED <<tableVars, clock, holder, batch, stamp, seen, plan, active>>

\* The process is replaced: its threads and its lock are gone.
NewProcess ==
  /\ holder' = "none"
  /\ pc' = [t \in Thread |-> "idle"]
  /\ batch' = [t \in Thread |-> {}]
  /\ seen' = {}
  /\ job' = NoJob
  /\ active' = TRUE
  /\ PlanAfterFailure
  /\ UNCHANGED <<tableVars, clock, stamp>>

\* The loop of serve() finds the query inactive and raises.
Restart == ~active /\ NewProcess

Crash == active /\ NewProcess

-----------------------------------------------------------------------------
Step(t) == Freeze(t) \/ Merge(t) \/ EndMerge(t)

Job ==
  \/ \E c \in Channel : MergeChannel(c)
  \/ PickDates \/ BeginRefresh \/ Compute \/ Replace \/ EndRefresh
  \/ EndLegal \/ Respond

Operation ==
  \/ \E e \in Event : Arrive(e)
  \/ \E B \in SUBSET Event : StreamBatch(B)
  \/ \E t \in Thread : Step(t)
  \/ Job \/ StartLegal \/ FindTouched({}) \/ StartRebuild \/ Restart

Disruption ==
  \/ StreamFails \/ JobFails \/ AnswerLost \/ Crash
  \/ \E B \in SUBSET Event : StreamReplay(B)
  \/ \E extra \in SUBSET Date \ {{}} : FindTouched(extra)
  \/ \E layer \in {"silver", "gold"}, D \in SUBSET Date : StartBackfill(layer, D)

Next == Operation \/ Disruption

Spec == Init /\ [][Next]_vars

-----------------------------------------------------------------------------
(* Properties.                                                             *)

\* An aggregate that does not agree with Silver is pending: touched() finds its
\* date and freshness() reports its age.  No merge commits a row that carries a
\* timestamp older than the aggregate which misses it.
StaleIsPending == \A g \in Group : counted[g] = RowsOf(g) \/ Pending(g)

\* A backfill that answers has its whole range in Gold, whatever the stream
\* merged meanwhile.
BackfillDelivers ==
  pc["http"] = "done" =>
    \A e \in job.goal : e \in InSilver /\ e \in counted[GroupOf(e)]

\* A row keeps the time of its first merge, although batches are replayed and
\* backfilled: the latency metrics and the pending test depend on it.
FirstMergeKept ==
  [][\A e \in Event : silver[e] # 0 => silver'[e] = silver[e]]_vars

View == INSTANCE GoldView WITH silver <- InSilver, gold <- counted

\* To a reader of the tables, aggregating Silver and replacing the partitions
\* of Gold are one step, whatever the other thread merges meanwhile: the lock
\* is there for this.
AtomicRefresh == View!Spec

(* The stream is triggered again and again and Airflow schedules its DAGs; *)
(* the locks starve nobody, for the schedule leaves minutes in between.    *)
Fairness ==
  /\ \A t \in Thread : WF_vars(Step(t))
  /\ SF_vars(\E B \in SUBSET Event : StreamBatch(B))
  /\ SF_vars(Job)
  /\ SF_vars(StartLegal)
  /\ SF_vars(FindTouched({}))
  /\ SF_vars(StartRebuild)
  /\ WF_vars(Restart)

FairSpec == Spec /\ Fairness

\* Every row that reaches Bronze is counted in Gold at last, if failures and
\* extra jobs come to an end.
EveryEventIsCounted ==
  \A e \in Event : e \in bronze ~> e \in counted[GroupOf(e)]
=============================================================================
