------------------------- MODULE GoldRefreshProofs --------------------------
(***************************************************************************)
(* Theorems about GoldRefresh for any number of events, dates and sources. *)
(***************************************************************************)
EXTENDS GoldRefresh, TLAPS

-----------------------------------------------------------------------------
(* Types and the lock.                                                     *)

(* A failed job leaves Airflow with its plan or without one.               *)
LEMMA PlanType ==
  ASSUME TypeOK, PlanAfterFailure
  PROVE  plan' \in [known : BOOLEAN, dates : SUBSET Date]
<1>1. NoPlan \in [known : BOOLEAN, dates : SUBSET Date]
  BY DEF NoPlan
<1> QED BY <1>1 DEF PlanAfterFailure, TypeOK

(* The types hold when the driver starts for the first time.               *)
LEMMA TypeInit == Init => TypeOK
BY DEF Init, TypeOK, NoJob, NoPlan, Thread, Section, Merging, Refreshing

(* Every step of the driver, of Airflow, and every failure keeps the types *)
(* and the lock discipline.                                                *)
LEMMA TypeStep == TypeOK /\ [Next]_vars => TypeOK'
<1> SUFFICES ASSUME TypeOK, [Next]_vars PROVE TypeOK'
  OBVIOUS
<1> USE DEF Section, Merging, Refreshing, Thread, Goto
<1>1. ASSUME NEW e \in Event, Arrive(e) PROVE TypeOK'
  BY <1>1 DEF Arrive, TypeOK, threadVars
<1>2. ASSUME NEW t \in Thread, NEW B \in SUBSET Event, BeginMerge(t, B),
             pc[t] \notin Section,
             job' \in [kind : {"none", "legal", "rebuild", "backfill"},
                       merges : SUBSET Channel, dates : SUBSET Date,
                       goal : SUBSET Event]
      PROVE  TypeOK'
  BY <1>2 DEF BeginMerge, TypeOK, tableVars
<1>3. ASSUME NEW B \in SUBSET Event, StreamBatch(B) \/ StreamReplay(B)
      PROVE  TypeOK'
  BY <1>2, <1>3 DEF StreamBatch, StreamReplay, TypeOK
<1>4. ASSUME NEW t \in Thread, Freeze(t) PROVE TypeOK'
  BY <1>4 DEF Freeze, TakeTime, TypeOK, tableVars
<1>5. ASSUME NEW t \in Thread, Merge(t) PROVE TypeOK'
  BY <1>5 DEF Merge, TypeOK
<1>6. ASSUME NEW t \in Thread, EndMerge(t) PROVE TypeOK'
  BY <1>6 DEF EndMerge, TypeOK, tableVars
<1>7. ASSUME NEW kind \in {"legal", "rebuild", "backfill"},
             NEW merges \in SUBSET Channel, NEW dates \in SUBSET Date,
             NEW goal \in SUBSET Event, NEW place \in {"job", "ready"},
             StartJob(kind, merges, dates, goal, place)
      PROVE  TypeOK'
  BY <1>7 DEF StartJob, TypeOK, tableVars
<1>8. ASSUME StartLegal PROVE TypeOK'
  BY <1>7, <1>8 DEF StartLegal, Channel
<1>9. ASSUME StartRebuild PROVE TypeOK'
  BY <1>7, <1>9 DEF StartRebuild, TypeOK
<1>10. ASSUME NEW layer \in {"silver", "gold"}, NEW D \in SUBSET Date,
              StartBackfill(layer, D)
       PROVE  TypeOK'
  BY <1>7, <1>10 DEF StartBackfill, TypeOK, InSilver, OnDates
<1>11. ASSUME NEW extra \in SUBSET Date, FindTouched(extra) PROVE TypeOK'
  <2>1. plan' \in [known : BOOLEAN, dates : SUBSET Date]
    BY <1>11 DEF FindTouched, PendingDates
  <2> QED BY <1>11, <2>1 DEF FindTouched, TypeOK, tableVars, threadVars
<1>12. ASSUME NEW c \in Channel, MergeChannel(c) PROVE TypeOK'
  <2> DEFINE B == (bronze \cap InChannel(c) \cap OnDates(job.dates))
                    \ (IF job.kind = "legal" THEN InSilver ELSE {})
  <2>1. job' \in [kind : {"none", "legal", "rebuild", "backfill"},
                  merges : SUBSET Channel, dates : SUBSET Date,
                  goal : SUBSET Event]
    BY <1>12 DEF MergeChannel, TypeOK
  <2>2. B \in SUBSET Event /\ "http" \in Thread /\ pc["http"] = "job"
    BY <1>12 DEF MergeChannel, TypeOK
  <2>3. CASE BeginMerge("http", B)
    BY <1>2, <2>1, <2>2, <2>3
  <2>4. CASE UNCHANGED <<tableVars, threadVars, plan, active>>
    BY <2>1, <2>4 DEF TypeOK, tableVars, threadVars
  <2> QED BY <1>12, <2>3, <2>4 DEF MergeChannel
<1>13. ASSUME PickDates PROVE TypeOK'
  BY <1>13 DEF PickDates, DatesOf, TypeOK, tableVars
<1>14. ASSUME BeginRefresh PROVE TypeOK'
  BY <1>14 DEF BeginRefresh, TypeOK, tableVars
<1>15. ASSUME Compute PROVE TypeOK'
  BY <1>15 DEF Compute, TakeTime, TypeOK, tableVars, InSilver
<1>16. ASSUME Replace PROVE TypeOK'
  BY <1>16 DEF Replace, TypeOK
<1>17. ASSUME EndRefresh PROVE TypeOK'
  BY <1>17 DEF EndRefresh, TypeOK, tableVars
<1>18. ASSUME EndLegal PROVE TypeOK'
  BY <1>18 DEF EndLegal, TypeOK, tableVars
<1>19. ASSUME Respond PROVE TypeOK'
  BY <1>19 DEF Respond, TypeOK, tableVars, NoJob, NoPlan
<1>20. ASSUME StreamFails PROVE TypeOK'
  BY <1>20 DEF StreamFails, Unlock, TypeOK, tableVars
<1>21. ASSUME JobFails PROVE TypeOK'
  BY <1>21, PlanType DEF JobFails, Unlock, TypeOK, tableVars, NoJob
<1>22. ASSUME AnswerLost PROVE TypeOK'
  BY <1>22 DEF AnswerLost, TypeOK, tableVars, NoJob
<1>23. ASSUME NewProcess PROVE TypeOK'
  BY <1>23, PlanType DEF NewProcess, TypeOK, tableVars, NoJob
<1>24. ASSUME UNCHANGED vars PROVE TypeOK'
  BY <1>24 DEF vars, tableVars, threadVars, TypeOK
<1> QED
  BY <1>1, <1>3, <1>4, <1>5, <1>6, <1>8, <1>9, <1>10, <1>11, <1>12, <1>13,
     <1>14, <1>15, <1>16, <1>17, <1>18, <1>19, <1>20, <1>21, <1>22, <1>23,
     <1>24
  DEF Next, Operation, Disruption, Job, Step, Restart, Crash

(* Types, and the lock: a thread in a section holds it.                    *)
THEOREM TypeCorrect == Spec => []TypeOK
BY TypeInit, TypeStep, PTL DEF Spec

-----------------------------------------------------------------------------
(***************************************************************************)
(* Stale aggregates.  Timestamps grow, and the lock puts the time a merge  *)
(* freezes and the commit of its rows on the same side of every refresh.   *)
(* Hence a merge that is about to commit carries a time later than every   *)
(* gold_updated_at, and a refresh that is about to replace has aggregated  *)
(* what Silver still holds.                                                *)
(***************************************************************************)
Ordered ==
  /\ \A t \in Thread : stamp[t] <= clock
  /\ \A g \in Group : updated[g] <= clock
  /\ \A t \in Thread : pc[t] = "stamped" =>
       \A g \in Group : updated[g] < stamp[t]
  /\ pc["http"] = "computed" => seen = InSilver \cap OnDates(job.dates)

\* A step that takes no time and writes neither Silver nor Gold.
Quiet ==
  /\ UNCHANGED <<silver, counted, updated, clock, stamp>>
  /\ \A t \in Thread : pc'[t] = "stamped" => pc[t] = "stamped"
  /\ pc'["http"] = "computed" =>
       pc["http"] = "computed" /\ UNCHANGED <<seen, job>>

(* Only four actions are not quiet.                                        *)
LEMMA StepKinds ==
  ASSUME TypeOK, [Next]_vars
  PROVE  \/ Quiet
         \/ \E t \in Thread : Freeze(t) \/ Merge(t)
         \/ Compute
         \/ Replace
<1> USE DEF Quiet, TypeOK, Goto, tableVars, threadVars, Thread
<1>1. ASSUME NEW e \in Event, Arrive(e) PROVE Quiet
  BY <1>1 DEF Arrive
<1>2. ASSUME NEW B \in SUBSET Event, StreamBatch(B) \/ StreamReplay(B) PROVE Quiet
  BY <1>2 DEF StreamBatch, StreamReplay, BeginMerge
<1>3. ASSUME NEW t \in Thread, EndMerge(t) PROVE Quiet
  BY <1>3 DEF EndMerge
<1>4. ASSUME StartLegal PROVE Quiet
  BY <1>4 DEF StartLegal, StartJob
<1>5. ASSUME NEW layer \in {"silver", "gold"}, NEW D \in SUBSET Date,
             StartBackfill(layer, D)
      PROVE  Quiet
  BY <1>5 DEF StartBackfill, StartJob
<1>6. ASSUME StartRebuild PROVE Quiet
  BY <1>6 DEF StartRebuild, StartJob
<1>7. ASSUME NEW extra \in SUBSET Date, FindTouched(extra) PROVE Quiet
  BY <1>7 DEF FindTouched
<1>8. ASSUME NEW c \in Channel, MergeChannel(c) PROVE Quiet
  BY <1>8 DEF MergeChannel, BeginMerge
<1>9. ASSUME PickDates \/ BeginRefresh \/ EndRefresh \/ EndLegal \/ Respond
      PROVE  Quiet
  BY <1>9 DEF PickDates, BeginRefresh, EndRefresh, EndLegal, Respond
<1>10. ASSUME StreamFails \/ JobFails \/ AnswerLost \/ NewProcess PROVE Quiet
  BY <1>10 DEF StreamFails, JobFails, AnswerLost, NewProcess
<1>11. ASSUME UNCHANGED vars PROVE Quiet
  BY <1>11 DEF vars
<1> QED
  BY <1>1, <1>2, <1>3, <1>4, <1>5, <1>6, <1>7, <1>8, <1>9, <1>10, <1>11
  DEF Next, Operation, Disruption, Job, Step, Restart, Crash

(* A merge and a refresh are never in their sections together.             *)
LEMMA MutualExclusion ==
  ASSUME TypeOK
  PROVE  pc["stream"] \in Section => pc["http"] \notin Section
BY DEF TypeOK, Thread

(* The order of times holds at first, and every step keeps it.             *)
LEMMA OrderedInit == Init => Ordered
BY DEF Init, Ordered, Group, Thread

(* Every step keeps the order of times.                                    *)
LEMMA OrderedStep == TypeOK /\ Ordered /\ [Next]_vars => Ordered'
<1> SUFFICES ASSUME TypeOK, Ordered, [Next]_vars PROVE Ordered'
  OBVIOUS
<1> USE DEF Ordered, Goto, Section, Merging, Refreshing, Thread
<1>1. CASE Quiet
  BY <1>1 DEF Quiet, InSilver, OnDates
<1>2. ASSUME NEW t \in Thread, Freeze(t) PROVE Ordered'
  BY <1>2, MutualExclusion DEF Freeze, TakeTime, TypeOK, tableVars, InSilver, OnDates
<1>3. ASSUME NEW t \in Thread, Merge(t) PROVE Ordered'
  BY <1>3, MutualExclusion DEF Merge, TypeOK
<1>4. CASE Compute
  BY <1>4, MutualExclusion DEF Compute, TakeTime, TypeOK, tableVars, InSilver, OnDates
<1>5. CASE Replace
  BY <1>5, MutualExclusion DEF Replace, TypeOK
<1> QED BY <1>1, <1>2, <1>3, <1>4, <1>5, StepKinds

(* At first there is nothing to miss.                                      *)
LEMMA StaleInit == Init => StaleIsPending
BY DEF Init, StaleIsPending, RowsOf, InSilver, Group

(* A commit of Silver makes what it touches pending; a commit of Gold      *)
(* brings its dates up to date.                                            *)
LEMMA StaleStep ==
  TypeOK /\ Ordered /\ StaleIsPending /\ [Next]_vars => StaleIsPending'
<1> SUFFICES ASSUME TypeOK, Ordered, StaleIsPending, [Next]_vars,
                    NEW g \in Group
             PROVE  (counted[g] = RowsOf(g) \/ Pending(g))'
  BY DEF StaleIsPending
<1>1. CASE UNCHANGED <<silver, counted, updated>>
  BY <1>1 DEF StaleIsPending, Pending, RowsOf, InSilver
<1>2. ASSUME NEW t \in Thread, Merge(t) PROVE (counted[g] = RowsOf(g) \/ Pending(g))'
  <2>1. CASE RowsOf(g)' = RowsOf(g)
    <3>1. \A e \in RowsOf(g) : silver'[e] = silver[e]
      BY <1>2 DEF Merge, RowsOf, InSilver
    <3> QED BY <1>2, <2>1, <3>1 DEF Merge, StaleIsPending, Pending
  <2>2. CASE RowsOf(g)' # RowsOf(g)
    <3>1. PICK e \in Event : /\ GroupOf(e) = g
                             /\ silver[e] = 0
                             /\ silver'[e] = stamp[t]
                             /\ silver'[e] # 0
      BY <1>2, <2>2 DEF Merge, RowsOf, InSilver, TypeOK, GroupOf
    <3>2. updated[g] < stamp[t] /\ updated'[g] = updated[g]
      BY <1>2 DEF Merge, Ordered
    <3> QED BY <3>1, <3>2 DEF Pending, RowsOf, InSilver, GroupOf
  <2> QED BY <2>1, <2>2
<1>3. CASE Replace
  <2>1. seen = InSilver \cap OnDates(job.dates) /\ silver' = silver
    BY <1>3 DEF Replace, Ordered
  <2>2. CASE g[1] \in job.dates
    <3>1. \A e \in Event : GroupOf(e) = g => e \in OnDates(job.dates)
      BY <2>2 DEF OnDates, GroupOf
    <3>2. counted'[g] = {e \in seen : GroupOf(e) = g}
      BY <1>3, <2>2 DEF Replace
    <3> QED BY <2>1, <3>1, <3>2 DEF RowsOf, InSilver, GroupOf
  <2>3. CASE g[1] \notin job.dates
    <3>1. counted'[g] = counted[g] /\ updated'[g] = updated[g]
      BY <1>3, <2>3 DEF Replace
    <3> QED BY <2>1, <3>1 DEF StaleIsPending, Pending, RowsOf, InSilver
  <2> QED BY <2>2, <2>3
<1> QED
  BY <1>1, <1>2, <1>3, StepKinds DEF Quiet, Freeze, Compute, tableVars

(* Whatever fails, restarts or is backfilled, an aggregate that misses a   *)
(* row of Silver is found by the next run of the Gold DAG.                 *)
THEOREM StaleIsFound == Spec => []StaleIsPending
BY TypeInit, TypeStep, OrderedInit, OrderedStep, StaleInit, StaleStep, PTL DEF Spec

(* No replay, backfill or restart changes the time of a row.               *)
THEOREM FirstMerge == Spec => FirstMergeKept
<1>1. TypeOK /\ [Next]_vars => [\A e \in Event : silver[e] # 0 => silver'[e] = silver[e]]_vars
  BY StepKinds DEF Quiet, Freeze, Merge, Compute, Replace, tableVars
<1> QED BY <1>1, TypeCorrect, PTL DEF Spec, FirstMergeKept

-----------------------------------------------------------------------------
(***************************************************************************)
(* Backfills.  A row the backfill is to deliver is in Silver, or in Bronze *)
(* with its channel still to be merged, or in the batch being merged; once *)
(* no channel is left it is in Silver, then among the rows aggregated, and *)
(* at last behind its aggregate.                                           *)
(***************************************************************************)
Underway(e) ==
  \/ e \in InSilver
  \/ e \in bronze /\ \E c \in job.merges : e \in InChannel(c)
  \/ pc["http"] \in {"merging", "stamped"} /\ e \in batch["http"]

Promise ==
  /\ job.kind # "backfill" => job.goal = {}
  /\ pc["http"] \in {"job"} \cup Merging =>
       \A e \in job.goal : DateOf[e] \in job.dates /\ Underway(e)
  /\ pc["http"] \in {"ready", "refreshing"} =>
       \A e \in job.goal : DateOf[e] \in job.dates /\ e \in InSilver
  /\ pc["http"] = "computed" =>
       \A e \in job.goal : DateOf[e] \in job.dates /\ e \in InSilver /\ e \in seen
  /\ pc["http"] \in {"replaced", "done"} =>
       \A e \in job.goal : e \in InSilver /\ e \in counted[GroupOf(e)]

(* No merge takes a row out of Silver, and it adds its whole batch.        *)
LEMMA MergeAdds ==
  ASSUME TypeOK, Ordered, NEW t \in Thread, Merge(t)
  PROVE  InSilver \subseteq InSilver' /\ batch[t] \subseteq InSilver'
<1>1. ASSUME NEW e \in batch[t] PROVE stamp[t] # 0
  <2>1. GroupOf(e) \in Group
    BY TableAssumption DEF TypeOK, GroupOf, Group
  <2>2. updated[GroupOf(e)] < stamp[t] /\ updated[GroupOf(e)] \in Nat
    BY <2>1 DEF Ordered, Merge, TypeOK
  <2> QED BY <2>2 DEF TypeOK
<1> QED BY <1>1 DEF Merge, InSilver, TypeOK

(* What the stream and the rest of the system do leaves a promise alone.   *)
LEMMA OthersKeepPromise ==
  ASSUME TypeOK, Promise, InSilver \subseteq InSilver', bronze \subseteq bronze',
         UNCHANGED <<job, seen, counted>>, batch'["http"] = batch["http"],
         pc'["http"] = pc["http"]
  PROVE  Promise'
BY DEF Promise, Underway, InChannel

(* The answer ends the job, a failure gives it up.                         *)
LEMMA IdlePromisesNothing ==
  ASSUME pc'["http"] = "idle", job' = NoJob
  PROVE  Promise'
BY DEF Promise, NoJob, Merging

(* A job promises nothing at first, or what lies in its range.             *)
LEMMA StartPromise ==
  ASSUME TypeOK, NEW kind, NEW merges, NEW dates, NEW goal,
         NEW place \in {"job", "ready"},
         StartJob(kind, merges, dates, goal, place),
         kind # "backfill" => goal = {},
         goal # {} => place = "job",
         \A e \in goal : /\ DateOf[e] \in dates
                         /\ \/ e \in InSilver
                            \/ e \in bronze /\ \E c \in merges : e \in InChannel(c)
  PROVE  Promise'
<1>1. job' = [kind |-> kind, merges |-> merges, dates |-> dates, goal |-> goal]
  BY DEF StartJob
<1>2. pc'["http"] = place /\ UNCHANGED <<silver, bronze>>
  BY DEF StartJob, Goto, TypeOK, Thread, tableVars
<1> QED BY <1>1, <1>2 DEF Promise, Underway, Merging, InSilver, InChannel

(* A new process has promised nothing.                                     *)
LEMMA PromiseInit == Init => Promise
BY DEF Init, Promise, NoJob, Merging

(* Each step of a backfill brings its rows nearer to Gold, and nothing     *)
(* else takes them back.                                                   *)
LEMMA PromiseStep == TypeOK /\ Ordered /\ Promise /\ [Next]_vars => Promise'
<1> SUFFICES ASSUME TypeOK, Ordered, Promise, [Next]_vars PROVE Promise'
  OBVIOUS
<1> USE DEF Thread, Goto
<1>1. ASSUME NEW e \in Event, Arrive(e) PROVE Promise'
  BY <1>1, OthersKeepPromise DEF Arrive, threadVars, InSilver
<1>2. ASSUME NEW B \in SUBSET Event, StreamBatch(B) \/ StreamReplay(B)
      PROVE  Promise'
  BY <1>2, OthersKeepPromise
  DEF StreamBatch, StreamReplay, BeginMerge, tableVars, InSilver, TypeOK
<1>3. ASSUME NEW t \in Thread, Freeze(t) PROVE Promise'
  <2>1. CASE t = "stream"
    BY <1>3, <2>1, OthersKeepPromise DEF Freeze, TakeTime, tableVars, InSilver, TypeOK
  <2>2. CASE t = "http"
    BY <1>3, <2>2 DEF Freeze, tableVars, InSilver, TypeOK, Promise, Underway, Merging, InChannel
  <2> QED BY <2>1, <2>2
<1>4. ASSUME NEW t \in Thread, Merge(t) PROVE Promise'
  <2>1. InSilver \subseteq InSilver' /\ batch[t] \subseteq InSilver'
    BY <1>4, MergeAdds
  <2>2. CASE t = "stream"
    BY <1>4, <2>1, <2>2, OthersKeepPromise DEF Merge, TypeOK
  <2>3. CASE t = "http"
    <3>1. pc["http"] = "stamped" /\ pc'["http"] = "merged" /\ UNCHANGED <<job, bronze>>
      BY <1>4, <2>3 DEF Merge, TypeOK
    <3>2. \A e \in job.goal : DateOf[e] \in job.dates /\ Underway(e)
      BY <3>1 DEF Promise, Merging
    <3>3. \A e \in job.goal : Underway(e)'
      BY <2>1, <2>3, <3>1, <3>2 DEF Underway, InChannel
    <3> QED BY <3>1, <3>2, <3>3 DEF Promise, Merging
  <2> QED BY <2>2, <2>3
<1>5. ASSUME NEW t \in Thread, EndMerge(t) PROVE Promise'
  <2>1. CASE t = "stream"
    BY <1>5, <2>1, OthersKeepPromise DEF EndMerge, tableVars, InSilver, TypeOK
  <2>2. CASE t = "http"
    BY <1>5, <2>2 DEF EndMerge, tableVars, InSilver, TypeOK, Promise, Underway, Merging, InChannel
  <2> QED BY <2>1, <2>2
<1>6. ASSUME StartLegal PROVE Promise'
  BY <1>6, StartPromise DEF StartLegal
<1>7. ASSUME StartRebuild PROVE Promise'
  BY <1>7, StartPromise DEF StartRebuild
<1>8. ASSUME NEW layer \in {"silver", "gold"}, NEW D \in SUBSET Date,
             StartBackfill(layer, D)
      PROVE  Promise'
  <2>1. CASE layer = "silver"
    <3>1. \A e \in Event : \E c \in Channel : e \in InChannel(c)
      BY DEF Channel, InChannel
    <3>2. StartJob("backfill", Channel, D, bronze \cap OnDates(D), "job")
      BY <1>8, <2>1 DEF StartBackfill
    <3> QED BY <3>1, <3>2, StartPromise DEF OnDates
  <2>2. CASE layer = "gold"
    <3>1. StartJob("backfill", {}, D, InSilver \cap OnDates(D), "job")
      BY <1>8, <2>2 DEF StartBackfill
    <3> QED BY <3>1, StartPromise DEF OnDates
  <2> QED BY <2>1, <2>2
<1>9. ASSUME NEW extra \in SUBSET Date, FindTouched(extra) PROVE Promise'
  BY <1>9, OthersKeepPromise DEF FindTouched, tableVars, threadVars, InSilver
<1>10. ASSUME NEW c \in Channel, MergeChannel(c) PROVE Promise'
  <2> DEFINE B == (bronze \cap InChannel(c) \cap OnDates(job.dates))
                    \ (IF job.kind = "legal" THEN InSilver ELSE {})
  <2>1. /\ pc["http"] = "job"
        /\ job' = [job EXCEPT !.merges = @ \ {c}]
    BY <1>10 DEF MergeChannel
  <2>2. /\ job'.goal = job.goal /\ job'.dates = job.dates
        /\ job'.kind = job.kind /\ job'.merges = job.merges \ {c}
    BY <2>1 DEF TypeOK
  <2>3. \A e \in job.goal : DateOf[e] \in job.dates /\ Underway(e)
    BY <2>1 DEF Promise
  <2>4. \A e \in job.goal : e \in Event
    BY DEF TypeOK
  <2>5. ASSUME NEW e \in job.goal, e \in bronze, e \in InChannel(c), e \notin InSilver
        PROVE  e \in B
    BY <2>3, <2>4, <2>5 DEF OnDates
  <2>6. CASE BeginMerge("http", B)
    <3>1. /\ pc'["http"] = "merging" /\ batch'["http"] = B
          /\ UNCHANGED <<bronze, silver>>
      BY <2>6 DEF BeginMerge, TypeOK, tableVars
    <3>2. \A e \in job.goal : Underway(e)'
      BY <2>1, <2>2, <2>3, <2>5, <3>1 DEF Underway, InSilver, InChannel
    <3> QED BY <2>2, <2>3, <3>1, <3>2 DEF Promise, Merging
  <2>7. CASE B = {} /\ UNCHANGED <<tableVars, threadVars, plan, active>>
    <3>1. \A e \in job.goal : Underway(e)'
      BY <2>1, <2>2, <2>3, <2>5, <2>7 DEF Underway, InSilver, InChannel, tableVars, threadVars
    <3> QED BY <2>1, <2>2, <2>3, <2>7, <3>1 DEF Promise, Merging, threadVars
  <2> QED BY <1>10, <2>6, <2>7 DEF MergeChannel
<1>11. ASSUME PickDates PROVE Promise'
  <2>1. /\ pc["http"] = "job" /\ pc'["http"] = "ready" /\ job.merges = {}
        /\ job'.dates = DatesOf(job.dates) /\ job'.goal = job.goal
        /\ job'.kind = job.kind /\ UNCHANGED silver
    BY <1>11 DEF PickDates, TypeOK, tableVars
  <2>2. \A e \in job.goal : DateOf[e] \in job.dates /\ e \in InSilver
    BY <2>1 DEF Promise, Underway
  <2>3. \A e \in job.goal : DateOf[e] \in DatesOf(job.dates)
    BY <2>2 DEF DatesOf, SilverDates
  <2> QED BY <2>1, <2>2, <2>3 DEF Promise, InSilver, Merging
<1>12. ASSUME BeginRefresh PROVE Promise'
  <2>1. /\ pc["http"] = "ready" /\ pc'["http"] \in {"refreshing", "done"}
        /\ pc'["http"] = "done" => job.dates = {}
        /\ UNCHANGED <<job, silver>>
    BY <1>12 DEF BeginRefresh, TypeOK, tableVars
  <2> QED BY <2>1 DEF Promise, InSilver, Merging
<1>13. ASSUME Compute PROVE Promise'
  <2>1. /\ pc["http"] = "refreshing" /\ pc'["http"] = "computed"
        /\ seen' = InSilver \cap OnDates(job.dates)
        /\ UNCHANGED <<job, silver>>
    BY <1>13 DEF Compute, TypeOK, tableVars
  <2>2. \A e \in job.goal : e \in seen'
    BY <2>1 DEF Promise, OnDates, TypeOK
  <2> QED BY <2>1, <2>2 DEF Promise, InSilver, Merging
<1>14. ASSUME Replace PROVE Promise'
  <2>1. /\ pc["http"] = "computed" /\ pc'["http"] = "replaced"
        /\ UNCHANGED <<job, silver>>
    BY <1>14 DEF Replace, TypeOK
  <2>2. ASSUME NEW e \in job.goal PROVE e \in counted'[GroupOf(e)]
    <3>1. GroupOf(e) \in Group /\ GroupOf(e)[1] \in job.dates /\ e \in seen
      BY <2>1, TableAssumption DEF Promise, GroupOf, Group, TypeOK
    <3> QED BY <1>14, <3>1 DEF Replace
  <2> QED BY <2>1, <2>2 DEF Promise, InSilver, Merging, GroupOf
<1>15. ASSUME EndRefresh PROVE Promise'
  BY <1>15 DEF EndRefresh, tableVars, Promise, InSilver, Merging, TypeOK, GroupOf
<1>16. ASSUME EndLegal PROVE Promise'
  BY <1>16 DEF EndLegal, tableVars, Promise, InSilver, Merging, TypeOK, GroupOf
<1>17. ASSUME Respond \/ JobFails \/ AnswerLost \/ NewProcess PROVE Promise'
  BY <1>17, IdlePromisesNothing DEF Respond, JobFails, AnswerLost, NewProcess, TypeOK
<1>18. ASSUME StreamFails PROVE Promise'
  BY <1>18, OthersKeepPromise DEF StreamFails, tableVars, InSilver, TypeOK
<1>19. ASSUME UNCHANGED vars PROVE Promise'
  BY <1>19, OthersKeepPromise DEF vars, tableVars, threadVars, InSilver
<1> QED
  BY <1>1, <1>2, <1>3, <1>4, <1>5, <1>6, <1>7, <1>8, <1>9, <1>10, <1>11,
     <1>12, <1>13, <1>14, <1>15, <1>16, <1>17, <1>18, <1>19
  DEF Next, Operation, Disruption, Job, Step, Restart, Crash

(* A backfill that answers has delivered its range, whatever ran beside it.*)
THEOREM Backfill == Spec => []BackfillDelivers
<1>1. Promise => BackfillDelivers
  BY DEF Promise, BackfillDelivers
<1> QED
  BY <1>1, TypeInit, TypeStep, OrderedInit, OrderedStep, PromiseInit,
     PromiseStep, PTL DEF Spec

-----------------------------------------------------------------------------
(***************************************************************************)
(* Gold as a view of Silver.  Two actions are visible in the tables: the   *)
(* commit of a merge, and the commit of a refresh.  The second writes what *)
(* the refresh aggregated earlier; the lock, through Ordered, makes that   *)
(* what Silver holds at the commit.                                        *)
(***************************************************************************)

(* The tables start empty.                                                 *)
LEMMA ViewInit == Init => View!Init
BY DEF Init, View!Init, InSilver, Group

(* A commit of Silver adds rows.                                           *)
LEMMA MergeIsMerge ==
  ASSUME TypeOK, Ordered, NEW t \in Thread, Merge(t)
  PROVE  View!Merge
<1>1. InSilver \subseteq InSilver'
  BY MergeAdds
<1>2. InSilver' \subseteq Event
  BY DEF InSilver
<1> QED BY <1>1, <1>2 DEF View!Merge, Merge

(* A commit of Gold is a refresh, from the Silver of that moment, of the   *)
(* dates of the job.                                                       *)
LEMMA ReplaceIsRefresh ==
  ASSUME TypeOK, Ordered, Replace
  PROVE  View!Refresh(job.dates)
<1>1. seen = InSilver \cap OnDates(job.dates)
  BY DEF Ordered, Replace
<1>2. ASSUME NEW g \in Group, g[1] \in job.dates
      PROVE  {e \in seen : GroupOf(e) = g} = View!RowsBehind(g[1], g[2])
  <2>1. g = <<g[1], g[2]>>
    BY DEF Group
  <2>2. \A e \in Event : GroupOf(e) = g <=> DateOf[e] = g[1] /\ SourceOf[e] = g[2]
    BY <2>1 DEF GroupOf
  <2> QED BY <1>1, <1>2, <2>2 DEF View!RowsBehind, InSilver, OnDates
<1>3. counted' = [g \in Group |->
        IF g[1] \in job.dates THEN {e \in seen : GroupOf(e) = g} ELSE counted[g]]
  BY DEF Replace
<1>4. counted' = [g \in Group |->
        IF g[1] \in job.dates THEN View!RowsBehind(g[1], g[2]) ELSE counted[g]]
  BY <1>2, <1>3
<1>5. UNCHANGED InSilver
  BY DEF Replace, InSilver
<1> QED BY <1>4, <1>5 DEF View!Refresh, Group

(* Every other step, and every failure, is invisible in the tables.        *)
LEMMA ViewStep ==
  TypeOK /\ Ordered /\ [Next]_vars => [View!Next]_<<InSilver, counted>>
<1> SUFFICES ASSUME TypeOK, Ordered, [Next]_vars
             PROVE  View!Next \/ UNCHANGED <<InSilver, counted>>
  OBVIOUS
<1>1. CASE Quiet
  BY <1>1 DEF Quiet, InSilver
<1>2. ASSUME NEW t \in Thread, Freeze(t) PROVE UNCHANGED <<InSilver, counted>>
  BY <1>2 DEF Freeze, tableVars, InSilver
<1>3. ASSUME NEW t \in Thread, Merge(t) PROVE View!Next
  BY <1>3, MergeIsMerge DEF View!Next
<1>4. CASE Compute
  BY <1>4 DEF Compute, tableVars, InSilver
<1>5. CASE Replace
  <2>1. job.dates \in SUBSET Date
    BY DEF TypeOK
  <2> QED BY <1>5, <2>1, ReplaceIsRefresh DEF View!Next
<1> QED BY <1>1, <1>2, <1>3, <1>4, <1>5, StepKinds

(* Aggregating Silver and replacing Gold are one step to a reader: the     *)
(* driver with its threads, locks and failures implements the view.        *)
THEOREM GoldIsAView == Spec => AtomicRefresh
BY ViewInit, ViewStep, TypeInit, TypeStep, OrderedInit, OrderedStep, PTL
DEF Spec, AtomicRefresh, View!Spec

\* An aggregate counts only rows of Silver, of its own date and source.
CountsSilver == \A g \in Group : counted[g] \subseteq RowsOf(g)

(* A view of a growing table counts only what the table holds, and more    *)
(* and more of it.                                                         *)
LEMMA CountsStep ==
  TypeOK /\ Ordered /\ CountsSilver /\ [Next]_vars
    => CountsSilver' /\ \A g \in Group : counted[g] \subseteq counted'[g]
<1> SUFFICES ASSUME TypeOK, Ordered, CountsSilver, [Next]_vars, NEW g \in Group
             PROVE  counted[g] \subseteq counted'[g] /\ (counted[g] \subseteq RowsOf(g))'
  BY DEF CountsSilver
<1>1. counted[g] \subseteq RowsOf(g)
  BY DEF CountsSilver
<1>2. CASE UNCHANGED <<InSilver, counted>>
  BY <1>1, <1>2 DEF RowsOf
<1>3. CASE View!Merge
  BY <1>1, <1>3 DEF View!Merge, RowsOf
<1>4. ASSUME NEW D \in SUBSET Date, View!Refresh(D)
      PROVE  counted[g] \subseteq counted'[g] /\ (counted[g] \subseteq RowsOf(g))'
  <2>1. RowsOf(g)' = RowsOf(g)
    BY <1>4 DEF View!Refresh, RowsOf
  <2>2. View!RowsBehind(g[1], g[2]) = RowsOf(g)
    <3>1. g = <<g[1], g[2]>>
      BY DEF Group
    <3> QED BY <3>1 DEF View!RowsBehind, RowsOf, GroupOf
  <2>3. counted'[g] = IF g[1] \in D THEN RowsOf(g) ELSE counted[g]
    BY <1>4, <2>2 DEF View!Refresh, Group
  <2> QED BY <1>1, <2>1, <2>3
<1> QED BY <1>2, <1>3, <1>4, ViewStep DEF View!Next

(* The counts of the dashboards never fall: no repeated request, backfill  *)
(* or restart takes a row from behind its aggregate.                       *)
THEOREM CountsNeverFall ==
  Spec => [][\A g \in Group : counted[g] \subseteq counted'[g]]_vars
<1>1. Init => CountsSilver
  BY DEF Init, CountsSilver
<1>2. TypeOK /\ Ordered /\ CountsSilver /\ [Next]_vars
        => [\A g \in Group : counted[g] \subseteq counted'[g]]_vars
  BY CountsStep
<1>3. TypeOK /\ Ordered /\ CountsSilver /\ [Next]_vars => CountsSilver'
  BY CountsStep
<1> QED
  BY <1>1, <1>2, <1>3, TypeInit, TypeStep, OrderedInit, OrderedStep, PTL DEF Spec

\* An aggregate exists when it counts a row, and a refresh that is about to
\* replace it carries a later time.
Timed ==
  /\ \A g \in Group : updated[g] = 0 <=> counted[g] = {}
  /\ pc["http"] = "computed" =>
       stamp["http"] # 0 /\ \A g \in Group : updated[g] < stamp["http"]

(* The aggregates keep their times but in a refresh, which gives them its  *)
(* own.                                                                    *)
LEMMA TimedStep ==
  TypeOK /\ Ordered /\ CountsSilver /\ Timed /\ [Next]_vars
    => Timed' /\ \A g \in Group : updated[g] <= updated'[g]
<1> SUFFICES ASSUME TypeOK, Ordered, CountsSilver, Timed, [Next]_vars
             PROVE  Timed' /\ \A g \in Group : updated[g] <= updated'[g]
  OBVIOUS
<1>t. (\A g \in Group : updated[g] \in Nat) /\ stamp["http"] \in Nat /\ clock \in Nat
  BY DEF TypeOK, Thread
<1>1. CASE Quiet
  BY <1>t, <1>1 DEF Quiet, Timed
<1>2. ASSUME NEW t \in Thread, Freeze(t)
      PROVE  Timed' /\ \A g \in Group : updated[g] <= updated'[g]
  <2>1. pc'["http"] # "computed"
    BY <1>2, MutualExclusion
    DEF Freeze, Goto, TypeOK, Thread, Section, Merging, Refreshing
  <2> QED BY <1>t, <1>2, <2>1 DEF Freeze, Timed, tableVars
<1>3. ASSUME NEW t \in Thread, Merge(t)
      PROVE  Timed' /\ \A g \in Group : updated[g] <= updated'[g]
  <2>1. pc'["http"] # "computed"
    BY <1>3, MutualExclusion
    DEF Merge, Goto, TypeOK, Thread, Section, Merging, Refreshing
  <2> QED BY <1>t, <1>3, <2>1 DEF Merge, Timed
<1>4. CASE Compute
  <2>1. stamp'["http"] = clock + 1 /\ UNCHANGED <<counted, updated>>
    BY <1>4 DEF Compute, TakeTime, TypeOK, Thread, tableVars
  <2>2. \A g \in Group : updated[g] <= clock
    BY DEF Ordered
  <2>3. clock + 1 # 0 /\ \A g \in Group : updated[g] < clock + 1
    BY <1>t, <2>2
  <2>4. Timed'
    BY <2>1, <2>3 DEF Timed
  <2> QED BY <1>t, <2>1, <2>4
<1>5. CASE Replace
  <2>1. pc'["http"] # "computed"
    BY <1>5 DEF Replace, Goto, TypeOK, Thread
  <2>2. ASSUME NEW g \in Group
        PROVE  /\ updated'[g] = 0 <=> counted'[g] = {}
               /\ updated[g] <= updated'[g]
    <3> DEFINE rows == {e \in seen : GroupOf(e) = g}
    <3>1. CASE g[1] \in job.dates
      <4>1. /\ counted'[g] = rows
            /\ updated'[g] = IF rows = {} THEN 0 ELSE stamp["http"]
        BY <1>5, <3>1 DEF Replace
      <4>2. stamp["http"] # 0 /\ updated[g] < stamp["http"]
            /\ (updated[g] = 0 <=> counted[g] = {})
        BY <1>5 DEF Replace, Timed
      <4>3. counted[g] \subseteq counted'[g]
        BY CountsStep
      <4> QED BY <1>t, <4>1, <4>2, <4>3
    <3>2. CASE g[1] \notin job.dates
      <4>1. counted'[g] = counted[g] /\ updated'[g] = updated[g]
        BY <1>5, <3>2 DEF Replace
      <4> QED BY <1>t, <4>1 DEF Timed
    <3> QED BY <3>1, <3>2
  <2> QED BY <2>1, <2>2 DEF Timed
<1> QED BY <1>1, <1>2, <1>3, <1>4, <1>5, StepKinds

(* gold_updated_at never goes back, and no aggregate disappears: what      *)
(* freshness() and touched() compare Silver with only moves forward.       *)
THEOREM AggregatesAdvance ==
  Spec => [][\A g \in Group : updated[g] <= updated'[g]]_vars
<1>1. Init => CountsSilver /\ Timed
  BY DEF Init, CountsSilver, Timed, Thread
<1>2. TypeOK /\ Ordered /\ CountsSilver /\ Timed /\ [Next]_vars
        => CountsSilver' /\ Timed'
  BY CountsStep, TimedStep
<1>3. TypeOK /\ Ordered /\ CountsSilver /\ Timed /\ [Next]_vars
        => [\A g \in Group : updated[g] <= updated'[g]]_vars
  BY TimedStep
<1> QED
  BY <1>1, <1>2, <1>3, TypeInit, TypeStep, OrderedInit, OrderedStep, PTL DEF Spec
=============================================================================
