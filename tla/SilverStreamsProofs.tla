------------------------ MODULE SilverStreamsProofs -------------------------
(***************************************************************************)
(* The streams of one channel, for any topic, any ids and kinds of its     *)
(* records and any number of backfills: Bronze is the topic, nothing is    *)
(* lost or doubled on the way to Silver, and duplicates raise their alert. *)
(***************************************************************************)
EXTENDS SilverStreams, FiniteSetTheorems, SequenceTheorems, TLAPS

-----------------------------------------------------------------------------
(* Operators.                                                              *)

\* Two of the rows have one event_id.
Repeats(V) == \E r, q \in V : r # q /\ IdOf[r] = IdOf[q]

(* Fewer event_ids than rows are reported exactly when two rows share one. *)
LEMMA RepeatsCounted ==
  ASSUME NEW V \in SUBSET Row
  PROVE  Cardinality(IdsOf(V)) < Cardinality(V) <=> Repeats(V)
<1> DEFINE f == [r \in V |-> IdOf[r]]
<1>1. IsFiniteSet(V)
  <2>1. IsFiniteSet(Row)
    BY RowAssumption, FS_Interval DEF Row
  <2> QED BY <2>1, FS_Subset
<1>2. f \in Surjection(V, IdsOf(V))
  BY DEF Surjection, IdsOf
<1>3. /\ IsFiniteSet(IdsOf(V))
      /\ Cardinality(IdsOf(V)) <= Cardinality(V)
      /\ Cardinality(IdsOf(V)) = Cardinality(V) <=> f \in Injection(V, IdsOf(V))
  <2> HIDE DEF f
  <2> QED BY <1>1, <1>2, FS_Surjection
<1>4. Cardinality(V) \in Nat /\ Cardinality(IdsOf(V)) \in Nat
  BY <1>1, <1>3, FS_CardinalityType
<1>5. f \in Injection(V, IdsOf(V)) <=> ~Repeats(V)
  BY <1>2 DEF Injection, IsInjective, Surjection, Repeats
<1> QED
  BY <1>3, <1>4, <1>5

(* A part of Bronze, when Bronze is the topic.                             *)
LEMMA RowsBetween ==
  ASSUME NEW b \in Seq(Row), \A i \in 1..Len(b) : b[i] = i,
         NEW m \in Nat, NEW n \in Nat, n <= Len(b)
  PROVE  ToSet(SubSeq(b, m + 1, n)) = (m + 1)..n
<1> DEFINE s == SubSeq(b, m + 1, n)
<1>1. Len(b) \in Nat /\ \A i \in (m + 1)..n : b[i] \in Row
  BY LenProperties, ElementOfSeq
<1>2. /\ s \in Seq(Row)
      /\ Len(s) = IF m + 1 <= n THEN n - m ELSE 0
      /\ \A i \in 1..(n - m) : s[i] = b[m + i]
  BY <1>1, SubSeqProperties
<1>3. DOMAIN s = 1..Len(s)
  BY <1>2, LenProperties
<1> HIDE DEF s
<1>4. ASSUME NEW k \in (m + 1)..n PROVE \E i \in DOMAIN s : s[i] = k
  <2>1. k - m \in DOMAIN s /\ s[k - m] = b[m + (k - m)]
    BY <1>2, <1>3
  <2>2. m + (k - m) = k /\ b[k] = k
    BY <1>1
  <2> QED
    BY <2>1, <2>2
<1>5. ASSUME NEW i \in DOMAIN s PROVE s[i] \in (m + 1)..n
  <2>1. i \in 1..(n - m) /\ m + i \in (m + 1)..n
    BY <1>2, <1>3, <1>5
  <2>2. s[i] = b[m + i] /\ b[m + i] = m + i
    BY <1>1, <1>2, <2>1
  <2> QED
    BY <2>1, <2>2
<1>6. ToSet(s) = (m + 1)..n
  BY <1>4, <1>5 DEF ToSet
<1> QED
  BY <1>6 DEF s

-----------------------------------------------------------------------------
(* The inductive invariant.                                                *)

\* The logs of the two queries: batches are numbered by and planned behind their
\* commits; the table has the planned batch exactly if it has its txnVersion.
Logs ==
  /\ \A q \in Query : batchId[q] <= from[q] + 1 /\ from[q] <= to[q]
  /\ to["ingest"] <= topic
  /\ to["merge"] <= Len(bronze)
  /\ version <= batchId["ingest"]
  /\ version = batchId["ingest"] => from["ingest"] < to["ingest"]
  /\ Len(bronze) = IF version = batchId["ingest"] THEN to["ingest"] ELSE from["ingest"]

\* A micro-batch in the section is the planned one ...
Planned ==
  step # "idle" /\ run[1] = "stream" =>
    /\ run = <<"stream", batchId["merge"]>>
    /\ from["merge"] < to["merge"]
    /\ batch = (from["merge"] + 1)..to["merge"]

\* ... what fails a check by now failed it when the rows were checked ...
Checked ==
  /\ failed \subseteq batch
  /\ \A r \in batch : Fails(r) => r \in failed

\* ... and each step that is behind has done its work.
Written ==
  /\ step \in {"results", "alerts", "merge", "end"} => {run} \X failed \subseteq quarantine
  /\ step = "end" => IdsOf(Valid) \subseteq IdsOf(silver)

\* The rows of the planned batch that no repetition of it will reject ...
Sure ==
  IF step # "idle" /\ run[1] = "stream" THEN Valid
  ELSE {r \in (from["merge"] + 1)..to["merge"] : ~Fails(r)}

Duplicate == {"in_batch", "already"}

Found(c, V, S) ==
  IF c = "in_batch" THEN Repeats(V) ELSE IdsOf(V) \cap IdsOf(S) # {}

\* ... so that a duplicate that is recorded but not alerted will be found again.
RedPending ==
  \A n \in 0..Rows, c \in Duplicate :
    results[<<<<"stream", n>>, c>>] = "RED" =>
      \/ <<<<"stream", n>>, c>> \in alerts
      \/ n = batchId["merge"] /\ Found(c, Sure, silver)

RedSent ==
  step \in {"merge", "end"} /\ run[1] = "stream" =>
    \A c \in Duplicate : results[<<run, c>>] = "RED" => <<run, c>> \in alerts

IInv ==
  /\ TypeOK /\ Logs /\ BronzeIsTopic
  /\ Planned /\ Checked /\ Written
  /\ PassedIsAccountedFor /\ OneRowPerEvent
  /\ RedPending /\ RedSent

(* The invariant holds of the empty channel.                               *)
LEMMA IInvInit == Init => IInv
<1> SUFFICES ASSUME Init PROVE IInv
  OBVIOUS
<1>1. bronze \in Seq(Row) /\ Len(bronze) = 0
  BY DEF Init
<1>2. NoRun \in Run
  BY RowAssumption DEF Run, NoRun
<1>3. TypeOK
  <2>1. /\ 0 \in 0..Rows /\ 1 \in 1..(Rows + 1) /\ 0 \in 0..MaxBackfills
        /\ retired \in 0..Len(bronze)
    BY <1>1, RowAssumption DEF Init
  <2>2. /\ from \in [Query -> 0..Rows]
        /\ to \in [Query -> 0..Rows]
        /\ batchId \in [Query -> 1..(Rows + 1)]
        /\ results \in [Run \X Check -> {"none", "GREEN", "RED"}]
    BY <2>1 DEF Init
  <2> QED
    BY <1>1, <1>2, <2>1, <2>2 DEF Init, TypeOK
<1>4. Logs /\ BronzeIsTopic
  BY <1>1 DEF Init, Logs, BronzeIsTopic, Query
<1>5. Planned /\ Checked /\ Written /\ PassedIsAccountedFor /\ OneRowPerEvent
  BY DEF Init, Planned, Checked, Written, PassedIsAccountedFor, OneRowPerEvent, Query
<1>6. RedPending /\ RedSent
  <2>1. \A n \in 0..Rows, c \in Duplicate : <<<<"stream", n>>, c>> \in Run \X Check
    BY DEF Duplicate, Run, Check
  <2>2. step = "idle" /\ \A k \in Run \X Check : results[k] = "none"
    BY DEF Init
  <2> QED
    BY <2>1, <2>2 DEF RedPending, RedSent
<1> QED
  BY <1>3, <1>4, <1>5, <1>6 DEF IInv

-----------------------------------------------------------------------------
(* Types, logs and Bronze.                                                 *)

(* The run of a planned batch, and of a backfill, has a name.              *)
LEMMA RunNames ==
  ASSUME TypeOK, Logs
  PROVE  /\ from["merge"] < to["merge"] => <<"stream", batchId["merge"]>> \in Run
         /\ NoRun \in Run
         /\ \A n \in 1..MaxBackfills : <<"backfill", n>> \in Run
<1>1. batchId["merge"] \in Nat /\ batchId["merge"] <= from["merge"] + 1
      /\ from["merge"] \in 0..Rows /\ to["merge"] \in 0..Rows
  BY DEF TypeOK, Logs, Query
<1>2. from["merge"] < to["merge"] => batchId["merge"] \in 0..Rows
  BY <1>1, RowAssumption
<1> QED
  BY <1>2, RowAssumption DEF Run, NoRun

(* Bronze is a sequence of rows, its parts are sets of them.               *)
LEMMA BatchRows ==
  ASSUME TypeOK, Logs, BronzeIsTopic
  PROVE  /\ ToSet(SubSeq(bronze, from["merge"] + 1, to["merge"]))
              = (from["merge"] + 1)..to["merge"]
         /\ (from["merge"] + 1)..to["merge"] \subseteq Row
         /\ Replayable = (retired + 1)..Len(bronze)
         /\ Replayable \subseteq Row
         /\ Len(bronze) \in 0..Rows
<1>1. /\ from["merge"] \in 0..Rows /\ to["merge"] \in 0..Rows /\ topic \in 0..Rows
      /\ bronze \in Seq(Row) /\ retired \in 0..Len(bronze)
      /\ to["merge"] <= Len(bronze) /\ Len(bronze) <= topic
      /\ \A i \in 1..Len(bronze) : bronze[i] = i
  BY DEF TypeOK, Logs, BronzeIsTopic, Query
<1>2. Len(bronze) \in Nat
  BY <1>1, LenProperties
<1>3. ToSet(SubSeq(bronze, from["merge"] + 1, to["merge"])) = (from["merge"] + 1)..to["merge"]
  BY <1>1, RowsBetween, RowAssumption
<1>4. Replayable = (retired + 1)..Len(bronze)
  BY <1>1, <1>2, RowsBetween DEF Replayable
<1> QED
  BY <1>1, <1>2, <1>3, <1>4, RowAssumption DEF Row

(* A planned batch of records is appended behind the rows that are there.  *)
LEMMA AppendStep ==
  ASSUME TypeOK, Logs, BronzeIsTopic, AppendBronze
  PROVE  /\ bronze' \in Seq(Row)
         /\ Len(bronze') = to["ingest"]
         /\ \A i \in 1..Len(bronze') : bronze'[i] = i
         /\ \A i \in 1..Len(bronze) : bronze'[i] = bronze[i]
         /\ Len(bronze) = from["ingest"]
<1> DEFINE new == [i \in 1..(to["ingest"] - from["ingest"]) |-> from["ingest"] + i]
<1>1. /\ from["ingest"] \in 0..Rows /\ to["ingest"] \in 0..Rows
      /\ from["ingest"] < to["ingest"]
      /\ bronze \in Seq(Row) /\ Len(bronze) = from["ingest"]
      /\ \A i \in 1..Len(bronze) : bronze[i] = i
      /\ bronze' = bronze \o new
  BY RowAssumption DEF TypeOK, Logs, BronzeIsTopic, AppendBronze, Query
<1>2. /\ to["ingest"] - from["ingest"] \in Nat
      /\ \A i \in 1..(to["ingest"] - from["ingest"]) : from["ingest"] + i \in Row
  BY <1>1, RowAssumption DEF Row
<1>3. new \in Seq(Row) /\ Len(new) = to["ingest"] - from["ingest"]
  BY <1>2, IsASeq
<1>4. /\ bronze' \in Seq(Row)
      /\ Len(bronze') = Len(bronze) + Len(new)
      /\ \A i \in 1..(Len(bronze) + Len(new)) :
           bronze'[i] = IF i <= Len(bronze) THEN bronze[i] ELSE new[i - Len(bronze)]
  <2> HIDE DEF new
  <2> QED BY <1>1, <1>3, ConcatProperties
<1>5. Len(bronze') = to["ingest"]
  BY <1>1, <1>3, <1>4, RowAssumption
<1>6. ASSUME NEW i \in 1..Len(bronze') PROVE bronze'[i] = i
  <2>1. CASE i <= Len(bronze)
    BY <1>1, <1>3, <1>4, <1>5, <2>1
  <2>2. CASE i > Len(bronze)
    <3>1. i - from["ingest"] \in 1..(to["ingest"] - from["ingest"])
      BY <1>1, <1>5, <2>2
    <3>2. new[i - from["ingest"]] = i
      BY <1>1, <3>1
    <3> HIDE DEF new
    <3>3. bronze'[i] = new[i - Len(bronze)]
      BY <1>1, <1>3, <1>4, <1>5, <2>2
    <3> QED
      BY <1>1, <3>2, <3>3
  <2> QED BY <1>1, <1>5, <2>1, <2>2
<1> QED
  BY <1>1, <1>4, <1>5, <1>6, RowAssumption

(* Recording a planned batch of either query keeps types and logs.         *)
LEMMA CommittedStep ==
  ASSUME TypeOK, Logs, NEW q \in Query, from[q] < to[q], Committed(q)
  PROVE  /\ from' \in [Query -> 0..Rows]
         /\ to' \in [Query -> 0..Rows]
         /\ batchId' \in [Query -> 1..(Rows + 1)]
         /\ \A p \in Query : batchId'[p] <= from'[p] + 1 /\ from'[p] <= to'[p]
<1>1. /\ from[q] \in 0..Rows /\ to[q] \in 0..Rows /\ batchId[q] \in 1..(Rows + 1)
      /\ batchId[q] <= from[q] + 1
  BY DEF TypeOK, Logs
<1>2. batchId[q] + 1 \in 1..(Rows + 1) /\ batchId[q] + 1 <= to[q] + 1
  BY <1>1, RowAssumption
<1>3. /\ from' \in [Query -> 0..Rows] /\ to' \in [Query -> 0..Rows]
      /\ batchId' \in [Query -> 1..(Rows + 1)]
  BY <1>1, <1>2 DEF Committed, TypeOK
<1>4. ASSUME NEW p \in Query
      PROVE batchId'[p] <= from'[p] + 1 /\ from'[p] <= to'[p]
  <2>1. CASE p = q
    BY <1>1, <1>2, <2>1 DEF Committed, TypeOK
  <2>2. CASE p # q
    BY <2>2 DEF Committed, TypeOK, Logs
  <2> QED BY <2>1, <2>2
<1> QED
  BY <1>3, <1>4

(* Entering the section keeps the types.                                   *)
LEMMA BeginType ==
  ASSUME TypeOK, NEW id \in Run, NEW B \in SUBSET Row, Begin(id, B),
         backfills' \in 0..MaxBackfills
  PROVE  TypeOK'
  BY DEF Begin, TypeOK, tableVars, bronzeVars, queryVars

\* The steps that leave topic, logs and Bronze alone.
Aside == UNCHANGED <<topic, bronzeVars, queryVars>>

LEMMA AsideStep ==
  ASSUME Logs, BronzeIsTopic, Aside PROVE Logs' /\ BronzeIsTopic'
  BY DEF Logs, BronzeIsTopic, Aside, bronzeVars, queryVars

(* Every step keeps types, logs and Bronze.                                *)
LEMMA BaseStep == IInv /\ [Next]_vars => TypeOK' /\ Logs' /\ BronzeIsTopic'
<1> SUFFICES ASSUME IInv, [Next]_vars PROVE TypeOK' /\ Logs' /\ BronzeIsTopic'
  OBVIOUS
<1> USE DEF IInv
<1>q. "ingest" \in Query /\ "merge" \in Query
  BY DEF Query
<1>l. /\ Len(bronze) \in Nat /\ topic \in 0..Rows
      /\ from["ingest"] \in 0..Rows /\ to["ingest"] \in 0..Rows
      /\ from["merge"] \in 0..Rows /\ to["merge"] \in 0..Rows
      /\ batchId["ingest"] \in 1..(Rows + 1) /\ version \in 0..Rows
  BY <1>q, LenProperties DEF TypeOK
<1>publish. CASE Publish
  <2>1. topic' = topic + 1 /\ topic' \in 0..Rows
    BY <1>publish, <1>l, RowAssumption DEF Publish
  <2>2. TypeOK'
    BY <1>publish, <2>1
    DEF Publish, TypeOK, tableVars, bronzeVars, queryVars, sectionVars
  <2>3. topic <= topic'
    BY <1>l, <2>1
  <2> QED
    BY <1>publish, <1>l, <2>1, <2>2, <2>3
    DEF Publish, Logs, BronzeIsTopic, tableVars, bronzeVars, queryVars
<1>time. CASE TimePasses
  <2>1. Aside
    BY <1>time DEF TimePasses, Aside, tableVars
  <2> QED
    BY <1>time, <2>1, AsideStep DEF TimePasses, TypeOK, tableVars, bronzeVars, queryVars, sectionVars
<1>retire. CASE Retire
  <2>1. retired' \in 0..Len(bronze)
    BY <1>retire, <1>l DEF Retire, TypeOK
  <2> QED
    BY <1>retire, <2>1 DEF Retire, TypeOK, Logs, BronzeIsTopic, queryVars, sectionVars
<1>plan. ASSUME NEW q \in Query, Plan(q) PROVE TypeOK' /\ Logs' /\ BronzeIsTopic'
  <2>1. PICK end \in (from[q] + 1)..Available(q) : to' = [to EXCEPT ![q] = end]
    BY <1>plan DEF Plan
  <2>2. from[q] \in Nat /\ to[q] = from[q] /\ Available(q) <= Rows /\ Available(q) \in Nat
    BY <1>plan, <1>l, RowAssumption DEF Plan, TypeOK, Available, BronzeIsTopic
  <2>3. end \in 0..Rows /\ from[q] < end /\ end <= Available(q)
    BY <2>1, <2>2, RowAssumption
  <2>4. TypeOK'
    BY <1>plan, <2>1, <2>3 DEF Plan, TypeOK, tableVars, bronzeVars, sectionVars
  <2>5. CASE q = "ingest"
    <3>1. to'["ingest"] = end /\ to'["merge"] = to["merge"]
      BY <1>q, <2>1, <2>5 DEF TypeOK
    <3>2. \A p \in Query : from[p] <= to'[p]
      BY <1>l, <2>2, <2>3, <2>5, <3>1 DEF Query, Logs
    <3> QED
      BY <1>plan, <1>l, <2>2, <2>3, <2>4, <2>5, <3>1, <3>2
      DEF Plan, Logs, BronzeIsTopic, Available, tableVars, bronzeVars
  <2>6. CASE q = "merge"
    <3>1. to'["merge"] = end /\ to'["ingest"] = to["ingest"]
      BY <1>q, <2>1, <2>6 DEF TypeOK
    <3>2. \A p \in Query : from[p] <= to'[p]
      BY <1>l, <2>2, <2>3, <2>6, <3>1 DEF Query, Logs
    <3> QED
      BY <1>plan, <1>l, <2>2, <2>3, <2>4, <2>6, <3>1, <3>2
      DEF Plan, Logs, BronzeIsTopic, Available, tableVars, bronzeVars
  <2> QED
    BY <2>4, <2>5, <2>6 DEF Query
<1>append. CASE AppendBronze
  <2>1. version' = batchId["ingest"] /\ version' \in 0..Rows
    BY <1>append, <1>q, <1>l, RowAssumption DEF AppendBronze, Logs
  <2>2. /\ bronze' \in Seq(Row) /\ Len(bronze') = to["ingest"]
        /\ \A i \in 1..Len(bronze') : bronze'[i] = i
        /\ Len(bronze) = from["ingest"] /\ from["ingest"] < to["ingest"]
    BY <1>append, AppendStep DEF AppendBronze
  <2>3. retired' \in 0..Len(bronze')
    BY <1>append, <1>l, <2>2 DEF AppendBronze, TypeOK
  <2>4. TypeOK'
    BY <1>append, <2>1, <2>2, <2>3 DEF AppendBronze, TypeOK, queryVars, sectionVars
  <2>5. /\ to["ingest"] <= topic /\ to["merge"] <= Len(bronze')
    BY <1>l, <2>2 DEF Logs
  <2>6. from' = from /\ to' = to /\ batchId' = batchId /\ topic' = topic
    BY <1>append DEF AppendBronze, queryVars
  <2>7. BronzeIsTopic'
    BY <2>2, <2>5, <2>6 DEF BronzeIsTopic
  <2>8. Logs'
    <3>1. version' <= batchId'["ingest"] /\ from'["ingest"] < to'["ingest"]
      BY <1>l, <2>1, <2>2, <2>6
    <3> QED
      BY <2>1, <2>2, <2>5, <2>6, <3>1 DEF Logs
  <2> QED
    BY <2>4, <2>7, <2>8
<1>commit. CASE CommitIngest
  <2>1. from["ingest"] < to["ingest"]
    BY <1>commit, <1>l DEF CommitIngest
  <2>2. /\ from' \in [Query -> 0..Rows] /\ to' \in [Query -> 0..Rows]
        /\ batchId' \in [Query -> 1..(Rows + 1)]
        /\ \A p \in Query : batchId'[p] <= from'[p] + 1 /\ from'[p] <= to'[p]
    BY <1>commit, <1>q, <2>1, CommittedStep DEF CommitIngest
  <2>3. TypeOK'
    BY <1>commit, <2>2 DEF CommitIngest, TypeOK, tableVars, bronzeVars, sectionVars
  <2>4. /\ from'["ingest"] = to["ingest"] /\ to' = to
        /\ batchId'["ingest"] = batchId["ingest"] + 1
        /\ version = batchId["ingest"]
    BY <1>commit, <1>q DEF CommitIngest, Committed, TypeOK
  <2> QED
    BY <1>commit, <1>l, <2>2, <2>3, <2>4
    DEF CommitIngest, Logs, BronzeIsTopic, tableVars, bronzeVars
<1>begin. CASE BeginBatch
  <2>1. from["merge"] < to["merge"]
    BY <1>begin, <1>l DEF BeginBatch
  <2>2. TypeOK'
    BY <1>begin, <2>1, RunNames, BatchRows, BeginType DEF BeginBatch, TypeOK
  <2> QED
    BY <1>begin, <2>2, AsideStep DEF BeginBatch, Begin, Aside, tableVars
<1>backfill. CASE BeginBackfill
  <2>1. backfills' \in 1..MaxBackfills
    BY <1>backfill, RowAssumption DEF BeginBackfill, TypeOK
  <2>2. backfills' \in 0..MaxBackfills /\ <<"backfill", backfills'>> \in Run
    BY <2>1, RunNames, RowAssumption
  <2>3. Begin(<<"backfill", backfills'>>, Replayable)
    BY <1>backfill DEF BeginBackfill
  <2>4. Replayable \in SUBSET Row
    BY BatchRows
  <2>5. TypeOK'
    BY <2>2, <2>3, <2>4, BeginType
  <2> QED
    BY <2>3, <2>5, AsideStep DEF Begin, Aside, tableVars
<1>quarantine. CASE Quarantine
  <2>1. quarantine' \in SUBSET (Run \X Row)
    BY <1>quarantine DEF Quarantine, TypeOK
  <2> QED
    BY <1>quarantine, <2>1, AsideStep DEF Quarantine, TypeOK, Aside, bronzeVars, queryVars
<1>results. CASE RecordResults
  <2>1. \A c : Status(c) \in {"GREEN", "RED"}
    BY DEF Status
  <2>2. results' \in [Run \X Check -> {"none", "GREEN", "RED"}]
    BY <1>results, <2>1 DEF RecordResults, TypeOK
  <2> QED
    BY <1>results, <2>2, AsideStep DEF RecordResults, TypeOK, Aside, bronzeVars, queryVars
<1>alerts. CASE EmitAlerts
  <2>1. Measured \subseteq Check
    BY DEF Measured, Check
  <2>2. alerts' \in SUBSET (Run \X Check)
    BY <1>alerts, <2>1 DEF EmitAlerts, TypeOK
  <2> QED
    BY <1>alerts, <2>2, AsideStep DEF EmitAlerts, TypeOK, Aside, bronzeVars, queryVars
<1>merge. CASE MergeSilver
  <2>1. silver' \in SUBSET Row
    BY <1>merge DEF MergeSilver, TypeOK, Valid
  <2> QED
    BY <1>merge, <2>1, AsideStep DEF MergeSilver, TypeOK, Aside, bronzeVars, queryVars
<1>end. CASE End
  <2>1. NoRun \in Run
    BY RunNames
  <2>2. CASE run[1] = "stream"
    <3>1. from["merge"] < to["merge"] /\ Committed("merge")
      BY <1>end, <2>2 DEF End, Planned
    <3>2. /\ from' \in [Query -> 0..Rows] /\ to' \in [Query -> 0..Rows]
          /\ batchId' \in [Query -> 1..(Rows + 1)]
          /\ \A p \in Query : batchId'[p] <= from'[p] + 1 /\ from'[p] <= to'[p]
      BY <1>q, <3>1, CommittedStep
    <3>3. TypeOK'
      BY <1>end, <2>1, <3>2 DEF End, LeaveSection, TypeOK, tableVars, bronzeVars
    <3>4. to' = to /\ from'["ingest"] = from["ingest"] /\ batchId'["ingest"] = batchId["ingest"]
      BY <1>q, <3>1 DEF Committed, TypeOK
    <3> QED
      BY <1>end, <3>2, <3>3, <3>4 DEF End, Logs, BronzeIsTopic, tableVars, bronzeVars
  <2>3. CASE run[1] # "stream"
    BY <1>end, <2>1, <2>3, AsideStep
    DEF End, LeaveSection, TypeOK, Aside, tableVars, bronzeVars, queryVars
  <2> QED BY <2>2, <2>3
<1>interrupt. CASE Interrupt
  <2>1. NoRun \in Run
    BY RunNames
  <2> QED
    BY <1>interrupt, <2>1, AsideStep
    DEF Interrupt, LeaveSection, TypeOK, Aside, tableVars, bronzeVars, queryVars
<1>idle. CASE UNCHANGED vars
  BY <1>idle, AsideStep
  DEF vars, TypeOK, Aside, tableVars, bronzeVars, queryVars, sectionVars
<1> QED
  BY <1>q, <1>publish, <1>time, <1>retire, <1>plan, <1>append, <1>commit, <1>begin,
     <1>backfill, <1>quarantine, <1>results, <1>alerts, <1>merge, <1>end, <1>interrupt,
     <1>idle
  DEF Next, Operation, Disruption, Ingest, Validate

-----------------------------------------------------------------------------
(* The section.                                                            *)

(* Time does not make a row fail.                                          *)
LEMMA FailsLess ==
  ASSUME [Next]_vars, NEW r, Fails(r)' PROVE Fails(r)
<1>1. due => due'
  BY DEF Next, Operation, Disruption, Ingest, Validate, Publish, TimePasses, Retire,
     Plan, AppendBronze, CommitIngest, BeginBatch, BeginBackfill, Begin, Quarantine,
     RecordResults, EmitAlerts, MergeSilver, End, Interrupt, vars
<1> QED
  BY <1>1 DEF Fails

\* The steps that leave the section, and what it has written, alone.
Outside ==
  /\ UNCHANGED <<sectionVars, quarantine, results, alerts, silver>>
  /\ UNCHANGED from["merge"] /\ UNCHANGED batchId["merge"]

(* Which step is which.                                                    *)
LEMMA Steps ==
  ASSUME IInv, [Next]_vars
  PROVE  \/ Outside /\ UNCHANGED to["merge"] /\ UNCHANGED backfills
         \/ Outside /\ Plan("merge")
         \/ Validate \/ Interrupt \/ BeginBackfill
<1>1. "ingest" # "merge" /\ "ingest" \in Query /\ "merge" \in Query
  BY DEF Query
<1>2. from \in [Query -> 0..Rows] /\ batchId \in [Query -> 1..(Rows + 1)]
      /\ to \in [Query -> 0..Rows]
  BY DEF IInv, TypeOK
<1>3. CASE Publish \/ TimePasses \/ Retire \/ AppendBronze \/ UNCHANGED vars
  BY <1>3
  DEF Publish, TimePasses, Retire, AppendBronze, Outside, vars, tableVars, queryVars,
      bronzeVars
<1>4. CASE CommitIngest
  BY <1>1, <1>2, <1>4 DEF CommitIngest, Committed, Outside, tableVars
<1>5. CASE Plan("ingest")
  BY <1>1, <1>2, <1>5 DEF Plan, Outside, tableVars
<1>6. CASE Plan("merge")
  BY <1>6 DEF Plan, Outside, tableVars
<1> QED
  BY <1>3, <1>4, <1>5, <1>6 DEF Next, Operation, Disruption, Ingest

(* Each step of the section starts from the planned batch and leaves its   *)
(* work done.                                                              *)
LEMMA SectionStep == IInv /\ [Next]_vars => Planned' /\ Checked' /\ Written'
<1> SUFFICES ASSUME IInv, [Next]_vars PROVE Planned' /\ Checked' /\ Written'
  OBVIOUS
<1> USE DEF IInv
<1>outside. ASSUME Outside, UNCHANGED to["merge"] PROVE Planned' /\ Checked' /\ Written'
  BY <1>outside, FailsLess
  DEF Outside, sectionVars, Planned, Checked, Written, Valid, IdsOf
<1>plan. CASE Outside /\ Plan("merge")
  <2>1. ~(from["merge"] < to["merge"])
    BY <1>plan DEF Plan, TypeOK, Query
  <2>2. ~(step # "idle" /\ run[1] = "stream")
    BY <2>1 DEF Planned
  <2>3. Planned'
    BY <1>plan, <2>2 DEF Outside, sectionVars, Planned
  <2>4. Checked'
    BY <1>plan, FailsLess DEF Outside, sectionVars, Checked
  <2>5. Written'
    BY <1>plan DEF Outside, sectionVars, Written, Valid, IdsOf
  <2> QED
    BY <2>3, <2>4, <2>5
<1>begin. CASE BeginBatch
  <2>1. from["merge"] < to["merge"]
    BY <1>begin DEF BeginBatch, TypeOK, Query
  <2>2. Begin(<<"stream", batchId["merge"]>>, (from["merge"] + 1)..to["merge"])
    BY <1>begin, BatchRows DEF BeginBatch
  <2> QED
    BY <2>1, <2>2, FailsLess DEF Begin, queryVars, Planned, Checked, Written
<1>backfill. CASE BeginBackfill
  <2>1. Begin(<<"backfill", backfills'>>, Replayable)
    BY <1>backfill DEF BeginBackfill
  <2> QED
    BY <2>1, FailsLess DEF Begin, Planned, Checked, Written
<1>work. CASE Quarantine \/ RecordResults \/ EmitAlerts
  BY <1>work, FailsLess
  DEF Quarantine, RecordResults, EmitAlerts, queryVars, Planned, Checked, Written
<1>merge. CASE MergeSilver
  <2>1. PICK unique \in SUBSET Valid :
          /\ IdsOf(unique) = IdsOf(Valid)
          /\ silver' = silver \cup {r \in unique : IdOf[r] \notin IdsOf(silver)}
    BY <1>merge DEF MergeSilver
  <2>2. IdsOf(Valid) \subseteq IdsOf(silver')
    BY <2>1 DEF IdsOf
  <2>3. Valid' = Valid
    BY <1>merge DEF MergeSilver, Valid
  <2>4. IdsOf(Valid)' \subseteq IdsOf(silver)'
    BY <2>2, <2>3 DEF IdsOf
  <2> QED
    BY <1>merge, <2>4, FailsLess DEF MergeSilver, queryVars, Planned, Checked, Written
<1>leave. CASE End \/ Interrupt
  BY <1>leave DEF End, Interrupt, LeaveSection, Planned, Checked, Written
<1> QED
  BY <1>outside, <1>plan, <1>begin, <1>backfill, <1>work, <1>merge, <1>leave, Steps
  DEF Validate

-----------------------------------------------------------------------------
(* What the checkpoint has passed, and Silver.                             *)

(* Silver and the quarantine only grow.                                    *)
LEMMA TablesGrow ==
  ASSUME [Next]_vars
  PROVE  IdsOf(silver) \subseteq IdsOf(silver') /\ quarantine \subseteq quarantine'
<1>1. silver \subseteq silver' /\ quarantine \subseteq quarantine'
  BY DEF Next, Operation, Disruption, Ingest, Validate, Publish, TimePasses, Retire,
     Plan, AppendBronze, CommitIngest, BeginBatch, BeginBackfill, Begin, Quarantine,
     RecordResults, EmitAlerts, MergeSilver, End, Interrupt, vars, tableVars
<1> QED
  BY <1>1 DEF IdsOf

(* A passed row that is accounted for stays so; the end of a batch adds    *)
(* the rows of the batch, which the section has accounted for.             *)
LEMMA PassedStep == IInv /\ [Next]_vars => PassedIsAccountedFor'
<1> SUFFICES ASSUME IInv, [Next]_vars PROVE PassedIsAccountedFor'
  OBVIOUS
<1> USE DEF IInv
<1>t. TypeOK' /\ Logs' /\ BronzeIsTopic'
  BY BaseStep
<1>f. /\ from["merge"] \in 0..Rows /\ to["merge"] \in 0..Rows
      /\ from'["merge"] \in 0..Rows /\ to'["merge"] \in 0..Rows
      /\ from["merge"] <= to["merge"] /\ from'["merge"] <= to'["merge"]
      /\ Len(bronze) \in Nat /\ Len(bronze') \in Nat
  BY <1>t, LenProperties DEF TypeOK, Query, Logs
<1>p. \A i \in 1..from["merge"] : bronze[i] = i
  BY <1>f DEF Logs, BronzeIsTopic
<1>q. \A i \in 1..from'["merge"] : bronze'[i] = i
  BY <1>f, <1>t DEF Logs, BronzeIsTopic
<1>old. ASSUME NEW i \in 1..from["merge"]
        PROVE  \/ IdOf[i] \in IdsOf(silver')
               \/ \E id \in Run : <<id, i>> \in quarantine'
  BY <1>p, TablesGrow DEF PassedIsAccountedFor
<1>1. CASE from'["merge"] = from["merge"]
  BY <1>1, <1>old, <1>q DEF PassedIsAccountedFor, IdsOf
<1>2. CASE End /\ run[1] = "stream"
  <2>1. /\ from'["merge"] = to["merge"] /\ silver' = silver /\ quarantine' = quarantine
        /\ batch = (from["merge"] + 1)..to["merge"]
        /\ {run} \X failed \subseteq quarantine
        /\ IdsOf(Valid) \subseteq IdsOf(silver)
        /\ run \in Run
    BY <1>2 DEF End, Committed, Planned, Written, tableVars, TypeOK, Query
  <2>2. ASSUME NEW i \in 1..to["merge"]
        PROVE  \/ IdOf[i] \in IdsOf(silver')
               \/ \E id \in Run : <<id, i>> \in quarantine'
    <3>1. CASE i \in 1..from["merge"]
      BY <1>old, <3>1
    <3>2. CASE i \in batch \ failed
      BY <2>1, <3>2 DEF Valid, IdsOf
    <3>3. CASE i \in failed
      BY <2>1, <3>3
    <3>4. i \in 1..from["merge"] \/ i \in batch
      BY <1>f, <2>1
    <3> QED
      BY <3>1, <3>2, <3>3, <3>4
  <2> QED
    BY <1>q, <2>1, <2>2 DEF PassedIsAccountedFor, IdsOf
<1>3. from'["merge"] = from["merge"] \/ (End /\ run[1] = "stream")
  BY Steps
  DEF Outside, Validate, Interrupt, BeginBackfill, BeginBatch, Begin, Quarantine,
      RecordResults, EmitAlerts, MergeSilver, End, Plan, queryVars
<1> QED
  BY <1>1, <1>2, <1>3

(* A merge adds one row of each event_id, and none Silver has.             *)
LEMMA SilverStep == IInv /\ [Next]_vars => OneRowPerEvent'
<1> SUFFICES ASSUME IInv, [Next]_vars PROVE OneRowPerEvent'
  OBVIOUS
<1>1. CASE MergeSilver
  <2>1. PICK unique \in SUBSET Valid :
          /\ \A r, q \in unique : IdOf[r] = IdOf[q] => r = q
          /\ silver' = silver \cup {r \in unique : IdOf[r] \notin IdsOf(silver)}
    BY <1>1 DEF MergeSilver
  <2> QED
    BY <2>1 DEF IInv, OneRowPerEvent, IdsOf
<1>2. MergeSilver \/ silver' = silver
  BY Steps
  DEF Outside, Validate, Interrupt, BeginBackfill, BeginBatch, Begin, Quarantine,
      RecordResults, EmitAlerts, End, tableVars
<1> QED
  BY <1>1, <1>2 DEF IInv, OneRowPerEvent

-----------------------------------------------------------------------------
(* Duplicates and their alerts.                                            *)

(* A duplicate is found again among more rows, beside more of Silver.      *)
LEMMA FoundGrows ==
  ASSUME NEW c \in Duplicate, NEW V, NEW W, V \subseteq W, NEW S, NEW T, S \subseteq T,
         Found(c, V, S)
  PROVE  Found(c, W, T)
  BY DEF Found, Repeats, IdsOf

(* The checks for duplicates find them.                                    *)
LEMMA StatusFound ==
  ASSUME TypeOK, NEW c \in Duplicate
  PROVE  /\ Status(c) = "RED" <=> Found(c, Valid, silver)
         /\ Found(c, Valid, silver) => c \in Measured
<1>1. Valid \in SUBSET Row
  BY DEF Valid, TypeOK
<1>2. Cardinality(IdsOf(Valid)) < Cardinality(Valid) <=> Repeats(Valid)
  BY <1>1, RepeatsCounted
<1>3. Found(c, Valid, silver) => Valid # {}
  BY DEF Found, Repeats, IdsOf
<1> QED
  BY <1>2, <1>3 DEF Status, Found, Measured, Duplicate, Check

(* As long as a batch is planned, no row of it becomes unsure.             *)
LEMMA SureGrows ==
  ASSUME IInv, [Next]_vars, UNCHANGED from["merge"], UNCHANGED to["merge"]
  PROVE  Sure \subseteq Sure'
<1> USE DEF IInv
<1> DEFINE rows == (from["merge"] + 1)..to["merge"]
<1>1. \A r : Fails(r)' => Fails(r)
  BY FailsLess
<1>2. {r \in rows : ~Fails(r)} \subseteq {r \in rows : ~Fails(r)'}
  BY <1>1
<1>3. CASE Outside
  <2>1. step' = step /\ run' = run /\ Valid' = Valid
    BY <1>3 DEF Outside, sectionVars, Valid
  <2> QED
    BY <2>1, <1>2 DEF Sure
<1>4. CASE BeginBatch
  <2>1. Begin(<<"stream", batchId["merge"]>>, rows)
    BY <1>4, BatchRows DEF BeginBatch
  <2> QED
    BY <2>1 DEF Begin, Sure, Valid
<1>5. CASE BeginBackfill \/ End \/ Interrupt
  <2>1. ~(step' # "idle" /\ run'[1] = "stream")
    BY <1>5 DEF BeginBackfill, Begin, End, Interrupt, LeaveSection
  <2>2. Sure' = {r \in rows : ~Fails(r)'}
    BY <2>1 DEF Sure
  <2>3. CASE step # "idle" /\ run[1] = "stream"
    BY <1>1, <2>2, <2>3 DEF Sure, Valid, Planned, Checked
  <2>4. CASE ~(step # "idle" /\ run[1] = "stream")
    BY <1>2, <2>2, <2>4 DEF Sure
  <2> QED BY <2>3, <2>4
<1>6. CASE Quarantine \/ RecordResults \/ EmitAlerts \/ MergeSilver
  <2>1. step # "idle" /\ step' # "idle" /\ run' = run /\ Valid' = Valid
    BY <1>6 DEF Quarantine, RecordResults, EmitAlerts, MergeSilver, Valid
  <2> QED
    BY <2>1, <1>2 DEF Sure
<1> QED
  BY <1>3, <1>4, <1>5, <1>6, Steps DEF Validate

(* Alerts stay, and a recorded duplicate is alerted before its batch ends. *)
LEMMA RedStep == IInv /\ [Next]_vars => RedPending' /\ RedSent'
<1> SUFFICES ASSUME IInv, [Next]_vars PROVE RedPending' /\ RedSent'
  OBVIOUS
<1> USE DEF IInv
<1>g. silver \subseteq silver' /\ alerts \subseteq alerts'
  BY DEF Next, Operation, Disruption, Ingest, Validate, Publish, TimePasses, Retire,
     Plan, AppendBronze, CommitIngest, BeginBatch, BeginBackfill, Begin, Quarantine,
     RecordResults, EmitAlerts, MergeSilver, End, Interrupt, vars, tableVars
<1>k. \A n \in 0..Rows, c \in Duplicate : <<<<"stream", n>>, c>> \in Run \X Check
  BY DEF Duplicate, Run, Check
<1>same. ASSUME UNCHANGED from["merge"], UNCHANGED to["merge"], UNCHANGED batchId["merge"],
                NEW n \in 0..Rows, NEW c \in Duplicate,
                results[<<<<"stream", n>>, c>>] = "RED"
         PROVE  \/ <<<<"stream", n>>, c>> \in alerts'
                \/ n = batchId'["merge"] /\ Found(c, Sure', silver')
  <2>1. Sure \subseteq Sure'
    BY <1>same, SureGrows
  <2> QED
    BY <1>g, <1>same, <2>1, FoundGrows DEF RedPending
<1>outside. ASSUME Outside, UNCHANGED to["merge"] PROVE RedPending' /\ RedSent'
  <2>1. RedPending'
    BY <1>outside, <1>same DEF Outside, RedPending
  <2> QED
    BY <1>outside, <2>1 DEF Outside, sectionVars, RedSent
<1>plan. CASE Outside /\ Plan("merge")
  <2>1. to["merge"] = from["merge"] /\ from["merge"] \in 0..Rows
    BY <1>plan DEF Plan, TypeOK, Query
  <2>2. ~(step # "idle" /\ run[1] = "stream")
    BY <2>1 DEF Planned
  <2>3. Sure = {}
    BY <2>1, <2>2 DEF Sure
  <2>4. \A c \in Duplicate : ~Found(c, Sure, silver)
    BY <2>3 DEF Found, Repeats, IdsOf
  <2>5. RedPending'
    BY <1>plan, <2>4 DEF Outside, RedPending
  <2> QED
    BY <1>plan, <2>5 DEF Outside, sectionVars, RedSent
<1>other. CASE BeginBatch \/ BeginBackfill \/ Quarantine \/ MergeSilver \/ Interrupt
               \/ (End /\ run[1] # "stream")
  <2>1. /\ UNCHANGED from["merge"] /\ UNCHANGED to["merge"] /\ UNCHANGED batchId["merge"]
        /\ results' = results /\ alerts' = alerts
    BY <1>other DEF BeginBatch, BeginBackfill, Begin, Quarantine, MergeSilver, Interrupt,
       End, queryVars, tableVars
  <2>2. RedPending'
    BY <1>same, <2>1 DEF RedPending
  <2>3. RedSent'
    BY <1>other, <2>1 DEF RedSent, BeginBatch, BeginBackfill, Begin, Quarantine,
       MergeSilver, Interrupt, End, LeaveSection
  <2> QED BY <2>2, <2>3
<1>results. CASE RecordResults
  <2>1. UNCHANGED from["merge"] /\ UNCHANGED to["merge"] /\ UNCHANGED batchId["merge"]
    BY <1>results DEF RecordResults, queryVars
  <2>2. ASSUME NEW n \in 0..Rows, NEW c \in Duplicate,
               results'[<<<<"stream", n>>, c>>] = "RED",
               results[<<<<"stream", n>>, c>>] # "RED"
        PROVE  n = batchId'["merge"] /\ Found(c, Sure', silver')
    <3>1. run = <<"stream", n>> /\ Status(c) = "RED"
      BY <1>results, <1>k, <2>2 DEF RecordResults
    <3>2. step # "idle" /\ n = batchId["merge"]
      BY <1>results, <3>1 DEF RecordResults, Planned
    <3>3. Found(c, Sure, silver)
      BY <3>1, <3>2, StatusFound DEF Sure
    <3>4. Sure \subseteq Sure'
      BY <2>1, SureGrows
    <3> QED
      BY <1>g, <2>1, <3>2, <3>3, <3>4, FoundGrows
  <2>3. RedPending'
    BY <1>same, <2>1, <2>2 DEF RedPending
  <2> QED
    BY <1>results, <2>3 DEF RecordResults, RedSent
<1>alerts. CASE EmitAlerts
  <2>1. /\ UNCHANGED from["merge"] /\ UNCHANGED to["merge"] /\ UNCHANGED batchId["merge"]
        /\ results' = results /\ run' = run /\ step # "idle"
    BY <1>alerts DEF EmitAlerts, queryVars
  <2>2. RedPending'
    BY <1>same, <2>1 DEF RedPending
  <2>3. ASSUME run[1] = "stream", NEW c \in Duplicate, results[<<run, c>>] = "RED"
        PROVE  <<run, c>> \in alerts'
    <3>1. run = <<"stream", batchId["merge"]>> /\ batchId["merge"] \in 0..Rows
      <4>1. run = <<"stream", batchId["merge"]>> /\ from["merge"] < to["merge"]
        BY <2>1, <2>3 DEF Planned
      <4>2. /\ batchId["merge"] \in Nat /\ batchId["merge"] <= from["merge"] + 1
            /\ from["merge"] \in 0..Rows /\ to["merge"] \in 0..Rows
        BY DEF TypeOK, Logs, Query
      <4> QED
        BY <4>1, <4>2, RowAssumption
    <3>2. CASE <<run, c>> \in alerts
      BY <1>g, <3>2
    <3>3. CASE <<run, c>> \notin alerts
      <4>1. Found(c, Valid, silver)
        BY <2>1, <2>3, <3>1, <3>3 DEF RedPending, Sure
      <4>2. c \in Measured /\ Status(c) = "RED"
        BY <4>1, StatusFound
      <4> QED
        BY <1>alerts, <4>2 DEF EmitAlerts
    <3> QED BY <3>2, <3>3
  <2>4. RedSent'
    BY <2>1, <2>3 DEF RedSent
  <2> QED BY <2>2, <2>4
<1>end. CASE End /\ run[1] = "stream"
  <2>1. /\ run = <<"stream", batchId["merge"]>> /\ results' = results /\ alerts' = alerts
        /\ step = "end" /\ step' = "idle"
    BY <1>end DEF End, Planned, LeaveSection, tableVars
  <2>2. \A n \in 0..Rows, c \in Duplicate :
          results[<<<<"stream", n>>, c>>] = "RED" => <<<<"stream", n>>, c>> \in alerts
    BY <1>end, <2>1 DEF RedPending, RedSent
  <2> QED
    BY <2>1, <2>2 DEF RedPending, RedSent
<1> QED
  BY <1>outside, <1>plan, <1>other, <1>results, <1>alerts, <1>end, Steps DEF Validate

-----------------------------------------------------------------------------
(* The theorems.                                                           *)

(* The invariant is inductive.                                             *)
LEMMA IInvStep == IInv /\ [Next]_vars => IInv'
  BY BaseStep, SectionStep, PassedStep, SilverStep, RedStep DEF IInv

LEMMA Inductive == Spec => []IInv
  BY IInvInit, IInvStep, PTL DEF Spec

(* The variables of the channel keep their types: no batch number, offset  *)
(* or run leaves its range (jobs/streams.py, common/dq.py).                *)
THEOREM TypeCorrect == Spec => []TypeOK
<1>1. IInv => TypeOK
  BY DEF IInv
<1> QED
  BY <1>1, Inductive, PTL

(* Repeated batches append nothing twice, and leave nothing out: Bronze is *)
(* the topic as far as it has been read (append_bronze() in streams.py).   *)
THEOREM Bronze == Spec => []BronzeIsTopic
<1>1. IInv => BronzeIsTopic
  BY DEF IInv
<1> QED
  BY <1>1, Inductive, PTL

(* A record the Silver query's checkpoint has passed is in Silver or in    *)
(* quarantine, whatever was interrupted, replayed or retired (common/dq.py,*)
(* jobs/maintenance.py).                                                   *)
THEOREM NothingIsDropped == Spec => []PassedIsAccountedFor
<1>1. IInv => PassedIsAccountedFor
  BY DEF IInv
<1> QED
  BY <1>1, Inductive, PTL

(* Silver has one row of an event_id (the dropDuplicates() and MERGE of    *)
(* validate_and_merge()).                                                  *)
THEOREM NothingIsDoubled == Spec => []OneRowPerEvent
<1>1. IInv => OneRowPerEvent
  BY DEF IInv
<1> QED
  BY <1>1, Inductive, PTL

(* A duplicate recorded in dq_results for a passed batch has its alert     *)
(* (write_dq() and emit_alerts()).                                         *)
THEOREM DuplicatesAlerted == Spec => []DuplicatesAreAlerted
<1>1. IInv => DuplicatesAreAlerted
  <2> SUFFICES ASSUME IInv, NEW n \in 1..(batchId["merge"] - 1), NEW c \in Duplicate,
                      results[<<<<"stream", n>>, c>>] = "RED"
               PROVE  <<<<"stream", n>>, c>> \in alerts
    BY DEF DuplicatesAreAlerted, Duplicate
  <2>1. batchId["merge"] \in 1..(Rows + 1)
    BY DEF IInv, TypeOK, Query
  <2>2. n \in 0..Rows /\ n # batchId["merge"]
    BY <2>1, RowAssumption
  <2> QED
    BY <2>2 DEF IInv, RedPending
<1> QED
  BY <1>1, Inductive, PTL

(* A repeated run leaves its first results alone (write_dq()).             *)
THEOREM FirstResults == Spec => FirstResultsKept
<1>1. ASSUME [Next]_vars
      PROVE  [\A k \in Run \X Check : results[k] # "none" => results'[k] = results[k]]_vars
  <2>1. CASE RecordResults
    BY <2>1 DEF RecordResults
  <2>2. RecordResults \/ results' = results
    BY <1>1 DEF Next, Operation, Disruption, Ingest, Validate, Publish, TimePasses, Retire,
       Plan, AppendBronze, CommitIngest, BeginBatch, BeginBackfill, Begin, Quarantine,
       EmitAlerts, MergeSilver, End, Interrupt, vars, tableVars
  <2> QED
    BY <2>1, <2>2
<1> QED
  BY <1>1, PTL DEF Spec, FirstResultsKept

-----------------------------------------------------------------------------
(***************************************************************************)
(* The ledger: each record is settled once.  Four actions are visible to   *)
(* it: Publish, Quarantine, MergeSilver, and the End of a micro-batch.     *)
(* What the section works on are records of the topic, judged by checks    *)
(* that no valid row fails and no bad one passes.                          *)
(***************************************************************************)
Sound ==
  /\ batch \subseteq 1..topic
  /\ \A r \in failed : Kind[r] # "good"
  /\ \A r \in silver : Kind[r] # "bad"
  /\ \A r \in Quarantined : Kind[r] # "good"

(* Nothing is judged in the empty channel.                                 *)
LEMMA SoundInit == Init => Sound
BY DEF Init, Sound, Quarantined

(* The rows of a batch, and of a backfill, are records of the topic.       *)
LEMMA RowsOfTopic ==
  ASSUME TypeOK, Logs, BronzeIsTopic
  PROVE  /\ (from["merge"] + 1)..to["merge"] \subseteq 1..topic
         /\ Replayable \subseteq 1..topic
<1>1. /\ from["merge"] \in 0..Rows /\ to["merge"] \in 0..Rows /\ topic \in 0..Rows
      /\ retired \in 0..Len(bronze)
      /\ to["merge"] <= Len(bronze) /\ Len(bronze) <= topic
  BY DEF TypeOK, Logs, BronzeIsTopic, Query
<1>2. Replayable = (retired + 1)..Len(bronze) /\ Len(bronze) \in 0..Rows
  BY BatchRows
<1> QED BY <1>1, <1>2, RowAssumption

(* Rows enter the section as records of the topic; those that fail are not *)
(* good.                                                                   *)
LEMMA BeginSound ==
  ASSUME Sound, NEW id, NEW B, B \subseteq 1..topic, Begin(id, B)
  PROVE  Sound'
BY DEF Sound, Begin, Fails, Quarantined, tableVars

(* What quarantining a batch adds.                                         *)
LEMMA QuarantineAdds ==
  ASSUME TypeOK, Quarantine
  PROVE  Quarantined' = Quarantined \cup failed
<1>1. run \in Run /\ failed \subseteq Row /\ quarantine' = quarantine \cup ({run} \X failed)
  BY DEF TypeOK, Quarantine
<1> QED BY <1>1 DEF Quarantined

(* A row that passed the checks is not bad.                                *)
LEMMA ValidNotBad ==
  ASSUME Checked, NEW r \in Valid
  PROVE  Kind[r] # "bad"
BY DEF Checked, Valid, Fails

(* Every step keeps the judgement sound.                                   *)
LEMMA SoundStep == IInv /\ Sound /\ [Next]_vars => Sound'
<1> SUFFICES ASSUME IInv, Sound, [Next]_vars PROVE Sound'
  OBVIOUS
<1> USE DEF IInv
<1>1. CASE BeginBatch
  BY <1>1, BatchRows, RowsOfTopic, BeginSound DEF BeginBatch
<1>2. CASE BeginBackfill
  BY <1>2, RowsOfTopic, BeginSound DEF BeginBackfill
<1>3. CASE Quarantine
  BY <1>3, QuarantineAdds DEF Quarantine, Sound
<1>4. CASE MergeSilver
  <2>1. PICK unique \in SUBSET Valid :
          silver' = silver \cup {r \in unique : IdOf[r] \notin IdsOf(silver)}
    BY <1>4 DEF MergeSilver
  <2>2. \A r \in silver' : Kind[r] # "bad"
    BY <2>1, ValidNotBad DEF Sound
  <2> QED BY <1>4, <2>2 DEF MergeSilver, Sound, Quarantined
<1>5. CASE RecordResults \/ EmitAlerts
  BY <1>5 DEF RecordResults, EmitAlerts, Sound, Quarantined
<1>6. CASE End \/ Interrupt
  BY <1>6 DEF End, Interrupt, LeaveSection, Sound, Quarantined, tableVars
<1>7. CASE Publish
  <2>1. 1..topic \subseteq 1..topic'
    BY <1>7 DEF Publish, TypeOK
  <2> QED BY <1>7, <2>1 DEF Publish, Sound, Quarantined, tableVars, sectionVars
<1>8. CASE TimePasses \/ Retire \/ Ingest \/ Plan("merge") \/ UNCHANGED vars
  BY <1>8 DEF TimePasses, Retire, Ingest, Plan, AppendBronze, CommitIngest, Sound,
     Quarantined, vars, tableVars, sectionVars
<1> QED
  BY <1>1, <1>2, <1>3, <1>4, <1>5, <1>6, <1>7, <1>8
  DEF Next, Operation, Disruption, Validate

(* The types, logs and sections of the channel, and its judgement.         *)
LEMMA Judged == Spec => [](IInv /\ Sound)
BY IInvInit, IInvStep, SoundInit, SoundStep, PTL DEF Spec

\* What the ledger sees.
ledgerVars == <<topic, from["merge"], silver, Quarantined>>

(* The empty channel is an empty ledger.                                   *)
LEMMA LedgerInit == Init => Ledger!Init
BY DEF Init, Ledger!Init, Quarantined, Query

(* A merge accepts rows of new events, one of each.                        *)
LEMMA MergeAccepts ==
  ASSUME IInv, Sound, MergeSilver
  PROVE  \E new \in SUBSET (1..topic) : Ledger!Accept(new)
<1> USE DEF IInv
<1>1. PICK unique \in SUBSET Valid :
        /\ \A r, q \in unique : IdOf[r] = IdOf[q] => r = q
        /\ silver' = silver \cup {r \in unique : IdOf[r] \notin IdsOf(silver)}
  BY DEF MergeSilver
<1> DEFINE new == {r \in unique : IdOf[r] \notin IdsOf(silver)}
<1>2. new \in SUBSET (1..topic)
  BY DEF Sound, Valid
<1>3. ASSUME NEW r \in new
      PROVE  Kind[r] # "bad" /\ \A q \in silver \cup new : IdOf[q] = IdOf[r] => q = r
  BY <1>1, ValidNotBad DEF IdsOf
<1>4. Quarantined' = Quarantined /\ topic' = topic /\ from' = from
  BY DEF MergeSilver, Quarantined, queryVars
<1>5. Ledger!Accept(new)
  BY <1>1, <1>3, <1>4 DEF Ledger!Accept
<1> QED BY <1>2, <1>5

(* Quarantining a batch rejects those of its rows that fail.               *)
LEMMA QuarantineRejects ==
  ASSUME IInv, Sound, Quarantine
  PROVE  failed \in SUBSET (1..topic) /\ Ledger!Reject(failed)
<1>1. failed \in SUBSET (1..topic)
  BY DEF IInv, Sound, Checked
<1>2. Quarantined' = Quarantined \cup failed
  BY QuarantineAdds DEF IInv
<1> QED BY <1>1, <1>2 DEF Ledger!Reject, Sound, Quarantine, queryVars

(* The end of a micro-batch passes what is settled.                        *)
LEMMA EndPasses ==
  ASSUME IInv, [Next]_vars, End, run[1] = "stream"
  PROVE  to["merge"] \in 1..topic /\ Ledger!Pass(to["merge"])
<1> USE DEF IInv
<1>1. /\ from["merge"] < to["merge"] /\ from'["merge"] = to["merge"]
      /\ UNCHANGED <<topic, silver, bronze, quarantine>>
  BY DEF End, Planned, Committed, tableVars, bronzeVars, TypeOK, Query
<1>2. /\ from["merge"] \in 0..Rows /\ to["merge"] \in 0..Rows /\ topic \in 0..Rows
      /\ Len(bronze) \in 0..Rows
      /\ to["merge"] <= Len(bronze) /\ Len(bronze) <= topic
  BY BatchRows DEF TypeOK, Logs, BronzeIsTopic, Query
<1>3. to["merge"] \in 1..topic
  BY <1>1, <1>2, RowAssumption
<1>4. PassedIsAccountedFor'
  BY PassedStep
<1>5. ASSUME NEW r \in 1..to["merge"] PROVE Ledger!Settled(r)
  <2>1. r \in Row /\ r \in 1..Len(bronze)
    BY <1>2, RowAssumption DEF Row
  <2>2. bronze[r] = r
    BY <2>1 DEF BronzeIsTopic
  <2>3. IdOf[r] \in IdsOf(silver) \/ \E id \in Run : <<id, r>> \in quarantine
    BY <1>1, <1>4, <2>2 DEF PassedIsAccountedFor, IdsOf
  <2>4. CASE IdOf[r] \in IdsOf(silver)
    BY <2>4 DEF Ledger!Settled, IdsOf
  <2>5. CASE \E id \in Run : <<id, r>> \in quarantine
    BY <2>1, <2>5 DEF Ledger!Settled, Quarantined
  <2> QED BY <2>3, <2>4, <2>5
<1>6. Quarantined' = Quarantined
  BY <1>1 DEF Quarantined
<1> QED BY <1>1, <1>3, <1>5, <1>6 DEF Ledger!Pass

(* Every step of the channel is one of the ledger, or invisible to it.     *)
LEMMA LedgerStep ==
  IInv /\ Sound /\ [Next]_vars => [Ledger!Next]_ledgerVars
<1> SUFFICES ASSUME IInv, Sound, [Next]_vars
             PROVE  Ledger!Next \/ UNCHANGED ledgerVars
  OBVIOUS
<1>1. CASE Publish
  BY <1>1 DEF Publish, Ledger!Next, Ledger!Publish, Quarantined, tableVars, queryVars
<1>2. CASE MergeSilver
  BY <1>2, MergeAccepts DEF Ledger!Next
<1>3. CASE Quarantine
  BY <1>3, QuarantineRejects DEF Ledger!Next
<1>4. CASE End /\ run[1] = "stream"
  BY <1>4, EndPasses DEF Ledger!Next
<1>5. CASE End /\ run[1] # "stream"
  BY <1>5 DEF End, ledgerVars, Quarantined, tableVars, queryVars
<1>6. CASE RecordResults \/ EmitAlerts \/ Interrupt
  BY <1>6 DEF RecordResults, EmitAlerts, Interrupt, ledgerVars, Quarantined,
     tableVars, queryVars
<1>7. CASE BeginBatch \/ BeginBackfill
  BY <1>7 DEF BeginBatch, BeginBackfill, Begin, ledgerVars, Quarantined, tableVars, queryVars
<1>8. CASE TimePasses \/ Retire \/ Plan("ingest") \/ Plan("merge") \/ AppendBronze
             \/ UNCHANGED vars
  BY <1>8 DEF TimePasses, Retire, Plan, AppendBronze, ledgerVars, Quarantined, vars,
     tableVars, queryVars
<1>9. CASE CommitIngest
  <2>1. from'["merge"] = from["merge"]
    BY <1>9 DEF CommitIngest, Committed, IInv, TypeOK, Query
  <2> QED BY <1>9, <2>1 DEF CommitIngest, ledgerVars, Quarantined, tableVars
<1> QED
  BY <1>1, <1>2, <1>3, <1>4, <1>5, <1>6, <1>7, <1>8, <1>9
  DEF Next, Operation, Disruption, Validate, Ingest

(* Two queries, four tables and the backfill, with every interruption and  *)
(* repetition, implement the ledger: a record is settled exactly once      *)
(* (jobs/streams.py, common/dq.py, jobs/maintenance.py).                   *)
THEOREM EachRecordOnce == Spec => ExactlyOnce
BY LedgerInit, LedgerStep, Judged, PTL DEF Spec, ExactlyOnce, Ledger!Spec, ledgerVars

\* Every valid record that the checkpoint has passed is in Silver.
PassedGoodInSilver ==
  \A i \in 1..from["merge"] : Kind[i] = "good" => IdOf[i] \in IdsOf(silver)

(* Hence a record that is valid from the beginning, once the checkpoint    *)
(* has passed it, is in Silver under its event_id, not merely somewhere.   *)
THEOREM GoodIsMerged == Spec => []PassedGoodInSilver
<1>1. ASSUME IInv, Sound, NEW i \in 1..from["merge"], Kind[i] = "good"
      PROVE  IdOf[i] \in IdsOf(silver)
  <2>1. /\ from["merge"] \in 0..Rows /\ Len(bronze) \in 0..Rows
        /\ from["merge"] <= to["merge"] /\ to["merge"] <= Len(bronze)
        /\ to["merge"] \in 0..Rows
    BY <1>1, BatchRows DEF IInv, TypeOK, Logs, Query
  <2>2. i \in Row /\ i \in 1..Len(bronze)
    BY <2>1, RowAssumption DEF Row
  <2>3. bronze[i] = i
    BY <1>1, <2>2 DEF IInv, BronzeIsTopic
  <2>4. i \notin Quarantined
    BY <1>1 DEF Sound
  <2> QED
    BY <1>1, <2>2, <2>3, <2>4 DEF IInv, PassedIsAccountedFor, Quarantined
<1>2. IInv /\ Sound => PassedGoodInSilver
  BY <1>1 DEF PassedGoodInSilver
<1> QED BY <1>2, Judged, PTL
=============================================================================
