------------------------ MODULE LegalIngestionProofs ------------------------
(***************************************************************************)
(* The Legal ingestion job, for any files and rows, any number of          *)
(* overlapping runs and any queue limit: a moved file is published to its  *)
(* last row, has its rejects on record, and never vanishes.                *)
(***************************************************************************)
EXTENDS LegalIngestion, FiniteSetTheorems, TLAPS

-----------------------------------------------------------------------------
(* Operators.                                                              *)

(* A set of names has a first one.                                         *)
LEMMA MinIsMember ==
  ASSUME NEW S \in SUBSET Nat, S # {}
  PROVE  Min(S) \in S
<1> DEFINE T == {0..x : x \in S}
<1>1. T \subseteq FiniteSubsetsOf(Nat) /\ T # {}
  <2>1. ASSUME NEW x \in S PROVE 0..x \in FiniteSubsetsOf(Nat)
    BY FS_Interval DEF FiniteSubsetsOf
  <2> QED
    BY <2>1
<1>2. PICK X \in T : \A Y \in T : ~(<<Y, X>> \in StrictSubsetOrdering(Nat))
  <2> HIDE DEF T
  <2> QED BY <1>1, FS_StrictSubsetOrderingWellFounded, WFMin
<1>3. PICK x \in S : X = 0..x
  BY <1>2
<1>4. ASSUME NEW y \in S PROVE x <= y
  <2> SUFFICES ASSUME y < x PROVE FALSE
    OBVIOUS
  <2>1. 0..y \subseteq X /\ x \in X /\ x \notin 0..y
    BY <1>3
  <2>2. <<0..y, X>> \in StrictSubsetOrdering(Nat)
    BY <1>3, <2>1 DEF StrictSubsetOrdering
  <2> QED
    BY <1>2, <2>2
<1> QED
  BY <1>4 DEF Min

(* The names in a run's list.                                              *)
LEMMA MinIsName ==
  ASSUME NEW S \in SUBSET Name, S # {}
  PROVE  Min(S) \in S /\ Min(S) \in Name
  BY MinIsMember, FileAssumption

(* Any set of messages is finite.                                          *)
LEMMA MessagesAreFinite ==
  ASSUME NEW S \in SUBSET Message
  PROVE  IsFiniteSet(S) /\ Cardinality(S) \in Nat
  BY ProducerAssumption, FS_Subset, FS_CardinalityType

(* Two disjoint sets of messages have the sum of their sizes.              *)
LEMMA SizesAdd ==
  ASSUME NEW S \in SUBSET Message, NEW T \in SUBSET Message, S \cap T = {}
  PROVE  Cardinality(S \cup T) = Cardinality(S) + Cardinality(T)
<1>1. Cardinality(S \cup T) = Cardinality(S) + Cardinality(T) - Cardinality({})
  BY MessagesAreFinite, FS_Union
<1> QED
  BY <1>1, MessagesAreFinite, FS_EmptySet

(* The rows of a file.                                                     *)
LEMMA FileRows ==
  ASSUME NEW n \in Name
  PROVE  /\ Len(Rows[n]) \in Nat
         /\ \A k \in 1..Len(Rows[n]) : Rows[n][k] \in {"good", "bad", "broken"}
         /\ {n} \X (1..Len(Rows[n])) \subseteq Message
  BY FileAssumption

(* A readable file has as many events as it has rows that are not bad.     *)
LEMMA EventCount ==
  ASSUME NEW n \in Name, Readable(n)
  PROVE  Cardinality(Events(n)) = Len(Rows[n]) - Cardinality(RowsOf(n, "bad"))
<1> DEFINE L == Len(Rows[n])
           good == RowsOf(n, "good")
           bad == RowsOf(n, "bad")
           f == [k \in good |-> <<n, k>>]
<1>1. L \in Nat /\ IsFiniteSet(1..L) /\ Cardinality(1..L) = L
  BY FileRows, FS_Interval
<1>2. good \subseteq 1..L /\ bad \subseteq 1..L
  BY DEF RowsOf
<1>3. good = (1..L) \ bad
  BY FileRows DEF RowsOf, Readable
<1>4. (1..L) \cap bad = bad
  BY <1>2
<1>5. IsFiniteSet(good) /\ IsFiniteSet(bad)
  <2> HIDE DEF good, bad, L
  <2> QED BY <1>1, <1>2, FS_Subset
<1>6. Cardinality(good) = L - Cardinality(bad)
  <2>1. Cardinality((1..L) \ bad) = Cardinality(1..L) - Cardinality((1..L) \cap bad)
    BY <1>1, FS_Difference
  <2> QED
    BY <1>1, <1>3, <1>4, <2>1
<1>7. f \in Bijection(good, Events(n))
  BY DEF Bijection, Injection, IsInjective, Surjection, Events
<1>8. Cardinality(Events(n)) = Cardinality(good)
  <2> HIDE DEF f, good
  <2> QED BY <1>5, <1>7, FS_Bijection DEF ExistsBijection
<1> QED
  BY <1>6, <1>8

-----------------------------------------------------------------------------
(* Types.                                                                  *)

(* The producer library keeps the types of its variables.                  *)
LEMMA CallbacksType ==
  ASSUME ProducerTypeOK, NEW p \in Producer, RunCallbacks(p)
  PROVE  /\ acked' \in [Producer -> SUBSET Message]
         /\ errored' \in [Producer -> SUBSET Message]
         /\ delivered' \in [Producer -> Nat]
         /\ failed' \in [Producer -> Nat]
<1>1. Cardinality(acked[p]) \in Nat /\ Cardinality(errored[p]) \in Nat
  BY MessagesAreFinite DEF ProducerTypeOK
<1> QED
  BY <1>1 DEF RunCallbacks, ProducerTypeOK

LEMMA ProducerType ==
  ASSUME ProducerTypeOK, NEW p \in Producer
  PROVE  /\ \A m \in Message : Enqueue(p, m) \/ Deliver(p, m) \/ Expire(p, m) => ProducerTypeOK'
         /\ AwaitRoom(p) \/ GiveUp(p) \/ Flush(p) \/ Forget(p) => ProducerTypeOK'
<1>1. ASSUME NEW m \in Message, Enqueue(p, m) PROVE ProducerTypeOK'
  BY <1>1, CallbacksType DEF Enqueue, ProducerTypeOK
<1>2. ASSUME NEW m \in Message, Deliver(p, m) \/ Expire(p, m) PROVE ProducerTypeOK'
  BY <1>2 DEF Deliver, Expire, ProducerTypeOK
<1>3. ASSUME AwaitRoom(p) \/ Flush(p) PROVE ProducerTypeOK'
  BY <1>3, CallbacksType DEF AwaitRoom, Flush, ProducerTypeOK
<1>4. ASSUME GiveUp(p) \/ Forget(p) PROVE ProducerTypeOK'
  BY <1>4 DEF GiveUp, Forget, ProducerTypeOK
<1> QED
  BY <1>1, <1>2, <1>3, <1>4

(* The initial state has the types.                                        *)
LEMMA TypeInit == Init => TypeOK
  BY DEF Init, TypeOK, ProducerInit, ProducerTypeOK, Place, Reading

(* Every step of a run keeps them.                                         *)
LEMMA RunType ==
  ASSUME TypeOK, NEW r \in Producer, Run(r) \/ CallRaises(r) \/ FlushTimesOut(r)
  PROVE  TypeOK'
<1> USE DEF TypeOK, Goto, Place, Reading, storeVars
<1>start. CASE StartRun(r)
  BY <1>start DEF StartRun, ProducerTypeOK, producerVars
<1>skip. CASE SkipFile(r)
  BY <1>skip DEF SkipFile, ProducerTypeOK, producerVars
<1>open. CASE OpenFile(r)
  <2>1. Min(todo[r]) \in Name
    BY <1>open, MinIsName DEF OpenFile
  <2>2. delivered[r] \in Nat
    BY DEF ProducerTypeOK
  <2> QED
    BY <1>open, <2>1, <2>2 DEF OpenFile, ProducerTypeOK, producerVars
<1>send. CASE SendRow(r)
  <2>1. /\ file[r] \in Name /\ line[r] \in Nat /\ line[r] < Len(Rows[file[r]])
        /\ Enqueue(r, <<file[r], line[r] + 1>>)
        /\ line' = [line EXCEPT ![r] = @ + 1]
        /\ UNCHANGED <<pc, todo, file, before, inbox, processed, rejects>>
    BY <1>send DEF SendRow, NextRow
  <2>2. <<file[r], line[r] + 1>> \in Message
    BY <2>1, FileRows
  <2>3. ProducerTypeOK'
    BY <2>1, <2>2, ProducerType
  <2> QED
    BY <2>1, <2>3
<1>wait. CASE AwaitRoomForRow(r)
  BY <1>wait, ProducerType DEF AwaitRoomForRow, runVars
<1>reject. CASE RejectRow(r)
  BY <1>reject DEF RejectRow, ProducerTypeOK, producerVars
<1>goto. CASE ReadFails(r) \/ CheckCounts(r) \/ SourceMissing(r) \/ CallRaises(r)
  BY <1>goto
  DEF ReadFails, NextRow, CheckCounts, SourceMissing, CallRaises, ProducerTypeOK, producerVars
<1>flush. CASE EndOfFile(r)
  BY <1>flush, ProducerType DEF EndOfFile
<1>store. CASE WriteRejects(r) \/ CopyFile(r) \/ DeleteFile(r)
  BY <1>store DEF WriteRejects, CopyFile, DeleteFile, ProducerTypeOK, producerVars
<1>end. CASE EndRun(r)
  BY <1>end, ProducerType DEF EndRun
<1> QED
  BY <1>start, <1>skip, <1>open, <1>send, <1>wait, <1>reject, <1>goto, <1>flush, <1>store,
     <1>end
  DEF Run, FlushEnds, FlushTimesOut, Finish, Abort

(* Every step keeps them.                                                  *)
LEMMA TypeStep == TypeOK /\ [Next]_vars => TypeOK'
<1> SUFFICES ASSUME TypeOK, [Next]_vars PROVE TypeOK'
  OBVIOUS
<1>upload. ASSUME NEW n \in Name, Upload(n) PROVE TypeOK'
  BY <1>upload DEF Upload, TypeOK, ProducerTypeOK, producerVars, runVars
<1>run. ASSUME NEW r \in Producer, Run(r) \/ CallRaises(r) \/ FlushTimesOut(r) PROVE TypeOK'
  BY <1>run, RunType
<1>full. ASSUME NEW r \in Producer, QueueStaysFull(r) PROVE TypeOK'
  BY <1>full, ProducerType DEF QueueStaysFull, TypeOK, Goto, Place, Reading, storeVars
<1>thread. ASSUME NEW r \in Producer, Background(r) \/ Expiry(r) PROVE TypeOK'
  <2>1. queue[r] \subseteq Message
    BY DEF TypeOK, ProducerTypeOK
  <2> QED
    BY <1>thread, <2>1, ProducerType DEF Background, Expiry, TypeOK, runVars, storeVars
<1>crash. ASSUME NEW r \in Producer, EndRun(r) PROVE TypeOK'
  BY <1>crash, ProducerType DEF EndRun, TypeOK, Goto, Place, Reading, storeVars
<1>idle. CASE UNCHANGED vars
  BY <1>idle DEF vars, TypeOK, ProducerTypeOK, producerVars, runVars, storeVars
<1> QED
  BY <1>upload, <1>run, <1>full, <1>thread, <1>crash, <1>idle DEF Next, Trouble, Crash

(* The variables of job and producer keep their types; a run past the head *)
(* of its loop has a file (main() in legal_ingestion/main.py).             *)
THEOREM TypeCorrect == Spec => []TypeOK
  BY TypeInit, TypeStep, PTL DEF Spec

-----------------------------------------------------------------------------
(* The inductive invariant: what the counters of a run know of its file.   *)

\* The events of the rows a run has read.
Sent(r) == {file[r]} \X {k \in 1..line[r] : Rows[file[r]][k] = "good"}

\* What its producer still holds.
Held(r) == queue[r] \cup acked[r] \cup errored[r]

\* Between two files a producer holds nothing ...
BetweenFiles(r) ==
  pc[r] \in {"idle", "looping", "rejecting", "copying", "deleting"} => Held(r) = {}

\* ... inside one it holds events of that file; those that were counted as
\* delivered since the file was opened are on the topic, and it holds none of them.
CountersFit(r) ==
  pc[r] \in {"sending", "checking"} =>
    /\ line[r] \in 0..Len(Rows[file[r]])
    /\ pc[r] = "checking" => line[r] = Len(Rows[file[r]])
    /\ \A k \in 1..line[r] : Rows[file[r]][k] # "broken"
    /\ Held(r) \subseteq Sent(r)
    /\ acked[r] \subseteq topic
    /\ acked[r] \cap queue[r] = {}
    /\ \E D \in SUBSET (Sent(r) \cap topic) :
         D \cap Held(r) = {} /\ delivered[r] = before[r] + Cardinality(D)

\* A run that has checked its counters knows its file to be published ...
FilePublished(r) ==
  pc[r] \in {"rejecting", "copying", "deleting"} =>
    Readable(file[r]) /\ Events(file[r]) \subseteq topic

\* ... and moves it behind its rejects.
RejectsFirst(r) ==
  pc[r] \in {"copying", "deleting"} /\ RowsOf(file[r], "bad") # {} => file[r] \in rejects

CopiedFirst(r) == pc[r] = "deleting" => file[r] \in processed

RunInv(r) ==
  BetweenFiles(r) /\ CountersFit(r) /\ FilePublished(r) /\ RejectsFirst(r) /\ CopiedFirst(r)

IInv ==
  /\ TypeOK
  /\ \A r \in Producer : RunInv(r)
  /\ ProcessedIsPublished
  /\ ProcessedHasRejects

(* It holds of idle runs.                                                  *)
LEMMA IInvInit == Init => IInv
<1> SUFFICES ASSUME Init PROVE IInv
  OBVIOUS
<1>1. ASSUME NEW r \in Producer PROVE RunInv(r)
  BY DEF Init, ProducerInit, RunInv, BetweenFiles, CountersFit, FilePublished, RejectsFirst,
     CopiedFirst, Held
<1>2. ProcessedIsPublished /\ ProcessedHasRejects
  BY DEF Init, ProcessedIsPublished, ProcessedHasRejects
<1> QED
  BY <1>1, <1>2, TypeInit DEF IInv

-----------------------------------------------------------------------------
(* Steps of others.                                                        *)

Still(r) ==
  /\ pc'[r] = pc[r] /\ file'[r] = file[r] /\ line'[r] = line[r] /\ before'[r] = before[r]
  /\ queue'[r] = queue[r] /\ acked'[r] = acked[r] /\ errored'[r] = errored[r]
  /\ delivered'[r] = delivered[r]

Grows == topic \subseteq topic' /\ processed \subseteq processed' /\ rejects \subseteq rejects'

(* A run that stands still keeps its invariant.                            *)
LEMMA StillKeeps ==
  ASSUME NEW r \in Producer, RunInv(r), Still(r), Grows PROVE RunInv(r)'
<1>1. Held(r)' = Held(r) /\ Sent(r)' = Sent(r)
  BY DEF Still, Held, Sent
<1>2. CountersFit(r)'
  BY <1>1 DEF RunInv, CountersFit, Still, Grows
<1>3. BetweenFiles(r)' /\ FilePublished(r)' /\ RejectsFirst(r)' /\ CopiedFirst(r)'
  BY <1>1
  DEF RunInv, BetweenFiles, FilePublished, RejectsFirst, CopiedFirst, Still, Grows, Readable,
      Events, RowsOf
<1> QED
  BY <1>2, <1>3 DEF RunInv

\* The steps of one run, with its producer's thread.
StepOf(r) ==
  Run(r) \/ Background(r) \/ QueueStaysFull(r) \/ FlushTimesOut(r) \/ Expiry(r)
  \/ CallRaises(r) \/ Crash(r)

(* A step of a run touches no other; the topic and the stores of results   *)
(* only grow.                                                              *)
LEMMA Apart ==
  ASSUME TypeOK, NEW r \in Producer, StepOf(r)
  PROVE  Grows /\ \A q \in Producer : q # r => Still(q)
<1> USE DEF Still, Grows, TypeOK, ProducerTypeOK, Goto
<1>start. CASE StartRun(r) \/ SkipFile(r) \/ OpenFile(r) \/ RejectRow(r)
  BY <1>start DEF StartRun, SkipFile, OpenFile, RejectRow, producerVars, storeVars
<1>send. CASE SendRow(r) \/ AwaitRoomForRow(r)
  BY <1>send
  DEF SendRow, AwaitRoomForRow, Enqueue, AwaitRoom, RunCallbacks, runVars, storeVars
<1>goto. CASE ReadFails(r) \/ CheckCounts(r) \/ SourceMissing(r) \/ CallRaises(r)
  BY <1>goto DEF ReadFails, CheckCounts, SourceMissing, CallRaises, producerVars, storeVars
<1>flush. CASE EndOfFile(r) \/ QueueStaysFull(r)
  BY <1>flush DEF EndOfFile, Flush, RunCallbacks, QueueStaysFull, GiveUp, storeVars
<1>store. CASE WriteRejects(r) \/ CopyFile(r) \/ DeleteFile(r)
  BY <1>store DEF WriteRejects, CopyFile, DeleteFile, producerVars
<1>thread. CASE Background(r) \/ Expiry(r)
  BY <1>thread DEF Background, Expiry, Deliver, Expire, runVars, storeVars
<1>end. CASE EndRun(r)
  BY <1>end DEF EndRun, Forget, storeVars
<1> QED
  BY <1>start, <1>send, <1>goto, <1>flush, <1>store, <1>thread, <1>end
  DEF StepOf, Run, FlushEnds, FlushTimesOut, Finish, Abort, Crash

-----------------------------------------------------------------------------
(* Steps of a run.                                                         *)

(* Outside its files a run has little to keep.                             *)
LEMMA OutsideFiles ==
  ASSUME NEW r \in Producer, pc'[r] \in {"idle", "looping", "failing"},
         pc'[r] # "failing" => Held(r)' = {}
  PROVE  RunInv(r)'
  BY DEF RunInv, BetweenFiles, CountersFit, FilePublished, RejectsFirst, CopiedFirst

(* The facts of a run inside its file.                                     *)
LEMMA InFile ==
  ASSUME TypeOK, NEW r \in Producer, RunInv(r), pc[r] \in {"sending", "checking"}
  PROVE  /\ file[r] \in Name /\ line[r] \in 0..Len(Rows[file[r]])
         /\ Len(Rows[file[r]]) \in Nat
         /\ Sent(r) \in SUBSET Message /\ acked[r] \in SUBSET Message
         /\ delivered[r] \in Nat /\ before[r] \in Nat
         /\ CountersFit(r)
<1>1. file[r] \in Name
  BY DEF TypeOK, Reading
<1>2. line[r] \in 0..Len(Rows[file[r]])
  BY DEF RunInv, CountersFit
<1>3. {file[r]} \X (1..Len(Rows[file[r]])) \subseteq Message /\ Len(Rows[file[r]]) \in Nat
  BY <1>1, FileRows
<1>4. Sent(r) \subseteq {file[r]} \X (1..Len(Rows[file[r]]))
  BY <1>2, <1>3 DEF Sent
<1> QED
  BY <1>1, <1>2, <1>3, <1>4 DEF RunInv, TypeOK, ProducerTypeOK

(* Counting the reports that have come in.                                 *)
LEMMA CallbacksCount ==
  ASSUME TypeOK, NEW r \in Producer, RunInv(r), pc[r] \in {"sending", "checking"},
         RunCallbacks(r), topic' = topic
  PROVE  /\ acked'[r] = {} /\ errored'[r] = {}
         /\ \E D \in SUBSET (Sent(r) \cap topic') :
              /\ D \cap queue[r] = {}
              /\ delivered'[r] = before[r] + Cardinality(D)
<1>1. PICK D \in SUBSET (Sent(r) \cap topic) :
             D \cap Held(r) = {} /\ delivered[r] = before[r] + Cardinality(D)
  BY InFile DEF CountersFit
<1>2. /\ acked'[r] = {} /\ errored'[r] = {}
      /\ delivered'[r] = delivered[r] + Cardinality(acked[r])
  BY DEF RunCallbacks, TypeOK, ProducerTypeOK
<1>3. /\ D \in SUBSET Message /\ acked[r] \in SUBSET Message
      /\ D \cap acked[r] = {} /\ (D \cup acked[r]) \cap queue[r] = {}
      /\ D \cup acked[r] \subseteq Sent(r) \cap topic
  BY <1>1, InFile DEF CountersFit, Held
<1>4. /\ Cardinality(D \cup acked[r]) = Cardinality(D) + Cardinality(acked[r])
      /\ Cardinality(D) \in Nat /\ Cardinality(acked[r]) \in Nat
  BY <1>3, SizesAdd, MessagesAreFinite
<1>5. delivered'[r] = before[r] + Cardinality(D \cup acked[r])
  BY <1>1, <1>2, <1>4, InFile
<1> QED
  BY <1>2, <1>3, <1>5

(* A good row is sent.                                                     *)
LEMMA SendKeeps ==
  ASSUME TypeOK, NEW r \in Producer, RunInv(r), SendRow(r) PROVE RunInv(r)'
<1> DEFINE m == <<file[r], line[r] + 1>>
<1>1. /\ pc[r] = "sending" /\ pc'[r] = "sending"
      /\ line[r] < Len(Rows[file[r]]) /\ Rows[file[r]][line[r] + 1] = "good"
      /\ file'[r] = file[r] /\ before'[r] = before[r] /\ line'[r] = line[r] + 1
      /\ queue'[r] = queue[r] \cup {m}
      /\ RunCallbacks(r) /\ topic' = topic
  BY DEF SendRow, NextRow, Enqueue, TypeOK, ProducerTypeOK
<1>2. /\ acked'[r] = {} /\ errored'[r] = {}
      /\ \E D \in SUBSET (Sent(r) \cap topic') :
           D \cap queue[r] = {} /\ delivered'[r] = before[r] + Cardinality(D)
  BY <1>1, CallbacksCount
<1>3. /\ line[r] \in Nat /\ line'[r] \in 0..Len(Rows[file[r]])
      /\ \A k \in 1..line'[r] : k \in 1..line[r] \/ k = line[r] + 1
      /\ 1..line[r] \subseteq 1..line'[r] /\ line[r] + 1 \in 1..line'[r]
  BY <1>1, InFile
<1>4. Sent(r)' = Sent(r) \cup {m}
  BY <1>1, <1>3 DEF Sent
<1>5. m \notin Sent(r)
  BY <1>3 DEF Sent
<1>6. Held(r)' = queue[r] \cup {m}
  BY <1>1, <1>2 DEF Held
<1>7. queue[r] \subseteq Sent(r)
  BY <1>1, InFile DEF CountersFit, Held
<1>8. \A k \in 1..line'[r] : Rows[file[r]][k] # "broken"
  BY <1>1, <1>3, InFile DEF CountersFit
<1>9. CountersFit(r)'
  <2> HIDE DEF m
  <2>1. PICK D \in SUBSET (Sent(r) \cap topic') :
          D \cap queue[r] = {} /\ delivered'[r] = before[r] + Cardinality(D)
    BY <1>2
  <2>2. D \in SUBSET (Sent(r)' \cap topic') /\ D \cap Held(r)' = {}
    BY <2>1, <1>4, <1>5, <1>6
  <2> QED
    BY <1>1, <1>2, <1>3, <1>4, <1>6, <1>7, <1>8, <2>1, <2>2 DEF CountersFit
<1> QED
  BY <1>1, <1>9 DEF RunInv, BetweenFiles, FilePublished, RejectsFirst, CopiedFirst

(* Waiting for room and the flush at the end count reports, and send       *)
(* nothing.                                                                *)
LEMMA PollKeeps ==
  ASSUME TypeOK, NEW r \in Producer, RunInv(r), AwaitRoomForRow(r) \/ EndOfFile(r)
  PROVE  RunInv(r)'
<1>1. /\ pc[r] = "sending" /\ pc'[r] \in {"sending", "checking"}
      /\ pc'[r] = "checking" => line[r] = Len(Rows[file[r]])
      /\ file'[r] = file[r] /\ before'[r] = before[r] /\ line'[r] = line[r]
      /\ queue'[r] = queue[r]
      /\ RunCallbacks(r) /\ topic' = topic
  BY DEF AwaitRoomForRow, NextRow, AwaitRoom, EndOfFile, Flush, Goto, runVars, TypeOK,
     ProducerTypeOK
<1>2. /\ acked'[r] = {} /\ errored'[r] = {}
      /\ \E D \in SUBSET (Sent(r) \cap topic') :
           D \cap queue[r] = {} /\ delivered'[r] = before[r] + Cardinality(D)
  BY <1>1, CallbacksCount
<1>3. Sent(r)' = Sent(r) /\ Held(r)' = queue[r] /\ queue[r] \subseteq Sent(r)
  BY <1>1, <1>2, InFile DEF Sent, Held, CountersFit
<1>4. CountersFit(r)'
  BY <1>1, <1>2, <1>3, InFile DEF CountersFit
<1> QED
  BY <1>1, <1>4 DEF RunInv, BetweenFiles, FilePublished, RejectsFirst, CopiedFirst

(* A bad row is passed over.                                               *)
LEMMA RejectKeeps ==
  ASSUME TypeOK, NEW r \in Producer, RunInv(r), RejectRow(r) PROVE RunInv(r)'
<1>1. /\ pc[r] = "sending" /\ pc'[r] = "sending"
      /\ line[r] < Len(Rows[file[r]]) /\ Rows[file[r]][line[r] + 1] = "bad"
      /\ file'[r] = file[r] /\ before'[r] = before[r] /\ line'[r] = line[r] + 1
      /\ UNCHANGED producerVars
  BY DEF RejectRow, NextRow, TypeOK
<1>2. /\ line[r] \in Nat /\ line'[r] \in 0..Len(Rows[file[r]])
      /\ \A k \in 1..line'[r] : k \in 1..line[r] \/ k = line[r] + 1
      /\ 1..line[r] \subseteq 1..line'[r]
  BY <1>1, InFile
<1>3. Sent(r)' = Sent(r) /\ Held(r)' = Held(r)
  BY <1>1, <1>2 DEF Sent, Held, producerVars
<1>4. CountersFit(r)'
  BY <1>1, <1>2, <1>3, InFile DEF CountersFit, producerVars
<1> QED
  BY <1>1, <1>4 DEF RunInv, BetweenFiles, FilePublished, RejectsFirst, CopiedFirst

(* The counters start with the file.                                       *)
LEMMA OpenKeeps ==
  ASSUME TypeOK, NEW r \in Producer, RunInv(r), OpenFile(r) PROVE RunInv(r)'
<1>1. /\ pc[r] = "looping" /\ pc'[r] \in {"sending", "failing"}
      /\ file'[r] = Min(todo[r]) /\ Min(todo[r]) \in Name
      /\ line'[r] = 0 /\ before'[r] = delivered[r]
      /\ UNCHANGED producerVars
  BY MinIsName DEF OpenFile, Goto, TypeOK
<1>2. Held(r) = {} /\ Held(r)' = {} /\ acked'[r] = {}
  BY <1>1 DEF RunInv, BetweenFiles, Held, producerVars
<1>3. CountersFit(r)'
  <2>1. Len(Rows[file'[r]]) \in Nat /\ delivered'[r] = before'[r] + Cardinality({})
    BY <1>1, FileRows, FS_EmptySet DEF producerVars, TypeOK, ProducerTypeOK
  <2> QED
    BY <1>1, <1>2, <2>1 DEF CountersFit
<1> QED
  BY <1>1, <1>3 DEF RunInv, BetweenFiles, FilePublished, RejectsFirst, CopiedFirst

(* Counters that fit and agree with the file leave nothing to be published.*)
LEMMA CheckKeeps ==
  ASSUME TypeOK, NEW r \in Producer, RunInv(r), CheckCounts(r) PROVE RunInv(r)'
<1>1. /\ pc[r] = "checking" /\ pc'[r] \in {"failing", "rejecting", "copying"}
      /\ pc'[r] # "failing" => Confirmed(r)
      /\ pc'[r] = "copying" => RowsOf(file[r], "bad") = {}
      /\ file'[r] = file[r]
      /\ UNCHANGED producerVars
  BY DEF CheckCounts, Goto, TypeOK
<1>2. CASE pc'[r] = "failing"
  BY <1>2, OutsideFiles
<1>3. CASE pc'[r] # "failing"
  <2>1. file[r] \in Name /\ line[r] = Len(Rows[file[r]])
    BY <1>1, InFile DEF CountersFit
  <2>2. \A k \in 1..Len(Rows[file[r]]) : Rows[file[r]][k] # "broken"
    BY <1>1, <2>1, InFile DEF CountersFit
  <2>3. Readable(file[r]) /\ Sent(r) = Events(file[r])
    BY <2>1, <2>2 DEF Readable, RowsOf, Sent, Events
  <2>4. PICK D \in SUBSET (Sent(r) \cap topic) :
               D \cap Held(r) = {} /\ delivered[r] = before[r] + Cardinality(D)
    BY <1>1, InFile DEF CountersFit
  <2>5. IsFiniteSet(Sent(r)) /\ Cardinality(D) \in Nat
    BY <1>1, <2>4, InFile, MessagesAreFinite
  <2>6. Cardinality(D) = Cardinality(Sent(r))
    <3>1. delivered[r] - before[r] = Cardinality(Events(file[r]))
      BY <1>1, <1>3, <2>1, <2>3, EventCount DEF Confirmed
    <3> QED
      BY <1>1, <2>3, <2>4, <2>5, <3>1, InFile
  <2>7. D = Sent(r)
    BY <2>4, <2>5, <2>6, FS_Subset
  <2>8. Events(file[r]) \subseteq topic /\ Held(r) = {}
    BY <1>1, <2>3, <2>4, <2>7, InFile DEF CountersFit
  <2> QED
    BY <1>1, <1>3, <2>3, <2>8
    DEF RunInv, BetweenFiles, CountersFit, FilePublished, RejectsFirst, CopiedFirst, Held,
        Readable, Events, RowsOf, producerVars
<1> QED
  BY <1>2, <1>3

(* Rejects, copy and deletion follow each other.                           *)
LEMMA StoreKeeps ==
  ASSUME TypeOK, NEW r \in Producer, RunInv(r),
         WriteRejects(r) \/ CopyFile(r) \/ DeleteFile(r)
  PROVE  RunInv(r)'
<1>1. /\ pc[r] \in {"rejecting", "copying", "deleting"} /\ Held(r)' = Held(r)
      /\ file'[r] = file[r] /\ topic' = topic
  BY DEF WriteRejects, CopyFile, DeleteFile, Held, producerVars
<1>2. Held(r) = {}
  BY <1>1 DEF RunInv, BetweenFiles
<1>3. CASE WriteRejects(r) \/ CopyFile(r)
  BY <1>1, <1>2, <1>3
  DEF WriteRejects, CopyFile, Goto, TypeOK, RunInv, BetweenFiles, CountersFit, FilePublished,
      RejectsFirst, CopiedFirst, Readable, Events, RowsOf
<1>4. CASE DeleteFile(r)
  BY <1>1, <1>2, <1>4, OutsideFiles DEF DeleteFile, Goto, TypeOK
<1> QED
  BY <1>3, <1>4

(* The producer's thread finishes a message, well or badly.                *)
LEMMA ThreadKeeps ==
  ASSUME TypeOK, NEW r \in Producer, RunInv(r), Background(r) \/ Expiry(r)
  PROVE  RunInv(r)'
<1>1. PICK m \in queue[r] : Deliver(r, m) \/ Expire(r, m)
  BY DEF Background, Expiry
<1>2. /\ pc' = pc /\ file' = file /\ line' = line /\ before' = before
      /\ delivered' = delivered /\ processed' = processed /\ rejects' = rejects
      /\ topic \subseteq topic'
      /\ queue'[r] = queue[r] \ {m}
      /\ \/ acked'[r] = acked[r] \cup {m} /\ errored'[r] = errored[r] /\ m \in topic'
         \/ acked'[r] = acked[r] /\ errored'[r] = errored[r] \cup {m}
  BY <1>1 DEF Background, Expiry, Deliver, Expire, runVars, storeVars, TypeOK, ProducerTypeOK
<1>3. Held(r)' = Held(r) /\ Sent(r)' = Sent(r)
  BY <1>1, <1>2 DEF Held, Sent
<1>4. CountersFit(r)'
  BY <1>2, <1>3 DEF RunInv, CountersFit
<1> QED
  BY <1>2, <1>3, <1>4
  DEF RunInv, BetweenFiles, FilePublished, RejectsFirst, CopiedFirst, Readable, Events, RowsOf

(* Every step of a run keeps its invariant.                                *)
LEMMA OwnStep ==
  ASSUME TypeOK, NEW r \in Producer, RunInv(r), StepOf(r) PROVE RunInv(r)'
<1>1. CASE StartRun(r) \/ SkipFile(r)
  <2>1. pc[r] \in {"idle", "looping"} /\ pc'[r] = "looping" /\ Held(r)' = Held(r)
    BY <1>1 DEF StartRun, SkipFile, Goto, TypeOK, Held, producerVars
  <2> QED
    BY <2>1, OutsideFiles DEF RunInv, BetweenFiles
<1>2. CASE ReadFails(r) \/ SourceMissing(r) \/ CallRaises(r) \/ QueueStaysFull(r)
  <2>1. pc'[r] = "failing"
    BY <1>2 DEF ReadFails, SourceMissing, CallRaises, QueueStaysFull, Goto, TypeOK
  <2> QED
    BY <2>1, OutsideFiles
<1>3. CASE EndRun(r)
  <2>1. pc'[r] = "idle" /\ Held(r)' = {}
    BY <1>3 DEF EndRun, Goto, Forget, Held, TypeOK, ProducerTypeOK
  <2> QED
    BY <2>1, OutsideFiles
<1> QED
  BY <1>1, <1>2, <1>3, SendKeeps, PollKeeps, RejectKeeps, OpenKeeps, CheckKeeps, StoreKeeps,
     ThreadKeeps
  DEF StepOf, Run, FlushEnds, FlushTimesOut, Finish, Abort, Crash

(* A file is moved by a run that knows it is published.                    *)
LEMMA ProcessedStep ==
  ASSUME IInv, [Next]_vars, NEW n \in processed', n \notin processed
  PROVE  \E r \in Producer : pc[r] = "copying" /\ n = file[r]
<1>1. PICK r \in Producer : CopyFile(r)
  BY DEF Next, Run, Trouble, Upload, StartRun, SkipFile, OpenFile, SendRow, AwaitRoomForRow,
     RejectRow, ReadFails, FlushEnds, FlushTimesOut, EndOfFile, CheckCounts, WriteRejects,
     DeleteFile, SourceMissing, CallRaises, QueueStaysFull, Finish, Abort, Crash, EndRun,
     Background, Expiry, storeVars, vars
<1> QED
  BY <1>1 DEF CopyFile

(* The invariant is inductive.                                             *)
LEMMA IInvStep == IInv /\ [Next]_vars => IInv'
<1> SUFFICES ASSUME IInv, [Next]_vars PROVE IInv'
  OBVIOUS
<1> USE DEF IInv
<1>1. TypeOK'
  BY TypeStep
<1>2. Grows /\ \A q \in Producer : RunInv(q)'
  <2>1. (\E r \in Producer : StepOf(r)) => Grows /\ \A q \in Producer : RunInv(q)'
    <3> SUFFICES ASSUME NEW r \in Producer, StepOf(r)
                 PROVE Grows /\ \A q \in Producer : RunInv(q)'
      OBVIOUS
    <3> QED
      BY Apart, OwnStep, StillKeeps
  <2>2. (\E n \in Name : Upload(n)) \/ UNCHANGED vars
           => Grows /\ \A q \in Producer : RunInv(q)'
    BY StillKeeps DEF Upload, vars, Grows, Still, producerVars, runVars, storeVars
  <2> QED
    BY <2>1, <2>2 DEF Next, Trouble, StepOf
<1>3. ASSUME NEW n \in processed'
      PROVE  /\ Readable(n) /\ Events(n) \subseteq topic'
             /\ RowsOf(n, "bad") # {} => n \in rejects'
  <2>1. CASE n \in processed
    BY <1>2, <2>1 DEF ProcessedIsPublished, ProcessedHasRejects, Grows
  <2>2. CASE n \notin processed
    BY <1>2, <1>3, <2>2, ProcessedStep DEF RunInv, FilePublished, RejectsFirst, Grows
  <2> QED BY <2>1, <2>2
<1>4. ProcessedIsPublished' /\ ProcessedHasRejects'
  BY <1>3 DEF ProcessedIsPublished, ProcessedHasRejects, Readable, Events, RowsOf
<1> QED
  BY <1>1, <1>2, <1>4

LEMMA Inductive == Spec => []IInv
  BY IInvInit, IInvStep, PTL DEF Spec

-----------------------------------------------------------------------------
(* The theorems.                                                           *)

(* A file is moved only when it was read to its end and every event of it  *)
(* is on the topic: the counts that main() compares suffice, although a    *)
(* count does not say which messages it counts.                            *)
THEOREM MovedIsPublished == Spec => []ProcessedIsPublished
<1>1. IInv => ProcessedIsPublished
  BY DEF IInv
<1> QED
  BY <1>1, Inductive, PTL

(* A moved file has its rejects on record (write_rejects() in main()).     *)
THEOREM MovedHasRejects == Spec => []ProcessedHasRejects
<1>1. IInv => ProcessedHasRejects
  BY DEF IInv
<1> QED
  BY <1>1, Inductive, PTL

-----------------------------------------------------------------------------
(* The job implements FileTransfer.                                        *)

\* What a run has in hand was uploaded, and so were the events of its producer.
InHand(r) ==
  /\ pc[r] \in Reading => file[r] \in inbox \cup processed
  /\ pc[r] = "rejecting" => RowsOf(file[r], "bad") # {}
  /\ \A m \in queue[r] : \E n \in inbox \cup processed : m \in Events(n)

Uploaded == \A r \in Producer : InHand(r)

(* Nothing that was uploaded is lost.                                      *)
LEMMA UploadsStay ==
  ASSUME IInv, [Next]_vars
  PROVE  inbox \cup processed \subseteq inbox' \cup processed'
<1>1. CASE \E r \in Producer : DeleteFile(r)
  BY <1>1 DEF DeleteFile, IInv, RunInv, CopiedFirst
<1>2. CASE \E r \in Producer : CopyFile(r)
  BY <1>2 DEF CopyFile
<1>3. CASE \E n \in Name : Upload(n)
  BY <1>3 DEF Upload
<1>4. \/ \E r \in Producer : DeleteFile(r) \/ CopyFile(r)
      \/ \E n \in Name : Upload(n)
      \/ inbox' = inbox /\ processed' = processed
  BY DEF Next, Run, Trouble, StartRun, SkipFile, OpenFile, SendRow, AwaitRoomForRow,
     RejectRow, ReadFails, FlushEnds, FlushTimesOut, EndOfFile, CheckCounts, WriteRejects,
     SourceMissing, CallRaises, QueueStaysFull, Finish, Abort, Crash, EndRun, Background,
     Expiry, storeVars, vars
<1> QED
  BY <1>1, <1>2, <1>3, <1>4

(* A run that stands still keeps what it has in hand.                      *)
LEMMA StillInHand ==
  ASSUME NEW r \in Producer, InHand(r), pc'[r] = pc[r], file'[r] = file[r],
         queue'[r] \subseteq queue[r],
         inbox \cup processed \subseteq inbox' \cup processed'
  PROVE  InHand(r)'
BY DEF InHand, RowsOf, Events

(* A run takes its file from the inbox, and its events from the file.      *)
LEMMA OwnInHand ==
  ASSUME TypeOK, NEW r \in Producer, InHand(r), StepOf(r),
         inbox \cup processed \subseteq inbox' \cup processed'
  PROVE  InHand(r)'
<1> USE DEF TypeOK, ProducerTypeOK, Goto, Reading
<1>1. CASE StartRun(r) \/ SkipFile(r) \/ RejectRow(r) \/ AwaitRoomForRow(r)
           \/ Background(r) \/ Expiry(r)
  <2>1. file'[r] = file[r] /\ queue'[r] \subseteq queue[r]
        /\ (pc'[r] = pc[r] \/ pc'[r] = "looping")
    BY <1>1 DEF StartRun, SkipFile, RejectRow, AwaitRoomForRow, AwaitRoom, Background, Expiry,
       Deliver, Expire, producerVars, runVars
  <2> QED
    BY <2>1 DEF InHand, RowsOf, Events
<1>2. CASE OpenFile(r)
  <2>1. /\ pc'[r] \in {"sending", "failing"} /\ queue' = queue
        /\ pc'[r] = "sending" => file'[r] \in inbox
    BY <1>2 DEF OpenFile, producerVars
  <2> QED
    BY <2>1 DEF InHand, RowsOf, Events
<1>3. CASE SendRow(r)
  <2>1. /\ pc[r] = "sending" /\ pc'[r] = "sending" /\ file'[r] = file[r]
        /\ queue'[r] = queue[r] \cup {<<file[r], line[r] + 1>>}
        /\ line[r] < Len(Rows[file[r]]) /\ Rows[file[r]][line[r] + 1] = "good"
    BY <1>3 DEF SendRow, NextRow, Enqueue
  <2>2. file[r] \in Name /\ line[r] \in Nat /\ file[r] \in inbox \cup processed
    BY <2>1 DEF InHand
  <2>3. line[r] + 1 \in 1..Len(Rows[file[r]])
    BY <2>1, <2>2, FileRows
  <2>4. <<file[r], line[r] + 1>> \in Events(file[r])
    BY <2>1, <2>3 DEF Events, RowsOf
  <2> QED
    BY <2>1, <2>2, <2>4 DEF InHand, RowsOf, Events
<1>4. CASE CheckCounts(r)
  BY <1>4 DEF CheckCounts, producerVars, storeVars, InHand, RowsOf, Events
<1>5. CASE EndOfFile(r)
  BY <1>5 DEF EndOfFile, Flush, storeVars, InHand, RowsOf, Events
<1>6. CASE WriteRejects(r) \/ CopyFile(r) \/ DeleteFile(r)
  <2>1. /\ file'[r] = file[r] /\ queue' = queue /\ pc[r] \in Reading
        /\ pc'[r] \in {"copying", "deleting", "looping"}
    BY <1>6 DEF WriteRejects, CopyFile, DeleteFile, producerVars
  <2> QED
    BY <2>1 DEF InHand, RowsOf, Events
<1>7. CASE ReadFails(r) \/ SourceMissing(r) \/ CallRaises(r) \/ QueueStaysFull(r)
  <2>1. pc'[r] = "failing" /\ queue' = queue
    BY <1>7 DEF ReadFails, SourceMissing, CallRaises, QueueStaysFull, GiveUp, producerVars
  <2> QED
    BY <2>1 DEF InHand, RowsOf, Events
<1>8. CASE EndRun(r)
  BY <1>8 DEF EndRun, Forget, InHand
<1> QED
  BY <1>1, <1>2, <1>3, <1>4, <1>5, <1>6, <1>7, <1>8
  DEF StepOf, Run, FlushEnds, FlushTimesOut, Finish, Abort, Crash

LEMMA UploadedStep == IInv /\ Uploaded /\ [Next]_vars => Uploaded'
<1> SUFFICES ASSUME IInv, Uploaded, [Next]_vars, NEW q \in Producer PROVE InHand(q)'
  BY DEF Uploaded
<1>1. TypeOK /\ InHand(q) /\ inbox \cup processed \subseteq inbox' \cup processed'
  BY UploadsStay DEF IInv, Uploaded
<1>2. CASE \E r \in Producer : StepOf(r)
  <2>1. PICK r \in Producer : StepOf(r)
    BY <1>2
  <2>2. CASE q = r
    BY <1>1, <2>1, <2>2, OwnInHand
  <2>3. CASE q # r
    BY <1>1, <2>1, <2>3, Apart, StillInHand DEF Still
  <2> QED
    BY <2>2, <2>3
<1>3. CASE (\E n \in Name : Upload(n)) \/ UNCHANGED vars
  BY <1>1, <1>3, StillInHand DEF Upload, vars, producerVars, runVars
<1> QED
  BY <1>2, <1>3 DEF Next, Trouble, StepOf

(* What the abstract names stand for.                                      *)
LEMMA Mapped ==
  ASSUME NEW n \in Name
  PROVE  /\ Transfer!Known(n) <=> n \in inbox \cup processed
         /\ Transfer!Published(n) <=> Readable(n) /\ Events(n) \subseteq topic
BY DEF Transfer!Known, Transfer!Published

(* A confirmed event, also one that is reported lost, was an event of an   *)
(* uploaded file.                                                          *)
LEMMA ThreadTransfers ==
  ASSUME NEW r \in Producer, InHand(r), IInv, Background(r) \/ Expiry(r)
  PROVE  (\E n \in Name : Transfer!Publish(n))
         \/ UNCHANGED <<inbox, processed, topic, rejects>>
<1>1. PICK m \in queue[r] : /\ topic' = topic \/ topic' = topic \cup {m}
                            /\ UNCHANGED <<inbox, processed, rejects>>
  BY DEF Background, Expiry, Deliver, Expire, storeVars
<1>2. PICK n \in inbox \cup processed : m \in Events(n)
  BY DEF InHand
<1>3. n \in Name
  BY <1>2 DEF IInv, TypeOK
<1> QED
  BY <1>1, <1>2, <1>3, Mapped DEF Transfer!Publish

(* The three steps behind the check of the counters.                       *)
LEMMA StoreTransfers ==
  ASSUME NEW r \in Producer, InHand(r), IInv,
         WriteRejects(r) \/ CopyFile(r) \/ DeleteFile(r)
  PROVE  \E n \in Name :
           Transfer!RecordRejects(n) \/ Transfer!Archive(n) \/ Transfer!Remove(n)
<1>1. pc[r] \in {"rejecting", "copying", "deleting"} /\ RunInv(r)
  BY DEF WriteRejects, CopyFile, DeleteFile, IInv
<1>2. file[r] \in Name /\ file[r] \in inbox \cup processed
  BY <1>1 DEF IInv, TypeOK, Reading, InHand
<1>3. Transfer!Known(file[r]) /\ Transfer!Published(file[r])
  BY <1>1, <1>2, Mapped DEF RunInv, FilePublished
<1>4. CASE WriteRejects(r)
  <2>1. Transfer!RecordRejects(file[r])
    BY <1>2, <1>3, <1>4 DEF Transfer!RecordRejects, WriteRejects, InHand, producerVars
  <2> QED
    BY <1>2, <2>1
<1>5. CASE CopyFile(r)
  <2>1. Transfer!Archive(file[r])
    BY <1>1, <1>2, <1>3, <1>5
    DEF Transfer!Archive, CopyFile, RunInv, RejectsFirst, producerVars
  <2> QED
    BY <1>2, <2>1
<1>6. CASE DeleteFile(r)
  <2>1. Transfer!Remove(file[r])
    BY <1>1, <1>6 DEF Transfer!Remove, DeleteFile, RunInv, CopiedFirst, producerVars
  <2> QED
    BY <1>2, <2>1
<1> QED
  BY <1>4, <1>5, <1>6

LEMMA TransferStep ==
  IInv /\ Uploaded /\ [Next]_vars => [Transfer!Next]_<<inbox, processed, topic, rejects>>
<1> SUFFICES ASSUME IInv, Uploaded, [Next]_vars
             PROVE  [Transfer!Next]_<<inbox, processed, topic, rejects>>
  OBVIOUS
<1>1. CASE \E n \in Name : Upload(n)
  BY <1>1 DEF Upload, Transfer!Next, Transfer!Upload, producerVars
<1>2. CASE \E r \in Producer : Background(r) \/ Expiry(r)
  BY <1>2, ThreadTransfers DEF Uploaded, Transfer!Next
<1>3. CASE \E r \in Producer : WriteRejects(r) \/ CopyFile(r) \/ DeleteFile(r)
  BY <1>3, StoreTransfers DEF Uploaded, Transfer!Next
<1>4. \/ \E n \in Name : Upload(n)
      \/ \E r \in Producer : Background(r) \/ Expiry(r)
      \/ \E r \in Producer : WriteRejects(r) \/ CopyFile(r) \/ DeleteFile(r)
      \/ UNCHANGED <<inbox, processed, topic, rejects>>
  BY DEF Next, Run, Trouble, StartRun, SkipFile, OpenFile, SendRow, Enqueue,
     AwaitRoomForRow, AwaitRoom, RejectRow, ReadFails, FlushEnds, FlushTimesOut, EndOfFile,
     Flush, CheckCounts, SourceMissing, CallRaises, QueueStaysFull, GiveUp, Finish, Abort,
     Crash, EndRun, Forget, producerVars, storeVars, vars
<1> QED
  BY <1>1, <1>2, <1>3, <1>4

(* main.py and landing_zone.py: whatever runs do beside each other, every  *)
(* file goes its one way, and nothing is published that was not uploaded.  *)
THEOREM TransfersFiles == Spec => FilesAreTransferred
<1>1. Init => Transfer!Init
  BY DEF Init, ProducerInit, Transfer!Init
<1>2. Init => Uploaded
  BY DEF Init, ProducerInit, Uploaded, InHand, Reading
<1> QED
  BY <1>1, <1>2, TransferStep, UploadedStep, Inductive, PTL
  DEF Spec, FilesAreTransferred, Transfer!Spec

(* mark_processed() copies before it deletes: a file is always somewhere,  *)
(* whichever run dies between the two.                                     *)
THEOREM NothingVanishes == Spec => [][inbox \cup processed \subseteq inbox' \cup processed']_vars
  BY UploadsStay, Inductive, PTL DEF Spec
=============================================================================
