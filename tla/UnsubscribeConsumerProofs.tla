---------------------- MODULE UnsubscribeConsumerProofs ----------------------
(***************************************************************************)
(* Theorems about UnsubscribeConsumer for every deployment: any number of  *)
(* instances, partitions, subscriptions and records, any retry budget.     *)
(***************************************************************************)
EXTENDS UnsubscribeConsumer, TLAPS

(* A record is a partition of the topics and an offset inside its log.     *)
LEMMA RecordShape ==
  ASSUME NEW r \in Record
  PROVE  /\ r.partition \in Partition
         /\ r.offset \in 1..Len(Log[r.partition])
         /\ r = [partition |-> r.partition, offset |-> r.offset]
BY DEF Record

(* A log is finite: its length is a number.                                 *)
LEMMA LogLength ==
  ASSUME NEW p \in Partition
  PROVE  Len(Log[p]) \in Nat
BY DeploymentAssumption

(* A position inside a log is the offset of a record.                      *)
LEMMA RecordAt ==
  ASSUME NEW p \in Partition, NEW o \in 1..Len(Log[p])
  PROVE  [partition |-> p, offset |-> o] \in Record
BY DEF Record

(* The empty hand is no record.                                            *)
LEMMA NoRecordIsNone == NoRecord \notin Record
<1>1. SUFFICES ASSUME NoRecord \in Record PROVE FALSE
  OBVIOUS
<1>2. NoRecord.offset \in 1..Len(Log[NoRecord.partition]) /\ NoRecord.partition \in Partition
  BY <1>1, RecordShape
<1>3. NoRecord.offset = 0
  BY DEF NoRecord
<1> QED BY <1>2, <1>3, LogLength

(* What a record holds is an event of the domain, or undecodable bytes.    *)
LEMMA ValueType ==
  ASSUME NEW r \in Record
  PROVE  Value(r) \in Event \cup {Undecodable}
BY RecordShape, LogLength, DeploymentAssumption DEF Value

-----------------------------------------------------------------------------
(* The UPSERT.                                                             *)

(* Upsert() yields a row: the type of the table is kept.                   *)
LEMMA UpsertType ==
  ASSUME NEW old \in Row, NEW e \in Event
  PROVE  Upsert(old, e) \in Row
BY DEF Upsert, Row

(* After the UPSERT the row honours the request it executed.               *)
LEMMA UpsertHonours ==
  ASSUME NEW old \in Row, NEW e \in Event
  PROVE  HonouredBy(e, Upsert(old, e))
BY EventAssumption DEF Upsert, Replaces, HonouredBy, Row

(* A request honoured before the UPSERT is honoured after it.              *)
LEMMA UpsertKeeps ==
  ASSUME NEW old \in Row, NEW e \in Event, NEW d \in Event, HonouredBy(d, old)
  PROVE  HonouredBy(d, Upsert(old, e))
BY EventAssumption DEF Upsert, Replaces, HonouredBy, Row

(* A written row is replaced only by a strictly earlier request.           *)
LEMMA UpsertEarlier ==
  ASSUME NEW old \in Event, NEW e \in Event, Upsert(old, e) # old
  PROVE  Upsert(old, e) = e /\ RequestedAt[e] < RequestedAt[old]
BY EventAssumption DEF Upsert, Replaces

(* A request whose wish is granted already changes nothing: repeating a    *)
(* call, at once or after others, is harmless (the WHERE clause of the     *)
(* UPSERT in db.py).                                                       *)
THEOREM RepeatsAreAbsorbed ==
  ASSUME NEW old \in Row, NEW e \in Event, NEW d \in Event
  PROVE  /\ HonouredBy(e, old) => Upsert(old, e) = old
         /\ Upsert(Upsert(old, e), e) = Upsert(old, e)
         /\ Upsert(Upsert(Upsert(old, e), d), e) = Upsert(Upsert(old, e), d)
<1>1. ASSUME NEW current \in Row, HonouredBy(e, current)
      PROVE  Upsert(current, e) = current
  BY <1>1, EventAssumption DEF Upsert, Replaces, HonouredBy
<1>2. Upsert(old, e) \in Row /\ Upsert(Upsert(old, e), d) \in Row
  BY UpsertType
<1>3. HonouredBy(e, Upsert(old, e))
  BY UpsertHonours
<1>4. HonouredBy(e, Upsert(Upsert(old, e), d))
  BY <1>2, <1>3, UpsertKeeps
<1> QED BY <1>1, <1>2, <1>3, <1>4

(* Two requests of different times leave the same row in either order: the *)
(* topics, their partitions and the retries may mix them as they like.     *)
(* (Of two that ask for the same time the first to come is kept.)          *)
THEOREM RequestsCommute ==
  ASSUME NEW old \in Row, NEW d \in Event, NEW e \in Event,
         RequestedAt[d] = RequestedAt[e] => d = e
  PROVE  Upsert(Upsert(old, d), e) = Upsert(Upsert(old, e), d)
<1>1. RequestedAt[d] \in Nat /\ RequestedAt[e] \in Nat /\ NoRow \notin Event
      /\ Subscribed \notin Event /\ NoRow # Subscribed
  BY EventAssumption
<1>2. CASE old \in {NoRow, Subscribed}
  BY <1>1, <1>2 DEF Upsert, Replaces
<1>3. CASE old \in Event
  <2>1. RequestedAt[old] \in Nat
    BY <1>3, EventAssumption
  <2> QED BY <1>1, <1>3, <2>1 DEF Upsert, Replaces
<1> QED BY <1>2, <1>3 DEF Row

-----------------------------------------------------------------------------
(* Type correctness.                                                       *)

(* deliver() counts its attempts within the budget.                        *)
LEMMA NextAttempt ==
  ASSUME NEW a \in 0..MaxAttempts, a # MaxAttempts
  PROVE  a + 1 \in 0..MaxAttempts
BY DeploymentAssumption

(* A poll puts a record in hand and moves its position on.                 *)
LEMMA FetchType ==
  ASSUME TypeOK, NEW i \in Instance, NEW p \in Partition, Fetch(i, p)
  PROVE  /\ record' \in [Instance -> Record \cup {NoRecord}]
         /\ record'[i] \in Record
         /\ position' \in [Instance -> [Partition -> Nat]]
<1>1. [partition |-> p, offset |-> position[i][p]] \in Record
  BY RecordAt DEF Fetch
<1>2. record'[i] = [partition |-> p, offset |-> position[i][p]]
  BY DEF Fetch, TypeOK
<1>3. position[i] \in [Partition -> Nat] /\ position[i][p] + 1 \in Nat
  BY DEF TypeOK
<1> QED BY <1>1, <1>2, <1>3 DEF Fetch, TypeOK

(* An instance with a record in hand has one of the topics'.               *)
InHand == {"sending", "waiting", "flushing", "committing"}
HandType == \A i \in Instance : pc[i] \in InHand => record[i] \in Record

(* deliver() is entered only with a decoded event.                         *)
CallType ==
  /\ \A i \in Instance : pc[i] \in {"sending", "waiting"} => Decodable(record[i])
  /\ \A r \in orphans : Decodable(r)

TypeInv == TypeOK /\ HandType /\ CallType

(* The type invariant holds when nothing has started.                      *)
LEMMA TypeInit == Init => TypeInv
BY DeploymentAssumption
   DEF Init, TypeInv, TypeOK, HandType, CallType, Place, InHand, Unassigned, Row

(* Every handler, and everything that disturbs it, keeps the types.        *)
LEMMA TypeStep == TypeInv /\ [Next]_vars => TypeInv'
<1> SUFFICES ASSUME TypeInv, [Next]_vars PROVE TypeInv'
  OBVIOUS
<1> USE DEF TypeInv, TypeOK, HandType, CallType, InHand, Place
<1>start. ASSUME NEW i \in Instance, Start(i) PROVE TypeInv'
  BY <1>start DEF Start, serviceVars
<1>stop. ASSUME NEW i \in Instance, Stop(i) PROVE TypeInv'
  BY <1>stop DEF Stop, kafkaVars, serviceVars
<1>event. ASSUME NEW i \in Instance, NEW p \in Partition, PollEvent(i, p)
          PROVE  TypeInv'
  <2>1. /\ record' \in [Instance -> Record \cup {NoRecord}]
        /\ record'[i] \in Record
        /\ position' \in [Instance -> [Partition -> Nat]]
        /\ \A j \in Instance : j # i => record'[j] = record[j]
    BY <1>event, FetchType DEF PollEvent, Fetch
  <2>a. attempt' \in [Instance -> 0..MaxAttempts]
    BY <1>event, DeploymentAssumption DEF PollEvent
  <2>b. pc' \in [Instance -> Place]
    BY <1>event DEF PollEvent
  <2>c. TypeOK'
    BY <1>event, <2>1, <2>a, <2>b DEF PollEvent, kafkaVars, serviceVars
  <2>2. HandType'
    BY <1>event, <2>1 DEF PollEvent
  <2>3. Decodable(record'[i])
    BY <1>event DEF PollEvent
  <2>4. CallType'
    BY <1>event, <2>1, <2>3
    DEF PollEvent, kafkaVars, serviceVars, Decodable, Value
  <2> QED
    BY <2>c, <2>2, <2>4
<1>undecoded. ASSUME NEW i \in Instance, NEW p \in Partition, PollUndecoded(i, p)
              PROVE  TypeInv'
  <2>1. /\ record' \in [Instance -> Record \cup {NoRecord}]
        /\ record'[i] \in Record
        /\ position' \in [Instance -> [Partition -> Nat]]
        /\ \A j \in Instance : j # i => record'[j] = record[j]
    BY <1>undecoded, FetchType DEF PollUndecoded, Fetch
  <2> QED
    BY <1>undecoded, <2>1 DEF PollUndecoded, Park, kafkaVars, serviceVars
<1>send. ASSUME NEW i \in Instance, Send(i) PROVE TypeInv'
  BY <1>send DEF Send, kafkaVars, serviceVars
<1>accepted. ASSUME NEW i \in Instance, CallAccepted(i) PROVE TypeInv'
  BY <1>accepted DEF CallAccepted, kafkaVars, serviceVars
<1>unparsed. ASSUME NEW i \in Instance, CallUnparsed(i) PROVE TypeInv'
  BY <1>unparsed DEF CallUnparsed, kafkaVars, serviceVars
<1>rejected. ASSUME NEW i \in Instance, CallRejected(i) PROVE TypeInv'
  BY <1>rejected DEF CallRejected, Park, kafkaVars, serviceVars
<1>failed. ASSUME NEW i \in Instance, CallFailed(i) PROVE TypeInv'
  <2>1. record[i] \in Record /\ Decodable(record[i])
    BY <1>failed DEF CallFailed
  <2>2. orphans' \in SUBSET Record /\ \A r \in orphans' : Decodable(r)
    BY <1>failed, <2>1 DEF CallFailed, Abandon
  <2>3. CASE attempt[i] = MaxAttempts
    <3>1. TypeOK'
      <4>1. Park(i, record[i]) /\ UNCHANGED attempt
        BY <1>failed, <2>3 DEF CallFailed
      <4>2. pc' \in [Instance -> Place] /\ pending' \in [Instance -> SUBSET Record]
        BY <2>1, <4>1 DEF Park
      <4> QED
        BY <1>failed, <2>2, <4>1, <4>2 DEF CallFailed, kafkaVars
    <3>2. HandType'
      BY <1>failed, <2>1, <2>3 DEF CallFailed, Park
    <3>3. CallType'
      BY <1>failed, <2>2, <2>3 DEF CallFailed, Park, Decodable, Value
    <3> QED
      BY <3>1, <3>2, <3>3
  <2>4. CASE attempt[i] # MaxAttempts
    <3>1. attempt[i] + 1 \in 0..MaxAttempts
      BY <2>4, NextAttempt
    <3>2. attempt' \in [Instance -> 0..MaxAttempts]
      BY <1>failed, <2>4, <3>1 DEF CallFailed
    <3>3. TypeOK'
      BY <1>failed, <2>2, <2>4, <3>2 DEF CallFailed, kafkaVars
    <3>4. HandType'
      BY <1>failed, <2>1, <2>4 DEF CallFailed
    <3>5. CallType'
      BY <1>failed, <2>1, <2>2, <2>4 DEF CallFailed, Decodable, Value
    <3> QED
      BY <3>3, <3>4, <3>5
  <2> QED
    BY <2>3, <2>4
<1>flush. ASSUME NEW i \in Instance, FlushReturns(i) PROVE TypeInv'
  BY <1>flush DEF FlushReturns, kafkaVars, serviceVars
<1>commit. ASSUME NEW i \in Instance, Commit(i) PROVE TypeInv'
  BY <1>commit, RecordShape, LogLength, DeploymentAssumption
     DEF Commit, SetCommitted, Release, serviceVars
<1>raises. ASSUME NEW i \in Instance, CommitRaises(i) PROVE TypeInv'
  <2>1. record[i] \in Record
    BY <1>raises DEF CommitRaises
  <2>2. committed' \in [Partition -> Nat \ {0}]
    <3>1. record[i].partition \in Partition /\ record[i].offset + 1 \in Nat \ {0}
      BY <2>1, RecordShape, LogLength
    <3> QED
      BY <1>raises, <3>1 DEF CommitRaises, SetCommitted
  <2> QED
    BY <1>raises, <2>2 DEF CommitRaises, serviceVars, Decodable, Value
<1>leave. ASSUME NEW i \in Instance, LeaveLoop(i) PROVE TypeInv'
  BY <1>leave DEF LeaveLoop, kafkaVars, serviceVars
<1>close. ASSUME NEW i \in Instance, Close(i) PROVE TypeInv'
  BY <1>close, DeploymentAssumption DEF Close, Exit, Release, Unassigned
<1>crash. ASSUME NEW i \in Instance, Crash(i) PROVE TypeInv'
  BY <1>crash, DeploymentAssumption DEF Crash, Abandon, Exit, Release, Unassigned
<1>assign. ASSUME NEW i \in Instance, NEW p \in Partition, Assign(i, p)
           PROVE  TypeInv'
  BY <1>assign DEF Assign, kafkaVars, serviceVars
<1>revoke. ASSUME NEW i \in Instance, NEW p \in Partition, Revoke(i, p)
           PROVE  TypeInv'
  BY <1>revoke DEF Revoke, kafkaVars, serviceVars
<1>evict. ASSUME NEW i \in Instance, Evict(i) PROVE TypeInv'
  BY <1>evict DEF Evict, processVars, serviceVars
<1>rejoin. ASSUME NEW i \in Instance, Rejoin(i) PROVE TypeInv'
  BY <1>rejoin DEF Rejoin, serviceVars, Unassigned
<1>delivered. ASSUME NEW i \in Instance, NEW r \in pending[i], DlqDelivered(i, r)
              PROVE  TypeInv'
  BY <1>delivered DEF DlqDelivered, serviceVars
<1>lost. ASSUME NEW i \in Instance, NEW r \in pending[i], DlqFailed(i, r)
         PROVE  TypeInv'
  BY <1>lost DEF DlqFailed, serviceVars
<1>serve. ASSUME NEW i \in Instance, ServeCall(i) PROVE TypeInv'
  <2>1. Value(record[i]) \in Event
    BY <1>serve DEF ServeCall, Decodable
  <2>2. row' \in [Key -> Row]
    BY <1>serve, <2>1, UpsertType, DeploymentAssumption DEF ServeCall, Apply
  <2> QED
    BY <1>serve, <2>2 DEF ServeCall, kafkaVars
<1>orphan. ASSUME NEW r \in orphans, ServeOrphan(r) PROVE TypeInv'
  <2>1. row' \in [Key -> Row]
    BY <1>orphan, UpsertType, DeploymentAssumption DEF ServeOrphan, Apply, Decodable
  <2> QED
    BY <1>orphan, <2>1 DEF ServeOrphan, processVars, kafkaVars
<1>drop. ASSUME NEW r \in orphans, DropOrphan(r) PROVE TypeInv'
  BY <1>drop DEF DropOrphan, processVars, kafkaVars
<1>idle. CASE UNCHANGED vars
  BY <1>idle DEF vars, processVars, kafkaVars, serviceVars, Decodable, Value
<1> QED
  BY <1>start, <1>stop, <1>event, <1>undecoded, <1>send, <1>accepted, <1>rejected,
     <1>failed, <1>flush, <1>commit, <1>raises, <1>unparsed, <1>leave, <1>close, <1>crash,
     <1>assign, <1>revoke, <1>evict, <1>rejoin, <1>delivered, <1>lost, <1>serve,
     <1>orphan, <1>drop, <1>idle
  DEF Next, Operation, Disruption, Process, Kafka, Service

(* The types hold in every deployment, whatever the retry budget.          *)
THEOREM TypeCorrect == Spec => []TypeOK
<1>1. Spec => []TypeInv
  BY TypeInit, TypeStep, PTL DEF Spec
<1>2. TypeInv => TypeOK
  BY DEF TypeInv
<1> QED BY <1>1, <1>2, PTL

-----------------------------------------------------------------------------
(* A settled record stays settled.                                         *)

(* Every step leaves the table alone or executes the call of one record.   *)
LEMMA RowStep ==
  ASSUME TypeInv, [Next]_vars
  PROVE  UNCHANGED row \/ \E q \in Record : Decodable(q) /\ Apply(q)
<1>1. ASSUME NEW i \in Instance, ServeCall(i)
      PROVE  \E q \in Record : Decodable(q) /\ Apply(q)
  BY <1>1 DEF ServeCall, TypeInv, HandType, CallType, InHand
<1>2. ASSUME NEW q \in orphans, ServeOrphan(q)
      PROVE  q \in Record /\ Decodable(q) /\ Apply(q)
  BY <1>2 DEF ServeOrphan, TypeInv, TypeOK, CallType
<1>3. Service => UNCHANGED row \/ (\E i \in Instance : ServeCall(i))
                               \/ (\E q \in orphans : ServeOrphan(q))
  BY DEF Service, DropOrphan
<1>4. Operation => UNCHANGED row \/ Service
  BY DEF Operation, Process, Kafka, Start, PollEvent, PollUndecoded, Send,
         CallAccepted, CallRejected, CallFailed, FlushReturns, Commit, LeaveLoop,
         Close, Exit, Assign, Rejoin, DlqDelivered, DlqFailed, serviceVars
<1>5. Disruption => UNCHANGED row
  BY DEF Disruption, Stop, Crash, Exit, CallUnparsed, CommitRaises, Evict, Revoke, serviceVars
<1> QED
  BY <1>1, <1>2, <1>3, <1>4, <1>5 DEF Next, vars, serviceVars

(* The UPSERT keeps what is honoured.                                      *)
LEMMA ApplyKeeps ==
  ASSUME TypeOK, NEW q \in Record, Decodable(q), Apply(q),
         NEW r \in Record, Honoured(r)
  PROVE  Honoured(r)'
<1>1. Value(q) \in Event /\ Value(r) \in Event
  BY DEF Decodable, Honoured
<1>2. KeyOf[Value(r)] \in Key
  BY <1>1, DeploymentAssumption
<1>3. row[KeyOf[Value(r)]] \in Row
  BY <1>2 DEF TypeOK
<1>4. HonouredBy(Value(r), row'[KeyOf[Value(r)]])
  BY <1>1, <1>2, <1>3, UpsertKeeps DEF Apply, Honoured, TypeOK
<1> QED BY <1>4 DEF Honoured, Decodable, HonouredBy, Value

(* The call an instance waits for, once executed, is in force.             *)
LEMMA ApplyHonours ==
  ASSUME TypeOK, NEW q \in Record, Decodable(q), Apply(q)
  PROVE  Honoured(q)'
<1>1. Value(q) \in Event /\ KeyOf[Value(q)] \in Key
  BY DeploymentAssumption DEF Decodable
<1>2. HonouredBy(Value(q), row'[KeyOf[Value(q)]])
  BY <1>1, UpsertHonours DEF Apply, TypeOK
<1> QED BY <1>2 DEF Honoured, Decodable, HonouredBy, Value

(* A request once in force stays in force.                                 *)
LEMMA HonouredStays ==
  ASSUME TypeInv, [Next]_vars, NEW r \in Record, Honoured(r)
  PROVE  Honoured(r)'
<1>1. CASE UNCHANGED row
  BY <1>1 DEF Honoured, HonouredBy
<1>2. CASE \E q \in Record : Decodable(q) /\ Apply(q)
  BY <1>2, ApplyKeeps DEF TypeInv
<1> QED BY <1>1, <1>2, RowStep

(* A queued copy is still queued, or delivered, or lost.                   *)
LEMMA ParkedStays ==
  ASSUME TypeInv, [Next]_vars, NEW r \in Record, Parked(r)
  PROVE  Parked(r)'
<1> USE DEF Parked
<1>1. ASSUME NEW i \in Instance, Park(i, record[i]) \/ Park(i, record'[i]),
             UNCHANGED <<dlq, lost>>
      PROVE  Parked(r)'
  BY <1>1 DEF Park, TypeInv, TypeOK
<1>2. ASSUME NEW i \in Instance, Exit(i) PROVE Parked(r)'
  BY <1>2 DEF Exit, TypeInv, TypeOK
<1>3. ASSUME NEW i \in Instance, NEW q \in pending[i],
             DlqDelivered(i, q) \/ DlqFailed(i, q)
      PROVE  Parked(r)'
  BY <1>3 DEF DlqDelivered, DlqFailed, TypeInv, TypeOK
<1>4. CASE UNCHANGED <<pending, dlq, lost>>
  BY <1>4
<1>5. ASSUME NEW i \in Instance, Process(i) PROVE Parked(r)'
  BY <1>5, <1>1, <1>2, <1>4
  DEF Process, Start, PollEvent, PollUndecoded, Send, CallAccepted, CallRejected,
      CallFailed, FlushReturns, Commit, LeaveLoop, Close, kafkaVars, serviceVars
<1>6. ASSUME NEW i \in Instance, Kafka(i) PROVE Parked(r)'
  BY <1>6, <1>3, <1>4 DEF Kafka, Assign, Rejoin, kafkaVars
<1>7. CASE Service
  BY <1>7, <1>4 DEF Service, ServeCall, ServeOrphan, DropOrphan, processVars, kafkaVars
<1>8. CASE Disruption
  BY <1>8, <1>2, <1>4
  DEF Disruption, Stop, Crash, CallUnparsed, CommitRaises, Evict, Revoke, processVars,
      kafkaVars, serviceVars
<1> QED
  BY <1>4, <1>5, <1>6, <1>7, <1>8 DEF Next, Operation, vars, processVars, kafkaVars

(* A settled record stays settled, even when the process that queued its   *)
(* copy dies (the copy then counts as lost).                               *)
LEMMA SettledStays ==
  ASSUME TypeInv, [Next]_vars, NEW r \in Record, Settled(r)
  PROVE  Settled(r)'
BY HonouredStays, ParkedStays DEF Settled

-----------------------------------------------------------------------------
(* The inductive invariant.  Every offset below the position from which an *)
(* instance fetches, or below the record it has in hand, is settled; the   *)
(* record in hand is settled when it is about to be committed.  Positions  *)
(* come from committed offsets, and commits from records in hand.          *)

Without == {"down", "polling"}
HandEmpty == \A i \in Instance : pc[i] \in Without => record[i] = NoRecord

CallHonoured ==
  \A i \in Instance : pc[i] = "waiting" /\ served[i] => Honoured(record[i])

HandSettled ==
  \A i \in Instance :
    pc[i] \in {"flushing", "committing", "closing"} /\ record[i] # NoRecord
      => Settled(record[i])

BehindHand ==
  \A i \in Instance : \A r \in Record :
    /\ record[i] # NoRecord
    /\ r.partition = record[i].partition
    /\ r.offset < record[i].offset
    => Settled(r)

BehindPosition ==
  \A i \in Instance : \A r \in Record :
    r.offset < position[i][r.partition] => Settled(r) \/ r = record[i]

IInv ==
  /\ TypeInv
  /\ HandEmpty
  /\ CallHonoured
  /\ HandSettled
  /\ BehindHand
  /\ BehindPosition
  /\ CommittedIsSettled

(* The inductive invariant holds when nothing has started.                 *)
LEMMA IInvInit == Init => IInv
<1> SUFFICES ASSUME Init PROVE IInv
  OBVIOUS
<1>1. TypeInv
  BY TypeInit
<1>2. HandEmpty /\ CallHonoured /\ HandSettled /\ BehindHand
  BY DEF Init, HandEmpty, CallHonoured, HandSettled, BehindHand
<1>3. \A r \in Record : r.partition \in Partition /\ ~(r.offset < 1) /\ ~(r.offset < 0)
  BY RecordShape, LogLength
<1>4. BehindPosition
  BY <1>3 DEF Init, BehindPosition, Unassigned
<1>5. CommittedIsSettled
  BY <1>3 DEF Init, CommittedIsSettled
<1> QED BY <1>1, <1>2, <1>4, <1>5 DEF IInv

(* A parked record is settled.                                             *)
LEMMA ParkSettles ==
  ASSUME TypeOK, NEW i \in Instance, NEW r \in Record, Park(i, r)
  PROVE  Settled(r)'
BY DEF Park, Settled, Parked, TypeOK

(* The offset stored by a commit is that of the record after the one in    *)
(* hand, so what lies below it is that record and what lies behind it.     *)
LEMMA SetCommittedSettles ==
  ASSUME TypeInv, BehindHand, HandSettled, CommittedIsSettled, [Next]_vars,
         NEW i \in Instance, pc[i] = "committing", SetCommitted(i)
  PROVE  CommittedIsSettled'
<1>1. SUFFICES ASSUME NEW r \in Record, r.offset < committed'[r.partition]
               PROVE  Settled(r)
  BY <1>1, SettledStays DEF CommittedIsSettled
<1>2. record[i] \in Record /\ record[i] # NoRecord
  BY NoRecordIsNone DEF TypeInv, HandType, InHand
<1>3. CASE r.partition # record[i].partition
  BY <1>1, <1>3, RecordShape DEF SetCommitted, CommittedIsSettled, TypeInv, TypeOK
<1>4. CASE r.partition = record[i].partition
  <2>1. r.offset < record[i].offset + 1
    BY <1>1, <1>4, RecordShape DEF SetCommitted, TypeInv, TypeOK
  <2>2. r.offset \in Nat /\ record[i].offset \in Nat
    BY <1>2, RecordShape, LogLength
  <2>3. r.offset < record[i].offset \/ r.offset = record[i].offset
    BY <2>1, <2>2
  <2>4. CASE r.offset = record[i].offset
    <3>1. r = record[i]
      BY <1>2, <1>4, <2>4, RecordShape
    <3> QED BY <1>2, <3>1 DEF HandSettled
  <2> QED BY <1>2, <1>4, <2>3, <2>4 DEF BehindHand
<1> QED BY <1>3, <1>4

(* A fetch takes the record at the position, all before it being settled.  *)
LEMMA FetchBehind ==
  ASSUME IInv, [Next]_vars, NEW i \in Instance, NEW p \in Partition, Fetch(i, p)
  PROVE  BehindHand' /\ BehindPosition'
<1>1. record[i] = NoRecord /\ pc[i] = "polling"
  BY DEF Fetch, IInv, HandEmpty, Without
<1>2. /\ record'[i] = [partition |-> p, offset |-> position[i][p]]
      /\ record'[i] \in Record
      /\ position[i] \in [Partition -> Nat]
      /\ \A j \in Instance : j # i => record'[j] = record[j] /\ position'[j] = position[j]
      /\ position'[i] = [position[i] EXCEPT ![p] = position[i][p] + 1]
  BY FetchType DEF Fetch, IInv, TypeInv, TypeOK
<1>3. \A r \in Record : r.offset < position[i][r.partition] => Settled(r)
  BY <1>1, NoRecordIsNone DEF IInv, BehindPosition
<1>4. BehindHand'
  <2> SUFFICES ASSUME NEW j \in Instance, NEW r \in Record,
                      record'[j] # NoRecord,
                      r.partition = record'[j].partition,
                      r.offset < record'[j].offset
               PROVE  Settled(r)
    BY SettledStays DEF BehindHand, IInv
  <2>1. CASE j = i
    BY <1>2, <1>3, <2>1
  <2>2. CASE j # i
    BY <1>2, <2>2 DEF IInv, BehindHand
  <2> QED BY <2>1, <2>2
<1>5. BehindPosition'
  <2> SUFFICES ASSUME NEW j \in Instance, NEW r \in Record,
                      r.offset < position'[j][r.partition]
               PROVE  Settled(r) \/ r = record'[j]
    BY SettledStays DEF BehindPosition, IInv
  <2>1. CASE j = i /\ r.partition = p
    <3>1. r.offset \in Nat /\ position[i][p] \in Nat
      BY <1>2, RecordShape, LogLength
    <3>2. r.offset < position[i][p] \/ r.offset = position[i][p]
      BY <1>2, <2>1, <3>1
    <3>3. CASE r.offset = position[i][p]
      BY <1>2, <2>1, <3>3, RecordShape
    <3> QED BY <1>3, <2>1, <3>2, <3>3
  <2>2. CASE j = i /\ r.partition # p
    BY <1>2, <1>3, <2>2, RecordShape
  <2>3. CASE j # i
    BY <1>2, <2>3 DEF IInv, BehindPosition
  <2> QED BY <2>1, <2>2, <2>3
<1> QED BY <1>4, <1>5

(* What holds of a step that changes no record in hand, no position and no *)
(* committed offset.                                                       *)
LEMMA BehindStays ==
  ASSUME IInv, [Next]_vars, UNCHANGED <<record, position, committed>>
  PROVE  BehindHand' /\ BehindPosition' /\ CommittedIsSettled'
<1> USE SettledStays DEF IInv
<1>1. BehindHand'
  BY DEF BehindHand
<1>2. BehindPosition'
  BY DEF BehindPosition
<1>3. CommittedIsSettled'
  BY DEF CommittedIsSettled
<1> QED BY <1>1, <1>2, <1>3

(* The step of a group member that gives up or drops what it holds: a      *)
(* position that becomes 0 and a hand that becomes empty promise nothing.  *)
LEMMA ExitKeeps ==
  ASSUME IInv, [Next]_vars, NEW i \in Instance, Exit(i)
  PROVE  IInv'
<1>1. TypeInv'
  BY TypeStep DEF IInv
<1>2. /\ pc'[i] = "down" /\ record'[i] = NoRecord /\ position'[i] = Unassigned
      /\ \A j \in Instance : j # i => /\ pc'[j] = pc[j]
                                      /\ record'[j] = record[j]
                                      /\ served'[j] = served[j]
                                      /\ position'[j] = position[j]
  BY DEF Exit, Release, IInv, TypeInv, TypeOK
<1>3. HandEmpty'
  BY <1>2 DEF IInv, HandEmpty, Without
<1>4. CallHonoured'
  <2> SUFFICES ASSUME NEW j \in Instance, pc'[j] = "waiting", served'[j]
               PROVE  Honoured(record[j])'
    BY DEF CallHonoured
  <2>1. j # i /\ pc[j] = "waiting" /\ served[j] /\ record'[j] = record[j]
    BY <1>2
  <2>2. record[j] \in Record /\ Honoured(record[j])
    BY <2>1 DEF IInv, CallHonoured, TypeInv, HandType, InHand
  <2> QED BY <2>1, <2>2, HonouredStays DEF IInv
<1>5. HandSettled'
  BY <1>2, SettledStays DEF IInv, HandSettled, TypeInv, TypeOK
<1>6. BehindHand'
  BY <1>2, SettledStays DEF IInv, BehindHand
<1>7. BehindPosition'
  <2> SUFFICES ASSUME NEW j \in Instance, NEW r \in Record,
                      r.offset < position'[j][r.partition]
               PROVE  Settled(r) \/ r = record'[j]
    BY SettledStays DEF BehindPosition, IInv
  <2>1. j # i
    BY <1>2, RecordShape, LogLength DEF Unassigned
  <2> QED BY <1>2, <2>1 DEF IInv, BehindPosition
<1>8. CommittedIsSettled'
  BY SettledStays DEF Exit, IInv, CommittedIsSettled
<1> QED BY <1>1, <1>3, <1>4, <1>5, <1>6, <1>7, <1>8 DEF IInv

(* Every step keeps the inductive invariant.                               *)
LEMMA IInvStep == IInv /\ [Next]_vars => IInv'
<1> SUFFICES ASSUME IInv, [Next]_vars PROVE IInv'
  OBVIOUS
<1>type. TypeInv /\ TypeInv'
  BY TypeStep DEF IInv
<1>stays. \A r \in Record : (Settled(r) => Settled(r)') /\ (Honoured(r) => Honoured(r)')
  BY SettledStays, HonouredStays DEF IInv
<1>waiting. \A i \in Instance : pc[i] = "waiting" => record[i] \in Record
  BY <1>type DEF TypeInv, HandType, InHand
<1>hand. \A i \in Instance : record[i] # NoRecord => record[i] \in Record
  BY <1>type DEF TypeInv, TypeOK

<1>idle. CASE UNCHANGED <<pc, record, served, position, committed>>
  <2>1. HandEmpty' /\ CallHonoured' /\ HandSettled'
    BY <1>idle, <1>stays, <1>waiting, <1>hand
    DEF IInv, HandEmpty, CallHonoured, HandSettled
  <2> QED BY <1>idle, <1>type, <2>1, BehindStays DEF IInv
<1>start. ASSUME NEW i \in Instance, Start(i) PROVE IInv'
  <2>1. HandEmpty' /\ CallHonoured' /\ HandSettled'
    BY <1>start, <1>stays, <1>waiting, <1>hand, <1>type
    DEF Start, serviceVars, IInv, HandEmpty, Without, CallHonoured, HandSettled,
        TypeInv, TypeOK
  <2> QED BY <1>start, <1>type, <2>1, BehindStays DEF Start, IInv
<1>event. ASSUME NEW i \in Instance, NEW p \in Partition, PollEvent(i, p)
          PROVE  IInv'
  <2>1. BehindHand' /\ BehindPosition'
    BY <1>event, FetchBehind DEF PollEvent
  <2>2. CommittedIsSettled'
    BY <1>event, <1>stays DEF PollEvent, kafkaVars, IInv, CommittedIsSettled
  <2>3. /\ pc'[i] = "sending"
        /\ \A j \in Instance : j # i => /\ pc'[j] = pc[j]
                                        /\ record'[j] = record[j]
                                        /\ served'[j] = served[j]
    BY <1>event, <1>type DEF PollEvent, Fetch, TypeInv, TypeOK
  <2>4. HandEmpty' /\ CallHonoured' /\ HandSettled'
    BY <2>3, <1>stays, <1>waiting, <1>hand
    DEF IInv, HandEmpty, Without, CallHonoured, HandSettled
  <2> QED BY <1>type, <2>1, <2>2, <2>4 DEF IInv
<1>undecoded. ASSUME NEW i \in Instance, NEW p \in Partition, PollUndecoded(i, p)
              PROVE  IInv'
  <2>1. BehindHand' /\ BehindPosition'
    BY <1>undecoded, FetchBehind DEF PollUndecoded
  <2>2. CommittedIsSettled'
    BY <1>undecoded, <1>stays DEF PollUndecoded, kafkaVars, IInv, CommittedIsSettled
  <2>3. /\ pc'[i] = "flushing"
        /\ \A j \in Instance : j # i => /\ pc'[j] = pc[j]
                                        /\ record'[j] = record[j]
                                        /\ served'[j] = served[j]
    BY <1>undecoded, <1>type DEF PollUndecoded, Park, Fetch, TypeInv, TypeOK
  <2>4. record'[i] \in Record /\ Settled(record[i])'
    BY <1>undecoded, <1>type, FetchType, ParkSettles DEF PollUndecoded, TypeInv
  <2>5. HandEmpty' /\ CallHonoured'
    BY <2>3, <1>stays, <1>waiting DEF IInv, HandEmpty, Without, CallHonoured
  <2>6. HandSettled'
    BY <2>3, <2>4, <1>stays, <1>hand DEF IInv, HandSettled
  <2> QED BY <1>type, <2>1, <2>2, <2>5, <2>6 DEF IInv
<1>send. ASSUME NEW i \in Instance, Send(i) PROVE IInv'
  <2>1. HandEmpty' /\ CallHonoured' /\ HandSettled'
    BY <1>send, <1>stays, <1>waiting, <1>hand, <1>type
    DEF Send, IInv, HandEmpty, Without, CallHonoured, HandSettled, TypeInv, TypeOK
  <2> QED BY <1>send, <1>type, <2>1, BehindStays DEF Send, kafkaVars, IInv
<1>accepted. ASSUME NEW i \in Instance, CallAccepted(i) PROVE IInv'
  <2>1. record[i] \in Record /\ Settled(record[i])
    BY <1>accepted, <1>waiting DEF CallAccepted, IInv, CallHonoured, Settled
  <2>2. HandEmpty' /\ CallHonoured'
    BY <1>accepted, <1>stays, <1>waiting, <1>type
    DEF CallAccepted, IInv, HandEmpty, Without, CallHonoured, TypeInv, TypeOK
  <2>3. HandSettled'
    BY <1>accepted, <2>1, <1>stays, <1>hand, <1>type
    DEF CallAccepted, IInv, HandSettled, TypeInv, TypeOK
  <2> QED BY <1>accepted, <1>type, <2>2, <2>3, BehindStays DEF CallAccepted, kafkaVars, IInv
<1>unparsed. ASSUME NEW i \in Instance, CallUnparsed(i) PROVE IInv'
  <2>1. record[i] \in Record /\ Settled(record[i])
    BY <1>unparsed, <1>waiting DEF CallUnparsed, IInv, CallHonoured, Settled
  <2>2. HandEmpty' /\ CallHonoured'
    BY <1>unparsed, <1>stays, <1>waiting, <1>type
    DEF CallUnparsed, IInv, HandEmpty, Without, CallHonoured, TypeInv, TypeOK
  <2>3. HandSettled'
    BY <1>unparsed, <2>1, <1>stays, <1>hand, <1>type
    DEF CallUnparsed, IInv, HandSettled, TypeInv, TypeOK
  <2> QED BY <1>unparsed, <1>type, <2>2, <2>3, BehindStays DEF CallUnparsed, kafkaVars, IInv
<1>park. ASSUME NEW i \in Instance, pc[i] = "waiting", Park(i, record[i]),
                UNCHANGED <<record, served, position, committed>>
         PROVE  IInv'
  <2>1. record[i] \in Record /\ Settled(record[i])'
    BY <1>park, <1>waiting, <1>type, ParkSettles DEF TypeInv
  <2>2. HandEmpty' /\ CallHonoured'
    BY <1>park, <1>stays, <1>waiting, <1>type
    DEF Park, IInv, HandEmpty, Without, CallHonoured, TypeInv, TypeOK
  <2>3. HandSettled'
    BY <1>park, <2>1, <1>stays, <1>hand, <1>type
    DEF Park, IInv, HandSettled, TypeInv, TypeOK
  <2> QED BY <1>park, <1>type, <2>2, <2>3, BehindStays DEF IInv
<1>failed. ASSUME NEW i \in Instance, CallFailed(i) PROVE IInv'
  <2>1. CASE attempt[i] = MaxAttempts
    BY <1>failed, <1>park, <2>1 DEF CallFailed, kafkaVars
  <2>2. CASE attempt[i] # MaxAttempts
    <3>1. HandEmpty' /\ CallHonoured' /\ HandSettled'
      BY <1>failed, <2>2, <1>stays, <1>waiting, <1>hand, <1>type
      DEF CallFailed, IInv, HandEmpty, Without, CallHonoured, HandSettled, TypeInv, TypeOK
    <3> QED BY <1>failed, <1>type, <3>1, BehindStays DEF CallFailed, kafkaVars, IInv
  <2> QED BY <2>1, <2>2
<1>flush. ASSUME NEW i \in Instance, FlushReturns(i) PROVE IInv'
  <2>1. HandEmpty' /\ CallHonoured' /\ HandSettled'
    BY <1>flush, <1>stays, <1>waiting, <1>hand, <1>type
    DEF FlushReturns, IInv, HandEmpty, Without, CallHonoured, HandSettled, TypeInv, TypeOK
  <2> QED BY <1>flush, <1>type, <2>1, BehindStays DEF FlushReturns, kafkaVars, IInv
<1>commit. ASSUME NEW i \in Instance, Commit(i) PROVE IInv'
  <2>1. CommittedIsSettled'
    BY <1>commit, <1>type, SetCommittedSettles DEF Commit, IInv
  <2>2. /\ pc'[i] = "polling" /\ record'[i] = NoRecord
        /\ \A j \in Instance : j # i => /\ pc'[j] = pc[j]
                                        /\ record'[j] = record[j]
                                        /\ served'[j] = served[j]
    BY <1>commit, <1>type DEF Commit, Release, TypeInv, TypeOK
  <2>3. HandEmpty' /\ CallHonoured' /\ HandSettled'
    BY <2>2, <1>stays, <1>waiting, <1>hand
    DEF IInv, HandEmpty, Without, CallHonoured, HandSettled
  <2>4. BehindHand'
    BY <2>2, <1>stays DEF IInv, BehindHand
  <2>5. Settled(record[i]) /\ record[i] \in Record
    BY <1>commit, <1>type, NoRecordIsNone
    DEF Commit, IInv, HandSettled, TypeInv, HandType, InHand
  <2>6. BehindPosition'
    <3> SUFFICES ASSUME NEW j \in Instance, NEW r \in Record,
                        r.offset < position[j][r.partition]
                 PROVE  Settled(r) \/ r = record'[j]
      BY <1>commit, <1>stays DEF Commit, BehindPosition
    <3>1. Settled(r) \/ r = record[j]
      BY DEF IInv, BehindPosition
    <3> QED BY <2>2, <2>5, <3>1
  <2> QED BY <1>type, <2>1, <2>3, <2>4, <2>6 DEF IInv
<1>raises. ASSUME NEW i \in Instance, CommitRaises(i) PROVE IInv'
  <2>1. CommittedIsSettled'
    BY <1>raises, <1>type, <1>stays, SetCommittedSettles
    DEF CommitRaises, IInv, CommittedIsSettled
  <2>2. HandEmpty' /\ CallHonoured' /\ HandSettled'
    BY <1>raises, <1>stays, <1>waiting, <1>hand, <1>type
    DEF CommitRaises, IInv, HandEmpty, Without, CallHonoured, HandSettled, TypeInv, TypeOK
  <2>3. BehindHand' /\ BehindPosition'
    BY <1>raises, <1>stays DEF CommitRaises, IInv, BehindHand, BehindPosition
  <2> QED BY <1>type, <2>1, <2>2, <2>3 DEF IInv
<1>leave. ASSUME NEW i \in Instance, LeaveLoop(i) PROVE IInv'
  <2>1. HandEmpty' /\ CallHonoured' /\ HandSettled'
    BY <1>leave, <1>stays, <1>waiting, <1>hand, <1>type
    DEF LeaveLoop, IInv, HandEmpty, Without, CallHonoured, HandSettled, TypeInv, TypeOK
  <2> QED BY <1>leave, <1>type, <2>1, BehindStays DEF LeaveLoop, kafkaVars, IInv
<1>exit. ASSUME NEW i \in Instance, Close(i) \/ Crash(i) PROVE IInv'
  BY <1>exit, ExitKeeps DEF Close, Crash
<1>assign. ASSUME NEW i \in Instance, NEW p \in Partition, Assign(i, p)
           PROVE  IInv'
  <2>1. HandEmpty' /\ CallHonoured' /\ HandSettled' /\ BehindHand' /\ CommittedIsSettled'
    BY <1>assign, <1>stays, <1>waiting, <1>hand
    DEF Assign, kafkaVars, IInv, HandEmpty, CallHonoured, HandSettled, BehindHand,
        CommittedIsSettled
  <2>2. BehindPosition'
    BY <1>assign, <1>stays, <1>type, RecordShape
    DEF Assign, IInv, BehindPosition, CommittedIsSettled, TypeInv, TypeOK
  <2> QED BY <1>type, <2>1, <2>2 DEF IInv
<1>drop. ASSUME UNCHANGED <<pc, record, served, committed>>,
                \A j \in Instance : \A p \in Partition :
                  position'[j][p] = position[j][p] \/ position'[j][p] = 0
         PROVE  IInv'
  <2>1. HandEmpty' /\ CallHonoured' /\ HandSettled' /\ BehindHand' /\ CommittedIsSettled'
    BY <1>drop, <1>stays, <1>waiting, <1>hand
    DEF IInv, HandEmpty, CallHonoured, HandSettled, BehindHand, CommittedIsSettled
  <2>2. BehindPosition'
    BY <1>drop, <1>stays, RecordShape, LogLength DEF IInv, BehindPosition
  <2> QED BY <1>type, <2>1, <2>2 DEF IInv
<1>revoke. ASSUME NEW i \in Instance, NEW p \in Partition, Revoke(i, p)
           PROVE  IInv'
  BY <1>revoke, <1>drop, <1>type DEF Revoke, kafkaVars, TypeInv, TypeOK
<1>rejoin. ASSUME NEW i \in Instance, Rejoin(i) PROVE IInv'
  BY <1>rejoin, <1>drop, <1>type DEF Rejoin, Unassigned, TypeInv, TypeOK
<1>serve. ASSUME NEW i \in Instance, ServeCall(i) PROVE IInv'
  <2>1. record[i] \in Record /\ Honoured(record[i])'
    BY <1>serve, <1>type, <1>waiting, ApplyHonours
    DEF ServeCall, TypeInv, CallType
  <2>2. CallHonoured'
    BY <1>serve, <2>1, <1>stays, <1>waiting, <1>type
    DEF ServeCall, IInv, CallHonoured, TypeInv, TypeOK
  <2>3. HandEmpty' /\ HandSettled'
    BY <1>serve, <1>stays, <1>hand DEF ServeCall, IInv, HandEmpty, HandSettled
  <2> QED BY <1>serve, <1>type, <2>2, <2>3, BehindStays DEF ServeCall, kafkaVars, IInv

<1>process. ASSUME NEW i \in Instance, Process(i) PROVE IInv'
  <2>1. CallRejected(i) => IInv'
    BY <1>park DEF CallRejected, kafkaVars
  <2> QED
    BY <1>process, <1>start, <1>event, <1>undecoded, <1>send, <1>accepted, <2>1,
       <1>failed, <1>flush, <1>commit, <1>leave, <1>exit
    DEF Process
<1>kafka. ASSUME NEW i \in Instance, Kafka(i) PROVE IInv'
  BY <1>kafka, <1>assign, <1>rejoin, <1>idle DEF Kafka, DlqDelivered, DlqFailed
<1>service. CASE Service
  BY <1>service, <1>serve, <1>idle
  DEF Service, ServeOrphan, DropOrphan, processVars, kafkaVars
<1>disruption. CASE Disruption
  BY <1>disruption, <1>exit, <1>raises, <1>unparsed, <1>revoke, <1>idle
  DEF Disruption, Stop, Evict, processVars, kafkaVars
<1> QED
  BY <1>process, <1>kafka, <1>service, <1>disruption, <1>idle
  DEF Next, Operation, vars, processVars, kafkaVars

(* No offset is ever committed past a record that has not been settled: in *)
(* every deployment, under any crashes, evictions, reassignments, late     *)
(* calls and commits of former owners.                                     *)
THEOREM CommitsAreSafe == Spec => []CommittedIsSettled
<1>1. Spec => []IInv
  BY IInvInit, IInvStep, PTL DEF Spec
<1>2. IInv => CommittedIsSettled
  BY DEF IInv
<1> QED BY <1>1, <1>2, PTL

(* A process that leaves its loop has settled the record it had in hand.   *)
THEOREM ShutdownIsSafe == Spec => []ClosesSettled
<1>1. Spec => []IInv
  BY IInvInit, IInvStep, PTL DEF Spec
<1>2. IInv => ClosesSettled
  BY DEF IInv, ClosesSettled, HandSettled
<1> QED BY <1>1, <1>2, PTL

-----------------------------------------------------------------------------
(* The table.                                                              *)

(* A written row repeats a request on the topics for its subscription.     *)
RowSource ==
  \A k \in Key : row[k] \in Event =>
    \E r \in Record : row[k] = Value(r) /\ KeyOf[Value(r)] = k

(* The UPSERT writes an event of the row's own subscription.               *)
LEMMA ApplySource ==
  ASSUME TypeOK, RowSource, NEW q \in Record, Decodable(q), Apply(q)
  PROVE  RowSource'
<1> SUFFICES ASSUME NEW k \in Key, row'[k] \in Event
             PROVE  \E r \in Record : row'[k] = Value(r) /\ KeyOf[Value(r)] = k
  BY DEF RowSource, Value
<1>1. CASE row'[k] = row[k]
  BY <1>1 DEF RowSource
<1>2. CASE row'[k] # row[k]
  <2>1. k = KeyOf[Value(q)] /\ row'[k] = Upsert(row[k], Value(q))
    BY <1>2 DEF Apply, TypeOK
  <2>2. row'[k] = Value(q)
    BY <1>2, <2>1 DEF Upsert
  <2> QED BY <2>1, <2>2
<1> QED BY <1>1, <1>2

(* At first no row holds an event.                                         *)
LEMMA RowSourceInit == Init => RowSource
BY EventAssumption DEF Init, RowSource

(* A row only ever holds an event about its own subscription.              *)
LEMMA RowSourceStep == TypeInv /\ RowSource /\ [Next]_vars => RowSource'
<1> SUFFICES ASSUME TypeInv, RowSource, [Next]_vars PROVE RowSource'
  OBVIOUS
<1>1. CASE UNCHANGED row
  BY <1>1 DEF RowSource, Value
<1>2. CASE \E q \in Record : Decodable(q) /\ Apply(q)
  BY <1>2, ApplySource DEF TypeInv
<1> QED BY <1>1, <1>2, RowStep

(* When the requests for a subscription are all committed and none was     *)
(* parked, its row holds the earliest of them, in whatever order the two   *)
(* topics, the repetitions and the late calls were executed.               *)
THEOREM Convergence == Spec => []RowsConverge
<1>1. Spec => []IInv
  BY IInvInit, IInvStep, PTL DEF Spec
<1>2. RowSource /\ IInv /\ [Next]_vars => RowSource'
  BY RowSourceStep DEF IInv
<1>3. Spec => []RowSource
  BY <1>1, <1>2, RowSourceInit, PTL DEF Spec
<1>4. IInv /\ RowSource => RowsConverge
  <2> SUFFICES ASSUME IInv, RowSource, NEW k \in Key,
                      NEW q \in Record, Decodable(q), KeyOf[Value(q)] = k,
                      \A r \in Record : Decodable(r) /\ KeyOf[Value(r)] = k
                        => r.offset < committed[r.partition] /\ ~Parked(r)
               PROVE  \E r \in Record :
                        /\ Decodable(r) /\ KeyOf[Value(r)] = k
                        /\ row[k] = Value(r)
                        /\ \A s \in Record : Decodable(s) /\ KeyOf[Value(s)] = k
                             => RequestedAt[Value(r)] <= RequestedAt[Value(s)]
    BY DEF RowsConverge
  <2>1. \A s \in Record : Decodable(s) /\ KeyOf[Value(s)] = k
          => HonouredBy(Value(s), row[k])
    BY DEF IInv, CommittedIsSettled, Settled, Honoured
  <2>2. row[k] \in Event
    BY <2>1 DEF HonouredBy
  <2>3. PICK r \in Record : row[k] = Value(r) /\ KeyOf[Value(r)] = k
    BY <2>2 DEF RowSource
  <2> QED BY <2>1, <2>2, <2>3 DEF HonouredBy, Decodable
<1> QED BY <1>1, <1>3, <1>4, PTL

(* A repeat does not touch the row; only an earlier request rewrites it.   *)
THEOREM NoLaterRewrite == Spec => RewrittenOnlyEarlier
<1>1. TypeInv /\ [Next]_vars =>
        [\A k \in Key : row[k] \in Event /\ row'[k] # row[k] =>
           /\ row'[k] \in Event
           /\ KeyOf[row'[k]] = k
           /\ RequestedAt[row'[k]] < RequestedAt[row[k]]]_vars
  <2> SUFFICES ASSUME TypeInv, [Next]_vars, NEW k \in Key,
                      row[k] \in Event, row'[k] # row[k]
               PROVE  /\ row'[k] \in Event
                      /\ KeyOf[row'[k]] = k
                      /\ RequestedAt[row'[k]] < RequestedAt[row[k]]
    OBVIOUS
  <2>1. PICK q \in Record : Decodable(q) /\ Apply(q)
    BY RowStep
  <2>2. k = KeyOf[Value(q)] /\ row'[k] = Upsert(row[k], Value(q))
    BY <2>1 DEF Apply, TypeInv, TypeOK
  <2> QED BY <2>1, <2>2, UpsertEarlier DEF Decodable
<1>2. Spec => []TypeInv
  BY TypeInit, TypeStep, PTL DEF Spec
<1> QED BY <1>1, <1>2, PTL DEF Spec, RewrittenOnlyEarlier

-----------------------------------------------------------------------------
(* Refinement.                                                             *)

SettledRecords == {r \in Record : Settled(r)}

(* A commit is the abstract step that releases offsets.                    *)
LEMMA ReleaseStep ==
  ASSUME IInv, [Next]_vars, UNCHANGED <<row, dlq, pending, lost>>
  PROVE  Delivery!Next
<1>1. SettledRecords' = SettledRecords
  BY DEF SettledRecords, Settled, Honoured, HonouredBy, Parked
<1>2. CommittedIsSettled' /\ committed' \in [Partition -> Nat]
  BY IInvStep DEF IInv, TypeInv, TypeOK
<1>3. \A p \in Partition : Delivery!Behind(p, committed'[p]) \subseteq SettledRecords
  BY <1>1, <1>2 DEF Delivery!Behind, CommittedIsSettled, SettledRecords
<1> QED
  BY <1>1, <1>2, <1>3 DEF Delivery!Next, Delivery!Release, SettledRecords

(* The consumers implement at-least-once delivery: every step settles      *)
(* records, releases offsets behind which all is settled, or stutters.     *)
THEOREM Refinement == Spec => AtLeastOnce
<1>1. Init => Delivery!Init
  <2> SUFFICES ASSUME Init PROVE Delivery!Init
    OBVIOUS
  <2>1. \A r \in Record : ~Settled(r)
    BY EventAssumption, DeploymentAssumption
    DEF Init, Settled, Honoured, HonouredBy, Parked, Decodable
  <2> QED BY <2>1 DEF Init, Delivery!Init
<1>2. IInv /\ [Next]_vars => [Delivery!Next]_<<SettledRecords, committed>>
  <2> SUFFICES ASSUME IInv, [Next]_vars
               PROVE  Delivery!Next \/ UNCHANGED <<SettledRecords, committed>>
    OBVIOUS
  <2>1. CASE UNCHANGED committed
    <3>1. SettledRecords \subseteq SettledRecords' /\ SettledRecords' \subseteq Record
      BY SettledStays DEF SettledRecords, IInv
    <3> QED BY <2>1, <3>1 DEF Delivery!Next, Delivery!Settle, SettledRecords
  <2>2. ASSUME NEW i \in Instance, Commit(i) \/ CommitRaises(i)
        PROVE  Delivery!Next
    BY <2>2, ReleaseStep DEF Commit, CommitRaises, serviceVars
  <2>3. [Next]_vars => \/ UNCHANGED committed
                       \/ \E i \in Instance : Commit(i) \/ CommitRaises(i)
    BY DEF Next, Operation, Disruption, Process, Kafka, Service, Start, Stop, Crash,
           CallUnparsed,
           PollEvent, PollUndecoded, Send, CallAccepted, CallRejected, CallFailed,
           FlushReturns, LeaveLoop, Close, Exit, Assign, Revoke, Evict, Rejoin,
           DlqDelivered, DlqFailed, ServeCall, ServeOrphan, DropOrphan,
           vars, kafkaVars
  <2> QED BY <2>1, <2>2, <2>3
<1>3. Spec => []IInv
  BY IInvInit, IInvStep, PTL DEF Spec
<1> QED
  BY <1>1, <1>2, <1>3, PTL DEF Spec, AtLeastOnce, Delivery!Spec, SettledRecords
=============================================================================
