------------------------ MODULE UnsubscribeConsumer -------------------------
(***************************************************************************)
(* services/unsubscribe-consumer: the processes that read unsubscribe      *)
(* events from Kafka, call POST /unsubscribe for each one, park in a       *)
(* dead-letter topic what cannot be delivered, and commit the offset.      *)
(*                                                                         *)
(* The module composes the consumer loop (main.py, client.py), the Kafka   *)
(* consumer and dead-letter producer it uses (libs/tikblog_kafka), the     *)
(* endpoint it calls (services/unsubscribeme) with its Postgres rows, and  *)
(* what the code relies on of the Kafka group coordinator.                 *)
(*                                                                         *)
(* Offsets start at 1; as in Kafka a committed offset is that of the next  *)
(* record to read.                                                         *)
(***************************************************************************)
EXTENDS Subscription, Sequences, FiniteSets

CONSTANTS
  Key,            \* (user_id, writer_id)
  KeyOf,          \* the subscription an event is about
  Undecodable,    \* bytes on the topic that are no event
  Partition,      \* partitions of both source topics
  Log,            \* what the producers have written to each partition
  Instance,       \* running copies of the consumer image, of both groups
  Reads,          \* the partitions of the topic an instance subscribes to
  MaxAttempts     \* UNSUBSCRIBE_CONSUMER_MAX_ATTEMPTS

ASSUME DeploymentAssumption ==
  /\ KeyOf \in [Event -> Key]
  /\ Undecodable \notin Event
  /\ Log \in [Partition -> Seq(Event \cup {Undecodable})]
  /\ Reads \in [Instance -> SUBSET Partition]
  /\ MaxAttempts \in Nat \ {0}

Record == UNION {[partition : {p}, offset : 1..Len(Log[p])] : p \in Partition}
NoRecord == [partition |-> "none", offset |-> 0]

Value(r) == Log[r.partition][r.offset]
Decodable(r) == Value(r) \in Event

VARIABLES
  \* one consumer process
  pc,             \* where its main() is
  record,         \* the record in hand
  attempt,        \* number of the current call in deliver(); 0 outside it
  served,         \* the endpoint has executed the current call
  stopped,        \* the shutdown flag
  position,       \* next offset to fetch of each assigned partition, else 0
  pending,        \* copies queued in its dead-letter producer
  \* Kafka
  member,         \* the coordinator counts the instance as a group member
  committed,      \* committed offset of each partition
  dlq,            \* records with a copy in the dead-letter topic
  lost,           \* records with a copy whose publication failed
  \* UnsubscribeMe and Postgres
  orphans,        \* calls still in the service although the caller gave up
  row             \* table subscription

processVars == <<pc, record, attempt, served, stopped, position, pending>>
kafkaVars == <<member, committed, dlq, lost>>
serviceVars == <<orphans, row>>
vars == <<processVars, kafkaVars, serviceVars>>

-----------------------------------------------------------------------------
(* Where main() is.  "polling": in consumer.messages(); "sending": about   *)
(* to make the HTTP call; "waiting": in the call; "flushing": in the       *)
(* flush() of dlq.park(); "committing": in consumer.commit(); "closing":   *)
(* in the finally block.                                                   *)
Place == {"down", "polling", "sending", "waiting", "flushing",
          "committing", "closing"}

\* The values of the variables: the attempt stays within the budget, and what is
\* parked, lost or late is a record of the topics.
TypeOK ==
  /\ pc \in [Instance -> Place]
  /\ record \in [Instance -> Record \cup {NoRecord}]
  /\ attempt \in [Instance -> 0..MaxAttempts]
  /\ served \in [Instance -> BOOLEAN]
  /\ stopped \in [Instance -> BOOLEAN]
  /\ position \in [Instance -> [Partition -> Nat]]
  /\ pending \in [Instance -> SUBSET Record]
  /\ member \in [Instance -> BOOLEAN]
  /\ committed \in [Partition -> Nat \ {0}]
  /\ dlq \in SUBSET Record
  /\ lost \in SUBSET Record
  /\ orphans \in SUBSET Record
  /\ row \in [Key -> Row]

Unassigned == [p \in Partition |-> 0]

Init ==
  /\ pc = [i \in Instance |-> "down"]
  /\ record = [i \in Instance |-> NoRecord]
  /\ attempt = [i \in Instance |-> 0]
  /\ served = [i \in Instance |-> FALSE]
  /\ stopped = [i \in Instance |-> FALSE]
  /\ position = [i \in Instance |-> Unassigned]
  /\ pending = [i \in Instance |-> {}]
  /\ member = [i \in Instance |-> FALSE]
  /\ committed = [p \in Partition |-> 1]   \* auto.offset.reset = earliest
  /\ dlq = {}
  /\ lost = {}
  /\ orphans = {}
  /\ row \in [Key -> {NoRow, Subscribed}]

-----------------------------------------------------------------------------
(* The Kafka group, as far as the code depends on it.                      *)

\* The coordinator gives an unowned partition to a member, which starts at
\* the committed offset.
Assign(i, p) ==
  /\ member[i]
  /\ p \in Reads[i]
  /\ \A j \in Instance : member[j] => position[j][p] = 0
  /\ position' = [position EXCEPT ![i][p] = committed[p]]
  /\ UNCHANGED <<pc, record, attempt, served, stopped, pending,
                 kafkaVars, serviceVars>>

\* Cooperative rebalance: a member gives a partition up.  There is no
\* rebalance callback, so the record in hand is finished all the same.
Revoke(i, p) ==
  /\ member[i]
  /\ position[i][p] # 0
  /\ position' = [position EXCEPT ![i][p] = 0]
  /\ UNCHANGED <<pc, record, attempt, served, stopped, pending,
                 kafkaVars, serviceVars>>

\* session.timeout.ms or max.poll.interval.ms passes: the coordinator drops
\* the member, which does not know yet and keeps its fetched records.
Evict(i) ==
  /\ member[i]
  /\ member' = [member EXCEPT ![i] = FALSE]
  /\ UNCHANGED <<processVars, committed, dlq, lost, serviceVars>>

\* The evicted client finds out, drops its assignment and joins again.
Rejoin(i) ==
  /\ pc[i] # "down"
  /\ ~member[i]
  /\ member' = [member EXCEPT ![i] = TRUE]
  /\ position' = [position EXCEPT ![i] = Unassigned]
  /\ UNCHANGED <<pc, record, attempt, served, stopped, pending,
                 committed, dlq, lost, serviceVars>>

-----------------------------------------------------------------------------
(* The dead-letter producer's background thread.                           *)

DlqDelivered(i, r) ==
  /\ r \in pending[i]
  /\ pending' = [pending EXCEPT ![i] = @ \ {r}]
  /\ dlq' = dlq \cup {r}
  /\ UNCHANGED <<pc, record, attempt, served, stopped, position,
                 member, committed, lost, serviceVars>>

\* _on_delivery() with an error counts and logs it, and that is all.
DlqFailed(i, r) ==
  /\ r \in pending[i]
  /\ pending' = [pending EXCEPT ![i] = @ \ {r}]
  /\ lost' = lost \cup {r}
  /\ UNCHANGED <<pc, record, attempt, served, stopped, position,
                 member, committed, dlq, serviceVars>>

-----------------------------------------------------------------------------
(* main()                                                                  *)

Start(i) ==
  /\ pc[i] = "down"
  /\ pc' = [pc EXCEPT ![i] = "polling"]
  /\ member' = [member EXCEPT ![i] = TRUE]
  /\ UNCHANGED <<record, attempt, served, stopped, position, pending,
                 committed, dlq, lost, serviceVars>>

\* SIGTERM sets the flag; the handler does nothing else.
Stop(i) ==
  /\ pc[i] # "down"
  /\ ~stopped[i]
  /\ stopped' = [stopped EXCEPT ![i] = TRUE]
  /\ UNCHANGED <<pc, record, attempt, served, position, pending,
                 kafkaVars, serviceVars>>

Fetch(i, p) ==
  /\ pc[i] = "polling"
  /\ ~stopped[i]
  /\ position[i][p] \in 1..Len(Log[p])
  /\ record' = [record EXCEPT ![i] = [partition |-> p, offset |-> position[i][p]]]
  /\ position' = [position EXCEPT ![i][p] = @ + 1]

\* Mutant: the producer keeps one message only.
ParkLast(i, r) ==
  /\ pending' = [pending EXCEPT ![i] = {r}]
  /\ pc' = [pc EXCEPT ![i] = "flushing"]

\* dlq.park(): queue a copy, then block in flush().
Park(i, r) ==
  /\ pending' = [pending EXCEPT ![i] = @ \cup {r}]
  /\ pc' = [pc EXCEPT ![i] = "flushing"]

\* messages() yields a decoded event, and deliver() begins.
PollEvent(i, p) ==
  /\ Fetch(i, p)
  /\ Decodable(record'[i])
  /\ pc' = [pc EXCEPT ![i] = "sending"]
  /\ attempt' = [attempt EXCEPT ![i] = 1]
  /\ UNCHANGED <<served, stopped, pending, kafkaVars, serviceVars>>

\* messages() yields a record without an event, and main() parks it.  Any
\* exception of from_bytes() has this effect, so one caused by the schema
\* registry being away has it too and the bytes need not be malformed.
PollUndecoded(i, p) ==
  /\ Fetch(i, p)
  /\ Park(i, record'[i])
  /\ UNCHANGED <<attempt, served, stopped, kafkaVars, serviceVars>>

Send(i) ==
  /\ pc[i] = "sending"
  /\ pc' = [pc EXCEPT ![i] = "waiting"]
  /\ served' = [served EXCEPT ![i] = FALSE]
  /\ UNCHANGED <<record, attempt, stopped, position, pending,
                 kafkaVars, serviceVars>>

\* A 2xx answer: deliver() returns.
CallAccepted(i) ==
  /\ pc[i] = "waiting"
  /\ served[i]
  /\ pc' = [pc EXCEPT ![i] = "committing"]
  /\ UNCHANGED <<record, attempt, served, stopped, position, pending,
                 kafkaVars, serviceVars>>

\* A 2xx answer whose body is not what the client expects: the exception is none
\* that deliver() handles.
CallUnparsed(i) ==
  /\ pc[i] = "waiting"
  /\ served[i]
  /\ pc' = [pc EXCEPT ![i] = "closing"]
  /\ UNCHANGED <<record, attempt, served, stopped, position, pending,
                 kafkaVars, serviceVars>>

\* PermanentRejection: a 4xx other than 408 and 429, by validation or by the
\* fault injector, before the database is reached.
CallRejected(i) ==
  /\ pc[i] = "waiting"
  /\ ~served[i]
  /\ Park(i, record[i])
  /\ UNCHANGED <<record, attempt, served, stopped, position,
                 kafkaVars, serviceVars>>

\* A caller that gives up cannot take an unanswered call back.
Abandon(i) ==
  IF pc[i] = "waiting" /\ ~served[i]
    THEN orphans' \in {orphans, orphans \cup {record[i]}}
    ELSE UNCHANGED orphans

\* Mutants: an off-by-one in the budget; a budget that never runs out; a
\* used-up budget after which nothing is parked.
CallFailedOnceMore(i) ==
  /\ pc[i] = "waiting"
  /\ Abandon(i)
  /\ IF attempt[i] > MaxAttempts
       THEN Park(i, record[i]) /\ UNCHANGED attempt
       ELSE /\ pc' = [pc EXCEPT ![i] = "sending"]
            /\ attempt' = [attempt EXCEPT ![i] = @ + 1]
            /\ UNCHANGED pending
  /\ UNCHANGED <<record, served, stopped, position, kafkaVars, row>>

CallFailedForever(i) ==
  /\ pc[i] = "waiting"
  /\ Abandon(i)
  /\ pc' = [pc EXCEPT ![i] = "sending"]
  /\ UNCHANGED <<attempt, pending, record, served, stopped, position, kafkaVars, row>>

CallFailedForgotten(i) ==
  /\ pc[i] = "waiting"
  /\ Abandon(i)
  /\ pc' = [pc EXCEPT ![i] = "committing"]
  /\ UNCHANGED <<attempt, pending, record, served, stopped, position, kafkaVars, row>>

\* TransientError: 408, 429, 5xx, or an httpx error such as the timeout.  The
\* call may have been executed with its answer lost, never executed, or be
\* executed later.  deliver() tries again until the attempts are used up.
CallFailed(i) ==
  /\ pc[i] = "waiting"
  /\ Abandon(i)
  /\ IF attempt[i] = MaxAttempts
       THEN Park(i, record[i]) /\ UNCHANGED attempt
       ELSE /\ pc' = [pc EXCEPT ![i] = "sending"]
            /\ attempt' = [attempt EXCEPT ![i] = @ + 1]
            /\ UNCHANGED pending
  /\ UNCHANGED <<record, served, stopped, position, kafkaVars, row>>

\* flush() returns when the queue is empty or its timeout has passed, and
\* park() does not look at which.
FlushReturns(i) ==
  /\ pc[i] = "flushing"
  /\ pc' = [pc EXCEPT ![i] = "committing"]
  /\ UNCHANGED <<record, attempt, served, stopped, position, pending,
                 kafkaVars, serviceVars>>

\* The coordinator accepts a commit of any member, for any partition.
SetCommitted(i) ==
  committed' = [committed EXCEPT ![record[i].partition] = record[i].offset + 1]

Release(i) ==
  /\ record' = [record EXCEPT ![i] = NoRecord]
  /\ attempt' = [attempt EXCEPT ![i] = 0]
  /\ served' = [served EXCEPT ![i] = FALSE]

Commit(i) ==
  /\ pc[i] = "committing"
  /\ member[i]
  /\ SetCommitted(i)
  /\ Release(i)
  /\ pc' = [pc EXCEPT ![i] = "polling"]
  /\ UNCHANGED <<stopped, position, pending, member, dlq, lost, serviceVars>>

\* commit() raises, and nothing in main() catches it.  A member's commit may
\* have been stored before the error.
CommitRaises(i) ==
  /\ pc[i] = "committing"
  /\ \/ UNCHANGED committed
     \/ member[i] /\ SetCommitted(i)
  /\ pc' = [pc EXCEPT ![i] = "closing"]
  /\ UNCHANGED <<record, attempt, served, stopped, position, pending,
                 member, dlq, lost, serviceVars>>

\* Mutant: the flag also ends deliver() between two attempts.
LeaveLoopAtOnce(i) ==
  /\ pc[i] \in {"polling", "sending"}
  /\ stopped[i]
  /\ pc' = [pc EXCEPT ![i] = "closing"]
  /\ UNCHANGED <<record, attempt, served, stopped, position, pending,
                 kafkaVars, serviceVars>>

\* The flag is read only between two records.
LeaveLoop(i) ==
  /\ pc[i] = "polling"
  /\ stopped[i]
  /\ pc' = [pc EXCEPT ![i] = "closing"]
  /\ UNCHANGED <<record, attempt, served, stopped, position, pending,
                 kafkaVars, serviceVars>>

\* The process is gone, with all it kept in memory.
Exit(i) ==
  /\ pc' = [pc EXCEPT ![i] = "down"]
  /\ Release(i)
  /\ stopped' = [stopped EXCEPT ![i] = FALSE]
  /\ position' = [position EXCEPT ![i] = Unassigned]
  /\ pending' = [pending EXCEPT ![i] = {}]
  /\ lost' = lost \cup pending[i]
  /\ member' = [member EXCEPT ![i] = FALSE]
  /\ UNCHANGED <<committed, dlq, row>>

\* The finally block flushes the dead-letter producer once more, under the
\* same timeout, leaves the group, and the process ends.
Close(i) ==
  /\ pc[i] = "closing"
  /\ Exit(i)
  /\ UNCHANGED orphans

\* SIGKILL, an out-of-memory kill, a lost host.
Crash(i) ==
  /\ pc[i] # "down"
  /\ Abandon(i)
  /\ Exit(i)

-----------------------------------------------------------------------------
(* UnsubscribeMe                                                           *)

Apply(r) ==
  row' = [row EXCEPT ![KeyOf[Value(r)]] = Upsert(@, Value(r))]

\* The endpoint executes the call the instance waits for.
ServeCall(i) ==
  /\ pc[i] = "waiting"
  /\ ~served[i]
  /\ Apply(record[i])
  /\ served' = [served EXCEPT ![i] = TRUE]
  /\ UNCHANGED <<pc, record, attempt, stopped, position, pending,
                 kafkaVars, orphans>>

\* The endpoint executes a call nobody waits for any more.
ServeOrphan(r) ==
  /\ r \in orphans
  /\ Apply(r)
  /\ orphans' = orphans \ {r}
  /\ UNCHANGED <<processVars, kafkaVars>>

\* Or the call fails there: fault injected, or database unavailable.
DropOrphan(r) ==
  /\ r \in orphans
  /\ orphans' = orphans \ {r}
  /\ UNCHANGED <<processVars, kafkaVars, row>>

-----------------------------------------------------------------------------
(* What disturbs the group, and everything else.                           *)

Disruption ==
  \E i \in Instance :
    \/ Stop(i) \/ Crash(i) \/ CallUnparsed(i) \/ CommitRaises(i) \/ Evict(i)
    \/ \E p \in Partition : Revoke(i, p)

Process(i) ==
  \/ Start(i)
  \/ \E p \in Partition : PollEvent(i, p) \/ PollUndecoded(i, p)
  \/ Send(i) \/ CallAccepted(i) \/ CallRejected(i) \/ CallFailed(i)
  \/ FlushReturns(i) \/ Commit(i) \/ LeaveLoop(i) \/ Close(i)

Kafka(i) ==
  \/ \E p \in Partition : Assign(i, p)
  \/ Rejoin(i)
  \/ \E r \in pending[i] : DlqDelivered(i, r) \/ DlqFailed(i, r)

Service ==
  \/ \E i \in Instance : ServeCall(i)
  \/ \E r \in orphans : ServeOrphan(r) \/ DropOrphan(r)

Operation == (\E i \in Instance : Process(i) \/ Kafka(i)) \/ Service

Next == Operation \/ Disruption

Spec == Init /\ [][Next]_vars

-----------------------------------------------------------------------------
(* Properties.                                                             *)

Honoured(r) == Decodable(r) /\ HonouredBy(Value(r), row[KeyOf[Value(r)]])

\* The record was given to dlq.park(): a copy is in the dead-letter topic or
\* on its way there, or its publication failed.
Parked(r) ==
  \/ r \in dlq
  \/ \E i \in Instance : r \in pending[i]
  \/ r \in lost

Settled(r) == Honoured(r) \/ Parked(r)

\* An offset is committed only past records that have been settled, whatever
\* crashes, evictions, late calls and commits of former owners happen: the
\* only way to lose a request is an unconfirmed dead-letter publication.
CommittedIsSettled ==
  \A r \in Record : r.offset < committed[r.partition] => Settled(r)

\* What the comment in dlq.park() demands: an offset is committed only when the
\* request is in force or the copy has arrived in the dead-letter topic.
CommittedIsKept ==
  \A r \in Record : r.offset < committed[r.partition] => Honoured(r) \/ r \in dlq

\* Once the records about a subscription are all committed, and none of them
\* was parked, the row holds the earliest request for it, whatever the order of
\* the two topics, the repetitions and the late calls.
RowsConverge ==
  \A k \in Key :
    LET Requests == {r \in Record : Decodable(r) /\ KeyOf[Value(r)] = k}
    IN  (\A r \in Requests : r.offset < committed[r.partition] /\ ~Parked(r))
          => Requests = {} \/ \E r \in Requests :
               /\ row[k] = Value(r)
               /\ \A q \in Requests : RequestedAt[Value(r)] <= RequestedAt[Value(q)]

\* A process that leaves its loop, because of the flag, an answer that cannot be
\* parsed or a commit that raised, has no unsettled record in hand.
ClosesSettled ==
  \A i \in Instance :
    pc[i] = "closing" /\ record[i] # NoRecord => Settled(record[i])

\* A written row is rewritten only by a strictly earlier request of its own
\* subscription: a repeat does not touch it.
RewrittenOnlyEarlier ==
  [][\A k \in Key : row[k] \in Event /\ row'[k] # row[k] =>
       /\ row'[k] \in Event
       /\ KeyOf[row'[k]] = k
       /\ RequestedAt[row'[k]] < RequestedAt[row[k]]]_vars

\* What docs/operational-design.md says of the row: unsubscribed_at is that of
\* the first request that changed the state, and is not rewritten.
FirstRequestPreserved ==
  [][\A k \in Key : row[k] \in Event => row'[k] = row[k]]_vars

\* The consumers implement at-least-once delivery.
Delivery == INSTANCE ConsentDelivery
              WITH settled <- {r \in Record : Settled(r)}, First <- 1
AtLeastOnce == Delivery!Spec

-----------------------------------------------------------------------------
(* Liveness.  The threads of a process run, the service answers or the     *)
(* client's timeout ends the call, Docker restarts what exits, and Kafka   *)
(* hands out the partitions.                                               *)

Progress(i) ==
  /\ WF_vars(Start(i))
  /\ WF_vars(\E p \in Partition : PollEvent(i, p) \/ PollUndecoded(i, p))
  /\ WF_vars(Send(i))
  /\ WF_vars(CallAccepted(i) \/ CallRejected(i) \/ CallFailed(i))
  /\ WF_vars(FlushReturns(i))
  /\ WF_vars(Commit(i) \/ CommitRaises(i))
  /\ WF_vars(LeaveLoop(i))
  /\ WF_vars(Close(i))
  /\ WF_vars(Rejoin(i))
  /\ \A p \in Partition : WF_vars(Assign(i, p))

FairSpec == Spec /\ \A i \in Instance : Progress(i)

\* If from some time on the group is left alone, every record is settled: no
\* record, however often its calls fail, holds up the ones behind it.
EveryRecordIsSettled ==
  <>[][~Disruption]_vars => \A r \in Record : <>Settled(r)
=============================================================================
