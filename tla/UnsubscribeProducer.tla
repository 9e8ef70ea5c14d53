------------------------ MODULE UnsubscribeProducer -------------------------
(***************************************************************************)
(* libs/tikblog_kafka/producer.py: the Kafka producer of the event sources *)
(* and of Legal ingestion.  A message waits in the client's local queue,   *)
(* is sent by a background thread, and is counted when the application     *)
(* calls poll() or flush(), which run the delivery callbacks.              *)
(***************************************************************************)
EXTENDS Naturals, FiniteSets

CONSTANTS
  Producer,      \* processes with a producer
  Message,       \* what a process may send; it sends each at most once
  QueueLimit     \* queue.buffering.max.messages

ASSUME ProducerAssumption ==
  /\ IsFiniteSet(Message)
  /\ QueueLimit \in Nat \ {0}

VARIABLES
  queue,         \* messages the background thread has not finished
  acked,         \* delivery reports waiting for a callback: confirmed ...
  errored,       \* ... or failed
  delivered,     \* delivered_count
  failed,        \* failed_count
  topic          \* messages on the Kafka topic

producerVars == <<queue, acked, errored, delivered, failed, topic>>

\* The values of the variables.
ProducerTypeOK ==
  /\ queue \in [Producer -> SUBSET Message]
  /\ acked \in [Producer -> SUBSET Message]
  /\ errored \in [Producer -> SUBSET Message]
  /\ delivered \in [Producer -> Nat]
  /\ failed \in [Producer -> Nat]
  /\ topic \in SUBSET Message

ProducerInit ==
  /\ queue = [p \in Producer |-> {}]
  /\ acked = [p \in Producer |-> {}]
  /\ errored = [p \in Producer |-> {}]
  /\ delivered = [p \in Producer |-> 0]
  /\ failed = [p \in Producer |-> 0]
  /\ topic = {}

\* A message leaves the local queue only with its callback.
Full(p) == Cardinality(queue[p] \cup acked[p] \cup errored[p]) >= QueueLimit

\* poll(): _report_delivery() runs for every report that has come in.
RunCallbacks(p) ==
  /\ delivered' = [delivered EXCEPT ![p] = @ + Cardinality(acked[p])]
  /\ failed' = [failed EXCEPT ![p] = @ + Cardinality(errored[p])]
  /\ acked' = [acked EXCEPT ![p] = {}]
  /\ errored' = [errored EXCEPT ![p] = {}]

\* _enqueue() finds room, and polls once.
Enqueue(p, m) ==
  /\ ~Full(p)
  /\ queue' = [queue EXCEPT ![p] = @ \cup {m}]
  /\ RunCallbacks(p)
  /\ UNCHANGED topic

\* _enqueue() finds none and polls, until the deadline ...
AwaitRoom(p) ==
  /\ Full(p)
  /\ acked[p] \cup errored[p] # {}
  /\ RunCallbacks(p)
  /\ UNCHANGED <<queue, topic>>

\* Mutant: there is no deadline.
GiveUpNever(p) == AwaitRoom(p)

\* ... when it counts a failure and raises.
GiveUp(p) ==
  /\ Full(p)
  /\ failed' = [failed EXCEPT ![p] = @ + 1]
  /\ UNCHANGED <<queue, acked, errored, delivered, topic>>

\* flush() runs callbacks until the queue is empty or its timeout has passed,
\* and returns the number of messages still queued.
Flush(p) == RunCallbacks(p) /\ UNCHANGED <<queue, topic>>
StillQueued(p) == Cardinality(queue[p])

\* The background thread: all in-sync replicas have the message.
Deliver(p, m) ==
  /\ m \in queue[p]
  /\ queue' = [queue EXCEPT ![p] = @ \ {m}]
  /\ acked' = [acked EXCEPT ![p] = @ \cup {m}]
  /\ topic' = topic \cup {m}
  /\ UNCHANGED <<errored, delivered, failed>>

\* The message expires.  It may have been written all the same.
Expire(p, m) ==
  /\ m \in queue[p]
  /\ queue' = [queue EXCEPT ![p] = @ \ {m}]
  /\ errored' = [errored EXCEPT ![p] = @ \cup {m}]
  /\ topic' \in {topic, topic \cup {m}}
  /\ UNCHANGED <<acked, delivered, failed>>

\* A new process has a new producer; what the old one queued is gone.
Forget(p) ==
  /\ queue' = [queue EXCEPT ![p] = {}]
  /\ acked' = [acked EXCEPT ![p] = {}]
  /\ errored' = [errored EXCEPT ![p] = {}]
  /\ delivered' = [delivered EXCEPT ![p] = 0]
  /\ failed' = [failed EXCEPT ![p] = 0]
  /\ UNCHANGED topic
=============================================================================
