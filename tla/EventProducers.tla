--------------------------- MODULE EventProducers ----------------------------
(***************************************************************************)
(* services/event-producers: a loop that generates requests and sends them *)
(* with the producer library, until it is told to stop; it then flushes    *)
(* and says with its exit code whether a message was lost.                 *)
(*                                                                         *)
(* A message is its batch and its kind.  The ids of an event are random,   *)
(* so no two batches share one; a duplicate has those of its batch's event.*)
(***************************************************************************)
EXTENDS UnsubscribeProducer, Sequences

CONSTANTS
  Batches,       \* how many batches are generated in all
  Anomaly        \* kinds with a probability above 0

ASSUME EventsAssumption ==
  /\ Batches \in Nat
  /\ Anomaly \subseteq {"duplicate", "meaningless", "garbage"}
  /\ Message = (1..Batches) \X ({"event"} \cup Anomaly)

VARIABLES
  place,         \* where a process is in main()
  pending,       \* messages of the batch in hand that are not sent
  made,          \* messages of the process
  stopped,       \* the shutdown flag
  raising,       \* an exception is on its way through the finally block
  status,        \* exit code of the last process; 2: none
  batches        \* generated so far

loopVars == <<place, pending, made, stopped, raising, status, batches>>

\* The values of the variables; a process that is not there has no messages.
EventsTypeOK ==
  /\ ProducerTypeOK
  /\ place \in [Producer -> {"down", "loop", "send", "flush"}]
  /\ pending \in [Producer -> Seq(Message)]
  /\ made \in [Producer -> SUBSET Message]
  /\ stopped \in [Producer -> BOOLEAN]
  /\ raising \in [Producer -> BOOLEAN]
  /\ status \in [Producer -> 0..2]
  /\ batches \in 0..Batches
  /\ \A p \in Producer :
       /\ place[p] = "down" => queue[p] \cup acked[p] \cup errored[p] = {}
       /\ place[p] = "loop" => pending[p] = <<>>
       /\ place[p] # "down" => status[p] = 2

EventsInit ==
  /\ ProducerInit
  /\ place = [p \in Producer |-> "down"]
  /\ pending = [p \in Producer |-> <<>>]
  /\ made = [p \in Producer |-> {}]
  /\ stopped = [p \in Producer |-> FALSE]
  /\ raising = [p \in Producer |-> FALSE]
  /\ status = [p \in Producer |-> 2]
  /\ batches = 0

Goto(p, l) == place' = [place EXCEPT ![p] = l]

-----------------------------------------------------------------------------
\* Compose starts it, or starts it again; Forget() gave it a new producer.
StartProcess(p) ==
  /\ place[p] = "down"
  /\ Goto(p, "loop")
  /\ made' = [made EXCEPT ![p] = {}]
  /\ stopped' = [stopped EXCEPT ![p] = FALSE]
  /\ status' = [status EXCEPT ![p] = 2]
  /\ UNCHANGED <<producerVars, pending, raising, batches>>

\* SIGTERM sets the flag, which main() looks at between two batches.
Stop(p) ==
  /\ place[p] # "down"
  /\ ~stopped[p]
  /\ stopped' = [stopped EXCEPT ![p] = TRUE]
  /\ UNCHANGED <<producerVars, place, pending, made, raising, status, batches>>

\* next_batch(): one event and any of the anomalies; garbage is sent last.
Batch(n, anomalies) ==
  LET Maybe(kind) == IF kind \in anomalies THEN <<<<n, kind>>>> ELSE <<>>
  IN <<<<n, "event">>>> \o Maybe("duplicate") \o Maybe("meaningless") \o Maybe("garbage")

NextBatch(p) ==
  /\ place[p] = "loop"
  /\ ~stopped[p]
  /\ batches < Batches
  /\ batches' = batches + 1
  /\ \E anomalies \in SUBSET Anomaly :
       LET batch == Batch(batches', anomalies)
       IN /\ pending' = [pending EXCEPT ![p] = batch]
          /\ made' = [made EXCEPT ![p] = @ \cup {batch[i] : i \in 1..Len(batch)}]
  /\ Goto(p, "send")
  /\ UNCHANGED <<producerVars, stopped, raising, status>>

\* send() or send_raw() queues the message; behind the last one the loop waits.
Send(p) ==
  /\ place[p] = "send"
  /\ Enqueue(p, Head(pending[p]))
  /\ pending' = [pending EXCEPT ![p] = Tail(@)]
  /\ Goto(p, IF Len(pending[p]) = 1 THEN "loop" ELSE "send")
  /\ UNCHANGED <<made, stopped, raising, status, batches>>

SendWaits(p) ==
  /\ place[p] = "send"
  /\ AwaitRoom(p)
  /\ UNCHANGED loopVars

Throw(p) ==
  /\ raising' = [raising EXCEPT ![p] = TRUE]
  /\ Goto(p, "flush")
  /\ UNCHANGED <<pending, made, stopped, status, batches>>

\* The queue stays full until the deadline ...
SendGivesUp(p) ==
  /\ place[p] = "send"
  /\ GiveUp(p)
  /\ Throw(p)

\* ... or an event cannot be serialized: the registry is away.
SerializationFails(p) ==
  /\ place[p] = "send"
  /\ Head(pending[p])[2] # "garbage"
  /\ Throw(p)
  /\ UNCHANGED producerVars

LeaveLoop(p) ==
  /\ place[p] = "loop"
  /\ stopped[p]
  /\ Goto(p, "flush")
  /\ UNCHANGED <<producerVars, pending, made, stopped, raising, status, batches>>

\* The process is gone, and with it what is queued.
Exit(p, code) ==
  /\ Forget(p)
  /\ Goto(p, "down")
  /\ status' = [status EXCEPT ![p] = code]
  /\ raising' = [raising EXCEPT ![p] = FALSE]
  /\ pending' = [pending EXCEPT ![p] = <<>>]
  /\ UNCHANGED <<made, stopped, batches>>

\* Mutant: the exit code forgets what flush() has left.
FlushAndExitOnFailed(p) ==
  /\ place[p] = "flush"
  /\ Exit(p, IF raising[p] \/ failed[p] + Cardinality(errored[p]) > 0 THEN 1 ELSE 0)

\* flush() runs the callbacks and returns when the queue is empty or its timeout
\* has passed; then nothing changes the counters any more.
FlushAndExit(p) ==
  /\ place[p] = "flush"
  /\ Exit(p, IF \/ raising[p]
                \/ failed[p] + Cardinality(errored[p]) > 0
                \/ StillQueued(p) > 0
               THEN 1 ELSE 0)

\* SIGKILL after the grace period, or any other death.
Kill(p) ==
  /\ place[p] # "down"
  /\ Exit(p, 1)

-----------------------------------------------------------------------------
Process(p) ==
  \/ NextBatch(p) \/ Send(p) \/ SendWaits(p) \/ SendGivesUp(p)
  \/ SerializationFails(p) \/ LeaveLoop(p) \/ FlushAndExit(p)

\* "A non-zero exit tells Docker that some messages were lost": after an exit with
\* 0 every message the process has generated is on the topic.
CleanExitLosesNothing ==
  \A p \in Producer : status[p] = 0 => made[p] \subseteq topic
=============================================================================
