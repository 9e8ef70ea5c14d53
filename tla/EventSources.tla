---------------------------- MODULE EventSources -----------------------------
(***************************************************************************)
(* infra/docker-compose.yml: the event producers start when topic-init has *)
(* succeeded.  What acks=all is worth to them depends on the setting the   *)
(* tool has given the topic (infra/topics.yaml).                           *)
(***************************************************************************)
EXTENDS TopicTool, EventProducers

CONSTANTS
  TopicInit,     \* the tool's process that Compose runs
  Target,        \* the topic of the producers
  Brokers        \* how many brokers there are

\* topics.yaml: min.insync.replicas is 2.
ASSUME SourcesAssumption ==
  /\ TopicInit \in Tool
  /\ \E i \in 1..Len(Specs) : Specs[i].name = Target /\ Specs[i].setup.config >= 2
  /\ Brokers \in Nat \ {0}

VARIABLES
  up,            \* brokers that are up and in sync
  copies         \* replicas that had a message when it was confirmed; 0: not yet

brokerVars == <<up, copies>>
vars == <<toolVars, producerVars, loopVars, brokerVars>>

\* The values of the variables.
TypeOK ==
  /\ ToolTypeOK
  /\ EventsTypeOK
  /\ up \in 0..Brokers
  /\ copies \in [Message -> 0..Brokers]

Init ==
  /\ ToolInit
  /\ EventsInit
  /\ up = Brokers
  /\ copies = [m \in Message |-> 0]

-----------------------------------------------------------------------------
\* Mutant: depends_on with service_started.
StartUngated(p) ==
  /\ stage[TopicInit] # "idle"
  /\ StartProcess(p)
  /\ UNCHANGED <<toolVars, brokerVars>>

\* depends_on: topic-init, service_completed_successfully.
Start(p) ==
  /\ stage[TopicInit] = "succeeded"
  /\ StartProcess(p)
  /\ UNCHANGED <<toolVars, brokerVars>>

Works(p) == Process(p) /\ UNCHANGED <<toolVars, brokerVars>>

Signal(p) == Stop(p) /\ UNCHANGED <<toolVars, brokerVars>>

Dies(p) == Kill(p) /\ UNCHANGED <<toolVars, brokerVars>>

Administration == Administer /\ UNCHANGED <<producerVars, loopVars, brokerVars>>

ToolFails ==
  /\ \E r \in Tool : Trouble(r)
  /\ UNCHANGED <<producerVars, loopVars, brokerVars>>

\* acks=all: the leader confirms when every in-sync replica has the message, and
\* refuses while there are fewer of them than min.insync.replicas.
InSync == IF up < topics[Target].replicas THEN up ELSE topics[Target].replicas

Confirm(p, m) ==
  /\ topics[Target] # Missing
  /\ InSync >= topics[Target].config
  /\ InSync > 0
  /\ Deliver(p, m)
  /\ copies' = [copies EXCEPT ![m] = InSync]
  /\ UNCHANGED <<toolVars, loopVars, up>>

\* A message that is refused, or has no topic to go to, expires.
GoesStale(p, m) ==
  /\ Expire(p, m)
  /\ topics[Target] = Missing => UNCHANGED topic
  /\ UNCHANGED <<toolVars, loopVars, brokerVars>>

BrokerFails ==
  /\ up > 0
  /\ up' = up - 1
  /\ UNCHANGED <<toolVars, producerVars, loopVars, copies>>

BrokerReturns ==
  /\ up < Brokers
  /\ up' = up + 1
  /\ UNCHANGED <<toolVars, producerVars, loopVars, copies>>

-----------------------------------------------------------------------------
Kafka ==
  BrokerReturns \/ \E p \in Producer, m \in Message : Confirm(p, m) \/ GoesStale(p, m)

Operation ==
  \/ Administration
  \/ \E p \in Producer : Start(p) \/ Works(p) \/ Signal(p)
  \/ Kafka

Disruption == ToolFails \/ BrokerFails \/ \E p \in Producer : Dies(p)

Next == Operation \/ Disruption

Fairness == \A p \in Producer : WF_vars(Works(p))

Spec == Init /\ [][Next]_vars

-----------------------------------------------------------------------------
(* Properties.                                                             *)

\* "2 of 3 replicas survives one broker": a confirmed request is never on the
\* leader alone, whatever the topic looked like before the tool came.
ConfirmedIsReplicated == \A m \in Message : copies[m] # 1

\* A producer that is told to stop ends, whatever becomes of its messages.
StopEnds ==
  \A p \in Producer : stopped[p] /\ place[p] # "down" ~> place[p] = "down"
=============================================================================
