--------------------------- MODULE MCEventSources ----------------------------
(* A small deployment for TLC.                                             *)
EXTENDS EventSources

CONSTANTS priority, dlq

\* topics.yaml, in small.
Wanted == [partitions |-> 2, replicas |-> 3, config |-> 2]
TopicsYaml == <<[name |-> priority, setup |-> Wanted], [name |-> dlq, setup |-> Wanted]>>

\* An old topic, one with too few replicas, one with too many partitions.
Old == [partitions |-> 1, replicas |-> 3, config |-> 1]
Setups == {Wanted, Old,
           [partitions |-> 2, replicas |-> 3, config |-> 1],
           [partitions |-> 2, replicas |-> 1, config |-> 1],
           [partitions |-> 3, replicas |-> 3, config |-> 1]}

Messages == (1..Batches) \X ({"event"} \cup Anomaly)

(* TLC explores every behaviour with at most MaxDisruptions disruptions,   *)
(* from any priority topic and from a missing or an old dead-letter topic. *)
CONSTANT MaxDisruptions
VARIABLE disruptions

MCInit ==
  /\ Init
  /\ topics[dlq] \in {Missing, Old}
  /\ disruptions = 0
MCNext ==
  \/ Operation /\ UNCHANGED disruptions
  \/ /\ disruptions < MaxDisruptions
     /\ Disruption
     /\ disruptions' = disruptions + 1
MCSpec == MCInit /\ [][MCNext]_<<vars, disruptions>> /\ Fairness
=============================================================================
