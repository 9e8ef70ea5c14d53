----------------------- MODULE MCUnsubscribeConsumer ------------------------
(* Small deployments of UnsubscribeConsumer for TLC.                       *)
EXTENDS UnsubscribeConsumer, TLC

CONSTANTS ui, legal, u1, priority, batch, c1, c2

Requested == ui :> 2 @@ legal :> 1
KeyOfAll == [e \in Event |-> u1]

\* One partition of one topic, read by two instances of one group.
ShortLog == priority :> <<ui, legal>>
SameGroup == [i \in Instance |-> Partition]

\* The same subscription on both topics, one instance in each group.
TwoLogs == priority :> <<Undecodable, ui>> @@ batch :> <<legal>>
TwoGroups == c1 :> {priority} @@ c2 :> {batch}

Symmetry == Permutations(Instance)

(* TLC explores every behaviour with at most MaxDisruptions disruptions.   *)
CONSTANT MaxDisruptions
VARIABLE disruptions

MCInit == Init /\ disruptions = 0
MCNext ==
  \/ Operation /\ UNCHANGED disruptions
  \/ /\ disruptions < MaxDisruptions
     /\ Disruption
     /\ disruptions' = disruptions + 1
MCSpec == MCInit /\ [][MCNext]_<<vars, disruptions>>
MCFairSpec == MCSpec /\ \A i \in Instance : Progress(i)
=============================================================================
