-------------------------- MODULE MCLegalPipeline ---------------------------
(* A short Legal topic for TLC.                                            *)
EXTENDS LegalPipeline

\* One partition stays shorter than the other may become.
Short == \E p \in Partition : high[p] < Records

(* TLC explores every behaviour with at most MaxDisruptions disruptions.   *)
CONSTANT MaxDisruptions
VARIABLE disruptions

MCNext ==
  \/ Operation /\ Short' /\ UNCHANGED disruptions
  \/ /\ disruptions < MaxDisruptions
     /\ Disruption
     /\ disruptions' = disruptions + 1
MCInit == Init /\ disruptions = 0
MCSpec == MCInit /\ [][MCNext]_<<vars, disruptions>> /\ Fairness
=============================================================================
