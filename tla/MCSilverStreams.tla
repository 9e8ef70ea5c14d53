-------------------------- MODULE MCSilverStreams ---------------------------
(* A short topic for TLC.                                                  *)
EXTENDS SilverStreams

CONSTANTS a, b

\* An event dated ahead, its valid duplicate, and a record that is never valid.
Ids == <<a, a, b>>
Kinds == <<"early", "good", "bad">>

(* TLC explores every behaviour with at most MaxDisruptions disruptions.   *)
CONSTANT MaxDisruptions
VARIABLE disruptions

MCNext ==
  \/ Operation /\ UNCHANGED disruptions
  \/ /\ disruptions < MaxDisruptions
     /\ Disruption
     /\ disruptions' = disruptions + 1
MCInit == Init /\ disruptions = 0
MCSpec == MCInit /\ [][MCNext]_<<vars, disruptions>> /\ Fairness
=============================================================================
