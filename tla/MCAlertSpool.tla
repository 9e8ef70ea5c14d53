---------------------------- MODULE MCAlertSpool ----------------------------
(* A few alerts for TLC.                                                   *)
EXTENDS AlertSpool

(* TLC explores every behaviour with at most MaxDisruptions disruptions.   *)
CONSTANT MaxDisruptions
VARIABLE disruptions

MCNext ==
  \/ Operation /\ UNCHANGED disruptions
  \/ /\ disruptions < MaxDisruptions
     /\ Disruption
     /\ disruptions' = disruptions + 1
MCInit == Init /\ disruptions = 0
MCSpec == MCInit /\ [][MCNext]_<<vars, disruptions>> /\ Fairness
=============================================================================
