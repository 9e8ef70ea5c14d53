--------------------------- MODULE MCGoldRefresh ----------------------------
(* Small tables for TLC.                                                   *)
EXTENDS GoldRefresh, TLC

CONSTANTS ui, late, legal, today, before, UI, LEGAL

\* Two priority events behind one aggregate, and a Legal event on another date.
DateOfEvent == ui :> today @@ late :> today @@ legal :> before
SourceOfEvent == ui :> UI @@ late :> UI @@ legal :> LEGAL

(* TLC explores every behaviour with at most MaxDisruptions disruptions.   *)
CONSTANT MaxDisruptions
VARIABLE disruptions

MCNext ==
  \/ Operation /\ UNCHANGED disruptions
  \/ /\ disruptions < MaxDisruptions
     /\ Disruption
     /\ disruptions' = disruptions + 1
MCVars == <<vars, disruptions>>
MCInit == Init /\ disruptions = 0
MCSpec == MCInit /\ [][MCNext]_MCVars /\ Fairness
=============================================================================
