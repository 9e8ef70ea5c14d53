------------------------------ MODULE GoldView ------------------------------
(***************************************************************************)
(* What the driver promises of its two tables: Gold is a view of Silver,   *)
(* recomputed for some dates at a time in one atomic step.  Silver only    *)
(* grows, a refresh puts exactly the rows that Silver holds at that moment *)
(* behind the aggregates of its dates, and nothing else changes Gold.      *)
(***************************************************************************)
CONSTANTS Event, Date, Source, DateOf, SourceOf

VARIABLES
  silver,     \* the rows of Silver
  gold        \* the rows behind the aggregate of a date and a source

RowsBehind(d, s) == {e \in silver : DateOf[e] = d /\ SourceOf[e] = s}

Init ==
  /\ silver = {}
  /\ gold = [g \in Date \X Source |-> {}]

Merge ==
  /\ silver \subseteq silver'
  /\ silver' \subseteq Event
  /\ UNCHANGED gold

Refresh(D) ==
  /\ gold' = [g \in Date \X Source |->
       IF g[1] \in D THEN RowsBehind(g[1], g[2]) ELSE gold[g]]
  /\ UNCHANGED silver

Next == Merge \/ \E D \in SUBSET Date : Refresh(D)

Spec == Init /\ [][Next]_<<silver, gold>>
=============================================================================
