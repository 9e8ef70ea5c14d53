-------------------------- MODULE ConsentDelivery ---------------------------
(***************************************************************************)
(* What the consumers promise of the records of a topic, and the sensor's  *)
(* group of the Legal DAG of those of its own: at-least-once delivery.  A  *)
(* record may be settled early, late, or more than once, but never becomes *)
(* unsettled; and no commit moves the offset of a partition, in either     *)
(* direction, to a place beyond an unsettled record.                       *)
(***************************************************************************)
EXTENDS Naturals

CONSTANTS
  Partition,
  Record,     \* records with the fields partition and offset
  First       \* the committed offset of a partition before the first commit

VARIABLES settled, committed

Init ==
  /\ settled = {}
  /\ committed = [p \in Partition |-> First]

Settle ==
  /\ settled \subseteq settled'
  /\ settled' \subseteq Record
  /\ UNCHANGED committed

Behind(p, n) == {r \in Record : r.partition = p /\ r.offset < n}

Release ==
  /\ committed' \in [Partition -> Nat]
  /\ \A p \in Partition :
       committed'[p] # committed[p] => Behind(p, committed'[p]) \subseteq settled
  /\ UNCHANGED settled

Next == Settle \/ Release

Spec == Init /\ [][Next]_<<settled, committed>>
=============================================================================
