---------------------------- MODULE SilverLedger ----------------------------
(***************************************************************************)
(* What the streams of a channel promise of the records of its topic:      *)
(* each is settled exactly once.  Silver gets a row of every event_id that *)
(* has a valid record and never a second one, nor a row that can never be  *)
(* valid; no record that is valid from the beginning is rejected; and the  *)
(* checkpoint passes only what is settled.  It says nothing of Bronze,     *)
(* batches, commits, runs or repetitions.                                  *)
(***************************************************************************)
EXTENDS Naturals

CONSTANTS Rows, IdOf, Kind

VARIABLES
  topic,        \* records on the topic, numbered from 1
  passed,       \* how many of them the checkpoint of the Silver query has passed
  silver,       \* the records in Silver
  rejected      \* the records in quarantine

Init ==
  /\ topic = 0
  /\ passed = 0
  /\ silver = {}
  /\ rejected = {}

Publish ==
  /\ topic < Rows
  /\ topic' = topic + 1
  /\ UNCHANGED <<passed, silver, rejected>>

\* New rows are of new events, one of each.
Accept(new) ==
  /\ \A r \in new : /\ Kind[r] # "bad"
                    /\ \A q \in silver \cup new : IdOf[q] = IdOf[r] => q = r
  /\ silver' = silver \cup new
  /\ UNCHANGED <<topic, passed, rejected>>

Reject(new) ==
  /\ \A r \in new : Kind[r] # "good"
  /\ rejected' = rejected \cup new
  /\ UNCHANGED <<topic, passed, silver>>

Settled(r) == r \in rejected \/ \E q \in silver : IdOf[q] = IdOf[r]

Pass(n) ==
  /\ passed < n
  /\ \A r \in 1..n : Settled(r)
  /\ passed' = n
  /\ UNCHANGED <<topic, silver, rejected>>

Next ==
  \/ Publish
  \/ \E new \in SUBSET (1..topic) : Accept(new) \/ Reject(new)
  \/ \E n \in 1..topic : Pass(n)

Spec == Init /\ [][Next]_<<topic, passed, silver, rejected>>
=============================================================================
