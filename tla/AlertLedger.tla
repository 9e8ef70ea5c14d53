----------------------------- MODULE AlertLedger -----------------------------
(***************************************************************************)
(* What the alert spool promises: each task failure that was reported is   *)
(* recorded in alert_events once, however often it is reported and by      *)
(* whatever way the report travels.                                        *)
(***************************************************************************)
EXTENDS Naturals

CONSTANT Alert

VARIABLES
  reported,      \* alerts reported so far
  entries        \* how many rows the table has of each

vars == <<reported, entries>>

Init ==
  /\ reported = {}
  /\ entries = [a \in Alert |-> 0]

Report(a) ==
  /\ a \notin reported
  /\ reported' = reported \cup {a}
  /\ UNCHANGED entries

Record(a) ==
  /\ a \in reported
  /\ entries[a] = 0
  /\ entries' = [entries EXCEPT ![a] = 1]
  /\ UNCHANGED reported

Next == \E a \in Alert : Report(a) \/ Record(a)

Spec == Init /\ [][Next]_vars
=============================================================================
