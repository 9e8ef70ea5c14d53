---------------------------- MODULE FileTransfer ----------------------------
(***************************************************************************)
(* What the Legal ingestion job promises of a file: its events are         *)
(* published, then its rejects are recorded, then it is archived, and only *)
(* then is it taken from the inbox.  Nothing is published but events of    *)
(* files that were uploaded, and a file that cannot be read to its end     *)
(* comes no further than its events.  Each step may be repeated.  It says  *)
(* nothing of runs, rows, queues, counters or failures.                    *)
(***************************************************************************)
CONSTANTS
  File,
  EventsOf,     \* the events of each file
  Whole,        \* the files that can be read to their end
  Flawed        \* the files with rows that are rejected

VARIABLES
  inbox, processed,
  topic,        \* the events published
  rejects       \* the files whose rejects are recorded

Init ==
  /\ inbox = {}
  /\ processed = {}
  /\ topic = {}
  /\ rejects = {}

Known(n) == n \in inbox \cup processed
Published(n) == n \in Whole /\ EventsOf[n] \subseteq topic

Upload(n) ==
  /\ inbox' = inbox \cup {n}
  /\ UNCHANGED <<processed, topic, rejects>>

Publish(n) ==
  /\ Known(n)
  /\ \E e \in EventsOf[n] : topic' = topic \cup {e}
  /\ UNCHANGED <<inbox, processed, rejects>>

RecordRejects(n) ==
  /\ Known(n) /\ Published(n) /\ n \in Flawed
  /\ rejects' = rejects \cup {n}
  /\ UNCHANGED <<inbox, processed, topic>>

Archive(n) ==
  /\ n \in inbox /\ Published(n)
  /\ n \in Flawed => n \in rejects
  /\ processed' = processed \cup {n}
  /\ UNCHANGED <<inbox, topic, rejects>>

Remove(n) ==
  /\ n \in processed
  /\ inbox' = inbox \ {n}
  /\ UNCHANGED <<processed, topic, rejects>>

Next == \E n \in File :
  Upload(n) \/ Publish(n) \/ RecordRejects(n) \/ Archive(n) \/ Remove(n)

Spec == Init /\ [][Next]_<<inbox, processed, topic, rejects>>
=============================================================================
