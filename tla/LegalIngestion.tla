--------------------------- MODULE LegalIngestion ---------------------------
(***************************************************************************)
(* services/legal-ingestion: the job that publishes the rows of the CSV    *)
(* files in the inbox of an object store and moves each file to the        *)
(* processed prefix.  Several runs of the job may overlap.                 *)
(*                                                                         *)
(* Files are numbered in the order of their names.  A row is "good", "bad" *)
(* (build_event raises RowError), or "broken" (reading it raises: bytes    *)
(* that are not UTF-8, a csv.Error).                                       *)
(***************************************************************************)
EXTENDS UnsubscribeProducer, FiniteSetsExt, Integers, Sequences

CONSTANTS
  Name,         \* file names
  Rows          \* the rows of each file below its header

ASSUME FileAssumption ==
  /\ Name \subseteq Nat \ {0}
  /\ Rows \in [Name -> Seq({"good", "bad", "broken"})]
  /\ Message = UNION {{n} \X (1..Len(Rows[n])) : n \in Name}

RowsOf(n, kind) == {k \in 1..Len(Rows[n]) : Rows[n][k] = kind}
Events(n) == {n} \X RowsOf(n, "good")
Readable(n) == RowsOf(n, "broken") = {}

VARIABLES
  pc,           \* where a run of main() is
  todo,         \* what list_batches() returned and the loop has not reached
  file,         \* the file in hand
  line,         \* rows of it that were read
  before,       \* delivered_before
  inbox, processed, rejects     \* objects under the three prefixes

runVars == <<pc, todo, file, line, before>>
storeVars == <<inbox, processed, rejects>>
vars == <<producerVars, runVars, storeVars>>

Place == {"idle", "looping", "sending", "checking", "rejecting", "copying",
          "deleting", "failing"}

Reading == {"sending", "checking", "rejecting", "copying", "deleting"}

\* The values of the variables; a run past the head of its loop has a file.
TypeOK ==
  /\ ProducerTypeOK
  /\ pc \in [Producer -> Place]
  /\ todo \in [Producer -> SUBSET Name]
  /\ file \in [Producer -> Name \cup {0}]
  /\ \A r \in Producer : pc[r] \in Reading => file[r] \in Name
  /\ line \in [Producer -> Nat]
  /\ before \in [Producer -> Nat]
  /\ inbox \in SUBSET Name
  /\ processed \in SUBSET Name
  /\ rejects \in SUBSET Name

Init ==
  /\ ProducerInit
  /\ pc = [r \in Producer |-> "idle"]
  /\ todo = [r \in Producer |-> {}]
  /\ file = [r \in Producer |-> 0]
  /\ line = [r \in Producer |-> 0]
  /\ before = [r \in Producer |-> 0]
  /\ inbox = {}
  /\ processed = {}
  /\ rejects = {}

Goto(r, place) == pc' = [pc EXCEPT ![r] = place]

-----------------------------------------------------------------------------
\* The Legal team puts a file into the inbox, possibly for the second time.
Upload(n) ==
  /\ n \notin inbox
  /\ inbox' = inbox \cup {n}
  /\ UNCHANGED <<producerVars, runVars, processed, rejects>>

StartRun(r) ==
  /\ pc[r] = "idle"
  /\ todo' = [todo EXCEPT ![r] = inbox]
  /\ Goto(r, "looping")
  /\ UNCHANGED <<producerVars, file, line, before, storeVars>>

\* The head of the loop: a file that was processed before is skipped.
SkipFile(r) ==
  /\ pc[r] = "looping"
  /\ todo[r] # {}
  /\ Min(todo[r]) \in processed
  /\ todo' = [todo EXCEPT ![r] = @ \ {Min(@)}]
  /\ UNCHANGED <<producerVars, pc, file, line, before, storeVars>>

\* Mutant: the file in hand is not set.
OpenFileStale(r) ==
  /\ pc[r] = "looping"
  /\ todo[r] # {}
  /\ Min(todo[r]) \notin processed
  /\ todo' = [todo EXCEPT ![r] = @ \ {Min(@)}]
  /\ line' = [line EXCEPT ![r] = 0]
  /\ before' = [before EXCEPT ![r] = delivered[r]]
  /\ Goto(r, "sending")
  /\ UNCHANGED <<producerVars, file, storeVars>>

OpenFile(r) ==
  /\ pc[r] = "looping"
  /\ todo[r] # {}
  /\ Min(todo[r]) \notin processed
  /\ file' = [file EXCEPT ![r] = Min(todo[r])]
  /\ todo' = [todo EXCEPT ![r] = @ \ {Min(@)}]
  /\ line' = [line EXCEPT ![r] = 0]
  /\ before' = [before EXCEPT ![r] = delivered[r]]
  /\ Goto(r, IF Min(todo[r]) \in inbox THEN "sending" ELSE "failing")
  /\ UNCHANGED <<producerVars, storeVars>>

\* process_batch(): the next row.
NextRow(r, kind) ==
  /\ pc[r] = "sending"
  /\ line[r] < Len(Rows[file[r]])
  /\ Rows[file[r]][line[r] + 1] = kind

SendRow(r) ==
  /\ NextRow(r, "good")
  /\ Enqueue(r, <<file[r], line[r] + 1>>)
  /\ line' = [line EXCEPT ![r] = @ + 1]
  /\ UNCHANGED <<pc, todo, file, before, storeVars>>

AwaitRoomForRow(r) ==
  /\ NextRow(r, "good")
  /\ AwaitRoom(r)
  /\ UNCHANGED <<runVars, storeVars>>

QueueStaysFull(r) ==
  /\ NextRow(r, "good")
  /\ GiveUp(r)
  /\ Goto(r, "failing")
  /\ UNCHANGED <<todo, file, line, before, storeVars>>

RejectRow(r) ==
  /\ NextRow(r, "bad")
  /\ line' = [line EXCEPT ![r] = @ + 1]
  /\ UNCHANGED <<producerVars, pc, todo, file, before, storeVars>>

\* Rows are read one by one, so those before the broken one are on their way.
ReadFails(r) ==
  /\ NextRow(r, "broken")
  /\ Goto(r, "failing")
  /\ UNCHANGED <<producerVars, todo, file, line, before, storeVars>>

EndOfFile(r) ==
  /\ pc[r] = "sending"
  /\ line[r] = Len(Rows[file[r]])
  /\ Flush(r)
  /\ Goto(r, "checking")
  /\ UNCHANGED <<todo, file, line, before, storeVars>>

\* flush() comes back because the queue is empty, or because its time is up.
FlushEnds(r) == queue[r] = {} /\ EndOfFile(r)
FlushTimesOut(r) == queue[r] # {} /\ EndOfFile(r)

\* Mutants: an empty queue is taken for delivery; rejected rows are counted as
\* sent.
QueueEmpty(r) == StillQueued(r) = 0

CountsAllRows(r) ==
  /\ StillQueued(r) = 0
  /\ delivered[r] - before[r] = Len(Rows[file[r]])

\* still_queued and the two counts, as the code compares them.
Confirmed(r) ==
  /\ StillQueued(r) = 0
  /\ delivered[r] - before[r] = Len(Rows[file[r]]) - Cardinality(RowsOf(file[r], "bad"))

\* Mutant: the reject file is forgotten.
CheckCountsOnly(r) ==
  /\ pc[r] = "checking"
  /\ Goto(r, IF Confirmed(r) THEN "copying" ELSE "failing")
  /\ UNCHANGED <<producerVars, todo, file, line, before, storeVars>>

CheckCounts(r) ==
  /\ pc[r] = "checking"
  /\ Goto(r, IF ~Confirmed(r) THEN "failing"
             ELSE IF RowsOf(file[r], "bad") # {} THEN "rejecting" ELSE "copying")
  /\ UNCHANGED <<producerVars, todo, file, line, before, storeVars>>

WriteRejects(r) ==
  /\ pc[r] = "rejecting"
  /\ rejects' = rejects \cup {file[r]}
  /\ Goto(r, "copying")
  /\ UNCHANGED <<producerVars, todo, file, line, before, inbox, processed>>

\* Mutant: the move deletes before it copies.
DeleteFirst(r) ==
  /\ pc[r] = "copying"
  /\ file[r] \in inbox
  /\ inbox' = inbox \ {file[r]}
  /\ Goto(r, "deleting")
  /\ UNCHANGED <<producerVars, todo, file, line, before, processed, rejects>>

\* mark_processed(): copy_object, which needs its source, ...
CopyFile(r) ==
  /\ pc[r] = "copying"
  /\ file[r] \in inbox
  /\ processed' = processed \cup {file[r]}
  /\ Goto(r, "deleting")
  /\ UNCHANGED <<producerVars, todo, file, line, before, inbox, rejects>>

\* ... then delete_object, which does not.
DeleteFile(r) ==
  /\ pc[r] = "deleting"
  /\ inbox' = inbox \ {file[r]}
  /\ Goto(r, "looping")
  /\ UNCHANGED <<producerVars, todo, file, line, before, processed, rejects>>

\* Any call to the store or to the schema registry may raise.  (Where the next
\* step raises anyway, that step is ReadFails or SourceMissing.)
CallRaises(r) ==
  /\ \/ pc[r] = "sending" /\ ~NextRow(r, "broken")
     \/ pc[r] = "copying" /\ file[r] \in inbox
     \/ pc[r] \in {"rejecting", "deleting"}
  /\ Goto(r, "failing")
  /\ UNCHANGED <<producerVars, todo, file, line, before, storeVars>>

SourceMissing(r) ==
  /\ pc[r] = "copying"
  /\ file[r] \notin inbox
  /\ Goto(r, "failing")
  /\ UNCHANGED <<producerVars, todo, file, line, before, storeVars>>

EndRun(r) ==
  /\ Goto(r, "idle")
  /\ todo' = [todo EXCEPT ![r] = {}]
  /\ file' = [file EXCEPT ![r] = 0]
  /\ line' = [line EXCEPT ![r] = 0]
  /\ before' = [before EXCEPT ![r] = 0]
  /\ Forget(r)
  /\ UNCHANGED storeVars

Finish(r) == pc[r] = "looping" /\ todo[r] = {} /\ EndRun(r)

\* The exception is raised again after a flush, and the run ends: the files
\* after this one are not reached.
Abort(r) == pc[r] = "failing" /\ EndRun(r)

\* The process dies in the middle.
Crash(r) == (pc[r] \in Reading \/ todo[r] # {}) /\ pc[r] # "failing" /\ EndRun(r)

Background(r) == \E m \in queue[r] : Deliver(r, m) /\ UNCHANGED <<runVars, storeVars>>
Expiry(r) == \E m \in queue[r] : Expire(r, m) /\ UNCHANGED <<runVars, storeVars>>

-----------------------------------------------------------------------------
Run(r) ==
  \/ StartRun(r) \/ SkipFile(r) \/ OpenFile(r)
  \/ SendRow(r) \/ AwaitRoomForRow(r) \/ RejectRow(r) \/ ReadFails(r)
  \/ FlushEnds(r) \/ CheckCounts(r) \/ WriteRejects(r)
  \/ CopyFile(r) \/ DeleteFile(r) \/ SourceMissing(r) \/ Finish(r) \/ Abort(r)

Trouble ==
  \E r \in Producer :
    \/ QueueStaysFull(r) \/ FlushTimesOut(r) \/ Expiry(r)
    \/ CallRaises(r) \/ Crash(r)

Next ==
  \/ \E n \in Name : Upload(n)
  \/ \E r \in Producer : Run(r) \/ Background(r)
  \/ Trouble

Spec == Init /\ [][Next]_vars

-----------------------------------------------------------------------------
(* Properties.                                                             *)

\* A file is moved only when it was read to its end and Kafka has confirmed
\* every event it produced, although messages expire, the flush times out,
\* runs die between any two steps, and runs overlap.
ProcessedIsPublished ==
  \A n \in processed : Readable(n) /\ Events(n) \subseteq topic

\* A moved file has its rejects on record.
ProcessedHasRejects ==
  \A n \in processed : RowsOf(n, "bad") # {} => n \in rejects

\* A file goes one way, whatever fails, expires, dies or overlaps: published,
\* rejects recorded, archived, removed.  What it goes through is FileTransfer.
Transfer == INSTANCE FileTransfer WITH
  File     <- Name,
  EventsOf <- [n \in Name |-> Events(n)],
  Whole    <- {n \in Name : Readable(n)},
  Flawed   <- {n \in Name : RowsOf(n, "bad") # {}}

FilesAreTransferred == Transfer!Spec

(* The job is started again and again, and each run and the producer's     *)
(* thread make progress.                                                   *)
FairSpec ==
  Spec /\ \A r \in Producer : WF_vars(Run(r)) /\ WF_vars(Background(r))

Calm == <>[][~Trouble]_vars

\* Without further trouble a waiting file is processed, however many of its rows
\* are bad and whatever earlier runs left behind, if no file before it in the
\* order of names is unreadable: such a file ends every run.
EveryFileIsProcessed ==
  Calm => \A n \in Name :
    (\A m \in Name : m <= n => Readable(m)) => (n \in inbox ~> n \in processed)

\* What docs/operational-design.md says: a file that cannot be read at all is
\* set aside.
UnreadableIsSetAside ==
  Calm => \A n \in Name : n \in inbox /\ ~Readable(n) ~> n \notin inbox
=============================================================================
