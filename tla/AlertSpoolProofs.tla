-------------------------- MODULE AlertSpoolProofs ---------------------------
(***************************************************************************)
(* The alert spool, for any number of alerts and handler threads and any   *)
(* merge_attempts: type correctness, no reported alert is lost, and each   *)
(* is recorded once.                                                       *)
(***************************************************************************)
EXTENDS AlertSpool, TLAPS

-----------------------------------------------------------------------------
(* Types.                                                                  *)

(* The initial state of the spool has the types.                           *)
LEMMA TypeInit == Init => TypeOK
  BY SpoolAssumption DEF Init, TypeOK, Writer

(* A writer that starts insert_once() holds an alert.                      *)
LEMMA InsertType ==
  ASSUME TypeOK, running, NEW w \in Writer, NEW a \in Alert, step[w] = "idle",
         Insert(w, a)
  PROVE  /\ step' \in [Writer -> {"idle", "begin", "commit", "done"}]
         /\ row' \in [Writer -> Alert \cup {None}]
         /\ attempt' \in [Writer -> 0..(MergeAttempts - 1)]
         /\ absent' \in [Writer -> BOOLEAN]
         /\ behind' \subseteq {v \in Writer : step'[v] = "commit"}
         /\ \A v \in Writer : step'[v] = "idle" <=> row'[v] = None
  BY SpoolAssumption DEF Insert, TypeOK

(* A writer that is idle again holds nothing.                              *)
LEMMA IdleType ==
  ASSUME TypeOK, NEW w \in Writer, Idle(w)
  PROVE  /\ step' \in [Writer -> {"idle", "begin", "commit", "done"}]
         /\ row' \in [Writer -> Alert \cup {None}]
         /\ attempt' \in [Writer -> 0..(MergeAttempts - 1)]
         /\ absent' \in [Writer -> BOOLEAN]
         /\ behind' \subseteq {v \in Writer : step'[v] = "commit"}
         /\ \A v \in Writer : step'[v] = "idle" <=> row'[v] = None
         /\ (\A v \in Writer : step[v] = "idle") => \A v \in Writer : step'[v] = "idle"
  BY SpoolAssumption DEF Idle, TypeOK

(* The end of the driver's process keeps the types.                        *)
LEMMA EndsType == TypeOK /\ Ends => TypeOK'
<1> SUFFICES ASSUME TypeOK, Ends PROVE TypeOK'
  OBVIOUS
<1>1. /\ attempt' \in [Writer -> 0..(MergeAttempts - 1)]
      /\ absent' \in [Writer -> BOOLEAN]
      /\ step' \in [Writer -> {"idle", "begin", "commit", "done"}]
      /\ row' \in [Writer -> Alert \cup {None}]
      /\ behind' = {} /\ files' = {} /\ running' = FALSE
      /\ \A w \in Writer : step'[w] = "idle" /\ row'[w] = None
  BY SpoolAssumption DEF Ends
<1>2. /\ callback' \in [Alert -> {"idle", "writing", "written", "spooled", "posting"}]
      /\ handler' \in [Alert -> Handler \cup {None}]
      /\ \A a \in Alert : callback'[a] = "written" => callback[a] = "written"
  BY DEF Ends, TypeOK
<1>3. UNCHANGED <<temporary, spool, reported, entries>>
  BY DEF Ends
<1> QED
  BY <1>1, <1>2, <1>3 DEF TypeOK

(* The answer to a POST keeps them.                                        *)
LEMMA AnswerType ==
  ASSUME TypeOK, NEW h \in Handler, Answer(h)
  PROVE  TypeOK'
<1>1. h \in Writer
  BY DEF Writer
<1>2. Idle(h)
  BY DEF Answer
<1>3. /\ callback' \in [Alert -> {"idle", "writing", "written", "spooled", "posting"}]
      /\ handler' \in [Alert -> Handler \cup {None}]
      /\ \A a \in Alert : callback'[a] = "written" => temporary'[a] = "whole"
  BY DEF Answer, TypeOK
<1> QED
  BY <1>1, <1>2, <1>3, IdleType DEF Answer, TypeOK

(* An exception of insert_once() keeps them, in the handler and in the loop.*)
LEMMA RaisesType ==
  ASSUME TypeOK, NEW w \in Writer, Raises(w)
  PROVE  TypeOK'
  BY EndsType, AnswerType DEF Raises, Writer

(* Every step keeps the types.                                             *)
LEMMA TypeStep == TypeOK /\ [Next]_vars => TypeOK'
<1> SUFFICES ASSUME TypeOK, [Next]_vars PROVE TypeOK'
  OBVIOUS
<1>fail. ASSUME NEW a \in Alert, Fail(a) \/ WriteText(a) \/ Rename(a) PROVE TypeOK'
  BY <1>fail DEF Fail, WriteText, Rename, At, TypeOK, writerVars
<1>post. ASSUME NEW a \in Alert, Post(a) PROVE TypeOK'
  <2> PICK h \in Handler : step[h] = "idle" /\ handler' = [handler EXCEPT ![a] = h]
                           /\ Insert(h, a)
    BY <1>post DEF Post
  <2> h \in Writer
    BY DEF Writer
  <2> QED
    BY <1>post, InsertType DEF Post, At, TypeOK
<1>refused. ASSUME NEW a \in Alert, Refused(a) PROVE TypeOK'
  BY <1>refused DEF Refused, At, TypeOK, writerVars
<1>snapshot. ASSUME NEW w \in Writer, Snapshot(w) PROVE TypeOK'
  BY <1>snapshot DEF Snapshot, TypeOK, airflowVars
<1>merge. ASSUME NEW w \in Writer, Merge(w) PROVE TypeOK'
  <2>1. row[w] \in Alert
    BY <1>merge DEF Merge, TypeOK
  <2> QED
    BY <1>merge, <2>1 DEF Merge, Overtake, TypeOK, airflowVars
<1>conflict. ASSUME NEW w \in Writer, Conflict(w) PROVE TypeOK'
  <2>1. CASE attempt[w] + 1 < MergeAttempts
    BY <1>conflict, <2>1, SpoolAssumption DEF Conflict, TypeOK, airflowVars
  <2>2. CASE ~(attempt[w] + 1 < MergeAttempts)
    BY <1>conflict, <2>2, RaisesType DEF Conflict
  <2> QED BY <2>1, <2>2
<1>respond. ASSUME NEW h \in Handler, Respond(h) PROVE TypeOK'
  BY <1>respond, AnswerType DEF Respond
<1>glob. CASE Glob
  BY <1>glob DEF Glob, TypeOK, airflowVars, writerVars
<1>read. ASSUME NEW a \in Alert, ReadFile(a) PROVE TypeOK'
  <2> Loop \in Writer
    BY DEF Writer
  <2>1. CASE spool[a] = "whole"
    <3>1. running
      BY <1>read DEF ReadFile, TypeOK
    <3> QED
      BY <1>read, <2>1, <3>1, InsertType DEF ReadFile, TypeOK, airflowVars
  <2>2. CASE spool[a] # "whole"
    BY <1>read, <2>2, EndsType DEF ReadFile
  <2> QED BY <2>1, <2>2
<1>unlink. CASE Unlink
  <2> Loop \in Writer
    BY DEF Writer
  <2> QED
    BY <1>unlink, IdleType DEF Unlink, TypeOK
<1>restart. CASE Restart
  BY <1>restart DEF Restart, TypeOK, airflowVars, writerVars
<1>writefails. ASSUME NEW w \in Writer, WriteFails(w) PROVE TypeOK'
  BY <1>writefails, RaisesType DEF WriteFails
<1>ends. CASE DriverEnds
  BY <1>ends, EndsType DEF DriverEnds
<1>callback. ASSUME NEW a \in Alert, CallbackEnds(a) PROVE TypeOK'
  BY <1>callback DEF CallbackEnds, TypeOK, writerVars
<1>other. CASE OtherCommit
  BY <1>other DEF OtherCommit, TypeOK, airflowVars
<1>idle. CASE UNCHANGED vars
  BY <1>idle DEF vars, airflowVars, writerVars, TypeOK
<1>write. ASSUME NEW w \in Writer, Write(w) PROVE TypeOK'
  BY <1>write, <1>snapshot, <1>merge, <1>conflict DEF Write
<1> QED
  BY <1>fail, <1>post, <1>refused, <1>write, <1>respond, <1>glob, <1>read, <1>unlink,
     <1>restart, <1>writefails, <1>ends, <1>callback, <1>other, <1>idle
  DEF Next, Operation, Disruption, Callback, MainLoop, Serve, Writer

(* The variables of the spool keep their types, the attempts their bound,  *)
(* and a driver that is down holds nothing (driver.py, delta.py).          *)
THEOREM TypeCorrect == Spec => []TypeOK
  BY TypeInit, TypeStep, PTL DEF Spec

-----------------------------------------------------------------------------
(* The inductive invariant.                                                *)

\* A file under the name the main loop looks for is complete ...
WholeFiles == \A a \in Alert : spool[a] \in {"none", "whole"}

\* ... and what is listed, posted or inserted has been in the spool.
ReportedRows ==
  /\ files \subseteq reported
  /\ \A a \in Alert : spool[a] # "none" \/ callback[a] = "spooled" => a \in reported
  /\ \A w \in Writer : row[w] # None => row[w] \in reported

\* A snapshot that found the row is right for ever, one that did not as long as no
\* other transaction has committed.
SnapshotsHold ==
  \A w \in Writer : step[w] = "commit" =>
    /\ ~absent[w] => entries[row[w]] > 0
    /\ absent[w] /\ w \notin behind => entries[row[w]] = 0

\* Behind its insert_once() the main loop has its alert in the table.
LoopRecorded == step[Loop] = "done" => entries[row[Loop]] > 0

IInv ==
  TypeOK /\ WholeFiles /\ ReportedRows /\ SnapshotsHold /\ LoopRecorded
  /\ SpooledUntilRecorded

(* The invariant holds of the empty spool.                                 *)
LEMMA IInvInit == Init => IInv
  BY TypeInit, SpoolAssumption
  DEF Init, IInv, WholeFiles, ReportedRows, SnapshotsHold, LoopRecorded,
      SpooledUntilRecorded, Writer

(* What the driver gives up, it has not removed from the spool.            *)
LEMMA EndsKeeps == IInv /\ Ends => IInv'
<1> SUFFICES ASSUME IInv, Ends PROVE IInv'
  OBVIOUS
<1>1. TypeOK'
  BY EndsType DEF IInv
<1>2. /\ files' = {} /\ UNCHANGED <<spool, reported, entries>>
      /\ \A w \in Writer : step'[w] = "idle" /\ row'[w] = None
      /\ \A a \in Alert : callback'[a] = "spooled" => callback[a] = "spooled"
  BY DEF Ends, IInv, TypeOK
<1>3. Loop \in Writer
  BY DEF Writer
<1> QED
  BY <1>1, <1>2, <1>3
  DEF IInv, WholeFiles, ReportedRows, SnapshotsHold, LoopRecorded, SpooledUntilRecorded

(* Nor does the answer to a POST remove anything.                          *)
LEMMA AnswerKeeps ==
  ASSUME IInv, NEW h \in Handler, Answer(h)
  PROVE  IInv'
<1>1. TypeOK'
  BY AnswerType DEF IInv
<1>2. /\ UNCHANGED <<spool, reported, files, entries>>
      /\ \A a \in Alert : callback'[a] = "spooled" => callback[a] = "spooled"
  BY DEF Answer, IInv, TypeOK
<1>3. /\ step'[h] = "idle" /\ row'[h] = None
      /\ behind' = behind \ {h}
      /\ \A w \in Writer \ {h} : /\ step'[w] = step[w] /\ row'[w] = row[w]
                                 /\ absent'[w] = absent[w]
  BY DEF Answer, Idle, IInv, TypeOK, Writer
<1>4. Loop \in Writer \ {h}
  BY SpoolAssumption DEF Writer
<1>5. ReportedRows' /\ WholeFiles' /\ SpooledUntilRecorded'
  BY <1>2, <1>3 DEF IInv, ReportedRows, WholeFiles, SpooledUntilRecorded
<1>6. SnapshotsHold'
  BY <1>2, <1>3 DEF IInv, SnapshotsHold
<1>7. LoopRecorded'
  BY <1>2, <1>3, <1>4 DEF IInv, LoopRecorded
<1> QED
  BY <1>1, <1>5, <1>6, <1>7 DEF IInv

(* An exception of insert_once() loses no alert.                           *)
LEMMA RaisesKeeps ==
  ASSUME IInv, NEW w \in Writer, Raises(w)
  PROVE  IInv'
  BY EndsKeeps, AnswerKeeps DEF Raises, Writer

(* A commit makes the snapshots of all other writers old, and is itself    *)
(* made from a new one.                                                    *)
LEMMA MergeKeeps ==
  ASSUME IInv, NEW w \in Writer, Merge(w)
  PROVE  IInv'
<1>1. TypeOK'
  BY TypeStep DEF IInv, Next, Operation, MainLoop, Serve, Write, Writer
<1>2. row[w] \in Alert /\ step[w] = "commit" /\ w \notin behind
  BY DEF Merge, IInv, TypeOK
<1>3. UNCHANGED <<callback, spool, reported, files, row, absent>>
  BY DEF Merge, airflowVars
<1>4. /\ step'[w] = "done"
      /\ \A v \in Writer \ {w} : step'[v] = step[v]
  BY DEF Merge, IInv, TypeOK
<1>5. \A a \in Alert : entries[a] \in Nat /\ entries'[a] \in Nat /\ entries'[a] >= entries[a]
  BY <1>2 DEF Merge, IInv, TypeOK
<1>6. entries'[row[w]] > 0
  BY <1>2, <1>5 DEF Merge, IInv, TypeOK, SnapshotsHold
<1>7. SnapshotsHold'
  <2> SUFFICES ASSUME NEW v \in Writer, step'[v] = "commit"
               PROVE  /\ ~absent[v] => entries'[row[v]] > 0
                      /\ absent[v] /\ v \notin behind' => entries'[row[v]] = 0
    BY <1>3 DEF SnapshotsHold
  <2>1. v # w /\ step[v] = "commit" /\ row[v] \in Alert
    BY <1>4 DEF IInv, TypeOK
  <2>2. ~absent[v] => entries'[row[v]] > 0
    BY <2>1, <1>5 DEF IInv, SnapshotsHold
  <2>3. CASE absent[w]
    BY <2>1, <2>2, <2>3 DEF Merge, Overtake
  <2>4. CASE ~absent[w]
    BY <2>1, <2>2, <2>4 DEF Merge, IInv, SnapshotsHold
  <2> QED BY <2>3, <2>4
<1>8. LoopRecorded'
  <2> SUFFICES ASSUME step'[Loop] = "done" PROVE entries'[row[Loop]] > 0
    BY <1>3 DEF LoopRecorded
  <2>1. CASE w = Loop
    BY <2>1, <1>6
  <2>2. CASE w # Loop
    <3>1. step[Loop] = "done" /\ row[Loop] \in Alert
      BY <2>2, <1>4 DEF Writer, IInv, TypeOK
    <3> QED BY <3>1, <1>5 DEF IInv, LoopRecorded
  <2> QED BY <2>1, <2>2
<1>9. WholeFiles' /\ ReportedRows' /\ SpooledUntilRecorded'
  <2>1. SpooledUntilRecorded'
    BY <1>3, <1>5 DEF IInv, TypeOK, SpooledUntilRecorded
  <2> QED BY <2>1, <1>3 DEF IInv, WholeFiles, ReportedRows
<1> QED
  BY <1>1, <1>7, <1>8, <1>9 DEF IInv

(* Every step keeps the invariant.                                         *)
LEMMA IInvStep == IInv /\ [Next]_vars => IInv'
<1> SUFFICES ASSUME IInv, [Next]_vars PROVE IInv'
  OBVIOUS
<1>type. TypeOK /\ TypeOK'
  BY TypeStep DEF IInv
<1>loop. Loop \in Writer
  BY DEF Writer
<1>write. ASSUME NEW a \in Alert, Fail(a) \/ WriteText(a) PROVE IInv'
  <2>1. /\ UNCHANGED <<spool, reported, entries, files, step, row, absent, behind>>
        /\ \A b \in Alert : callback'[b] = "spooled" => callback[b] = "spooled"
    BY <1>write, <1>type DEF Fail, WriteText, At, TypeOK, writerVars
  <2> QED
    BY <1>type, <2>1 DEF IInv, WholeFiles, ReportedRows, SnapshotsHold, LoopRecorded,
                         SpooledUntilRecorded
<1>rename. ASSUME NEW a \in Alert, Rename(a) PROVE IInv'
  <2>1. temporary[a] = "whole"
    BY <1>rename, <1>type DEF Rename, At, TypeOK
  <2>2. /\ spool'[a] = "whole" /\ reported' = reported \cup {a}
        /\ \A b \in Alert \ {a} : spool'[b] = spool[b] /\ callback'[b] = callback[b]
        /\ UNCHANGED <<entries, files, writerVars>>
    BY <1>rename, <2>1, <1>type DEF Rename, At, TypeOK
  <2>a. row' = row
    BY <2>2 DEF writerVars
  <2>b. WholeFiles'
    BY <2>2 DEF IInv, WholeFiles
  <2>c. ReportedRows'
    BY <2>2, <2>a DEF IInv, ReportedRows
  <2>d. SpooledUntilRecorded'
    <3> SUFFICES ASSUME NEW b \in reported' PROVE spool'[b] = "whole" \/ entries[b] > 0
      BY <2>2 DEF SpooledUntilRecorded
    <3>1. b \in Alert /\ (b = a \/ b \in reported)
      BY <2>2, <1>type DEF TypeOK
    <3> QED BY <3>1, <2>2 DEF IInv, SpooledUntilRecorded
  <2>3. WholeFiles' /\ ReportedRows' /\ SpooledUntilRecorded'
    BY <2>b, <2>c, <2>d
  <2> QED
    BY <1>type, <2>2, <2>3 DEF IInv, SnapshotsHold, LoopRecorded, writerVars
<1>insert. ASSUME NEW w \in Writer, NEW a \in reported, Insert(w, a),
                  UNCHANGED <<spool, reported, entries>>, files' \subseteq files,
                  \A b \in Alert : callback'[b] = "spooled" => callback[b] = "spooled"
           PROVE  IInv'
  <2>1. /\ step'[w] = "begin" /\ row'[w] = a
        /\ \A v \in Writer \ {w} : step'[v] = step[v] /\ row'[v] = row[v]
        /\ UNCHANGED <<absent, behind>>
    BY <1>insert, <1>type DEF Insert, TypeOK
  <2>2. WholeFiles' /\ ReportedRows' /\ SpooledUntilRecorded'
    BY <1>insert, <2>1 DEF IInv, WholeFiles, ReportedRows, SpooledUntilRecorded
  <2>3. SnapshotsHold' /\ LoopRecorded'
    BY <1>insert, <1>loop, <2>1 DEF IInv, SnapshotsHold, LoopRecorded
  <2> QED BY <1>type, <2>2, <2>3 DEF IInv
<1>post. ASSUME NEW a \in Alert, Post(a) PROVE IInv'
  <2>1. PICK h \in Handler : Insert(h, a)
    BY <1>post DEF Post
  <2>2. a \in reported /\ h \in Writer
    BY <1>post DEF Post, At, IInv, ReportedRows, Writer
  <2>3. \A b \in Alert : callback'[b] = "spooled" => callback[b] = "spooled"
    BY <1>post, <1>type DEF Post, At, TypeOK
  <2> QED
    BY <1>post, <1>insert, <2>1, <2>2, <2>3 DEF Post
<1>refused. ASSUME NEW a \in Alert, Refused(a) \/ CallbackEnds(a) PROVE IInv'
  <2>1. /\ UNCHANGED <<spool, reported, entries, files, step, row, absent, behind>>
        /\ \A b \in Alert : callback'[b] = "spooled" => callback[b] = "spooled"
    BY <1>refused, <1>type DEF Refused, CallbackEnds, At, TypeOK, writerVars
  <2> QED
    BY <1>type, <2>1 DEF IInv, WholeFiles, ReportedRows, SnapshotsHold, LoopRecorded,
                         SpooledUntilRecorded
<1>snapshot. ASSUME NEW w \in Writer, Snapshot(w) PROVE IInv'
  <2>1. /\ UNCHANGED <<callback, spool, reported, entries, files, row, behind>>
        /\ step'[w] = "commit" /\ absent'[w] = (entries[row[w]] = 0)
        /\ \A v \in Writer \ {w} : step'[v] = step[v] /\ absent'[v] = absent[v]
    BY <1>snapshot, <1>type DEF Snapshot, TypeOK, airflowVars
  <2>2. row[w] \in Alert
    BY <1>snapshot, <1>type DEF Snapshot, TypeOK
  <2>3. entries[row[w]] \in Nat
    BY <2>2, <1>type DEF TypeOK
  <2>4. SnapshotsHold'
    <3> SUFFICES ASSUME NEW v \in Writer, step'[v] = "commit"
                 PROVE  /\ ~absent'[v] => entries[row[v]] > 0
                        /\ absent'[v] /\ v \notin behind => entries[row[v]] = 0
      BY <2>1 DEF SnapshotsHold
    <3>1. CASE v = w
      <4>1. CASE entries[row[w]] = 0
        <5>1. absent'[w]
          BY <4>1, <2>1
        <5> QED BY <3>1, <4>1, <5>1
      <4>2. CASE entries[row[w]] # 0
        <5>1. ~absent'[w]
          BY <4>2, <2>1
        <5> QED BY <3>1, <4>2, <5>1, <2>3
      <4> QED BY <4>1, <4>2
    <3>2. CASE v # w
      BY <3>2, <2>1 DEF IInv, SnapshotsHold
    <3> QED BY <3>1, <3>2
  <2>5. WholeFiles' /\ ReportedRows' /\ SpooledUntilRecorded' /\ LoopRecorded'
    BY <2>1, <1>loop
    DEF IInv, WholeFiles, ReportedRows, SpooledUntilRecorded, LoopRecorded
  <2> QED BY <1>type, <2>4, <2>5 DEF IInv
<1>conflict. ASSUME NEW w \in Writer, Conflict(w) PROVE IInv'
  <2>1. CASE attempt[w] + 1 < MergeAttempts
    <3>1. /\ UNCHANGED <<callback, spool, reported, entries, files, row, absent>>
          /\ step'[w] = "begin" /\ behind' = behind \ {w}
          /\ \A v \in Writer \ {w} : step'[v] = step[v]
      BY <1>conflict, <2>1, <1>type DEF Conflict, TypeOK, airflowVars
    <3>2. SnapshotsHold' /\ LoopRecorded'
      BY <3>1, <1>loop DEF IInv, SnapshotsHold, LoopRecorded
    <3> QED
      BY <1>type, <3>1, <3>2 DEF IInv, WholeFiles, ReportedRows, SpooledUntilRecorded
  <2>2. CASE ~(attempt[w] + 1 < MergeAttempts)
    BY <1>conflict, <2>2, RaisesKeeps DEF Conflict
  <2> QED BY <2>1, <2>2
<1>respond. ASSUME NEW h \in Handler, Respond(h) PROVE IInv'
  BY <1>respond, AnswerKeeps DEF Respond
<1>glob. CASE Glob
  <2>1. files' = {a \in Alert : spool[a] # "none"}
    BY <1>glob DEF Glob
  <2>2. UNCHANGED <<callback, spool, reported, entries, step, row, absent, behind>>
    BY <1>glob DEF Glob, airflowVars, writerVars
  <2> QED
    BY <1>type, <2>1, <2>2 DEF IInv, WholeFiles, ReportedRows, SnapshotsHold, LoopRecorded,
                               SpooledUntilRecorded
<1>read. ASSUME NEW a \in Alert, ReadFile(a) PROVE IInv'
  <2>1. CASE spool[a] = "whole"
    <3>1. a \in reported
      BY <2>1 DEF IInv, ReportedRows
    <3> QED
      BY <1>read, <1>loop, <1>insert, <2>1, <3>1 DEF ReadFile, airflowVars
  <2>2. CASE spool[a] # "whole"
    BY <1>read, <2>2, EndsKeeps DEF ReadFile
  <2> QED BY <2>1, <2>2
<1>unlink. CASE Unlink
  <2>1. /\ UNCHANGED <<callback, reported, entries, files>>
        /\ step'[Loop] = "idle" /\ row'[Loop] = None /\ behind' = behind \ {Loop}
        /\ \A v \in Writer \ {Loop} : /\ step'[v] = step[v] /\ row'[v] = row[v]
                                      /\ absent'[v] = absent[v]
    BY <1>unlink, <1>type, <1>loop DEF Unlink, Idle, TypeOK
  <2>2. /\ row[Loop] \in Alert /\ entries[row[Loop]] > 0 /\ spool'[row[Loop]] = "none"
        /\ \A a \in Alert \ {row[Loop]} : spool'[a] = spool[a]
    BY <1>unlink, <1>type, <1>loop DEF Unlink, TypeOK, IInv, LoopRecorded
  <2>3. WholeFiles' /\ ReportedRows' /\ SpooledUntilRecorded'
    BY <2>1, <2>2, <1>type DEF IInv, WholeFiles, ReportedRows, SpooledUntilRecorded, TypeOK
  <2>4. SnapshotsHold' /\ LoopRecorded'
    BY <2>1 DEF IInv, SnapshotsHold, LoopRecorded
  <2> QED BY <1>type, <2>3, <2>4 DEF IInv
<1>other. CASE OtherCommit
  <2>1. /\ UNCHANGED <<callback, spool, reported, entries, files, step, row, absent>>
        /\ behind' = {v \in Writer : step[v] = "commit"}
    BY <1>other DEF OtherCommit, airflowVars
  <2> QED
    BY <1>type, <2>1 DEF IInv, WholeFiles, ReportedRows, SnapshotsHold, LoopRecorded,
                         SpooledUntilRecorded
<1>idle. CASE Restart \/ UNCHANGED vars
  BY <1>idle, <1>type
  DEF Restart, vars, airflowVars, writerVars, IInv, WholeFiles, ReportedRows,
      SnapshotsHold, LoopRecorded, SpooledUntilRecorded
<1>both. ASSUME NEW w \in Writer, Write(w) PROVE IInv'
  BY <1>both, <1>snapshot, <1>conflict, MergeKeeps DEF Write
<1>fails. ASSUME NEW w \in Writer, WriteFails(w) PROVE IInv'
  BY <1>fails, RaisesKeeps DEF WriteFails
<1>ends. CASE DriverEnds
  BY <1>ends, EndsKeeps DEF DriverEnds
<1>callback. ASSUME NEW a \in Alert, Fail(a) \/ Callback(a) PROVE IInv'
  BY <1>callback, <1>write, <1>rename, <1>post, <1>refused DEF Callback
<1>main. CASE MainLoop
  BY <1>main, <1>glob, <1>read, <1>both, <1>loop, <1>unlink, <1>idle DEF MainLoop
<1>serve. ASSUME NEW h \in Handler, Serve(h) PROVE IInv'
  BY <1>serve, <1>both, <1>respond DEF Serve, Writer
<1>disruption. CASE Disruption
  BY <1>disruption, <1>fails, <1>ends, <1>refused, <1>other DEF Disruption
<1> QED
  BY <1>callback, <1>main, <1>serve, <1>disruption, <1>idle DEF Next, Operation

(* An alert that has reached the spool is there until it is in the table,  *)
(* wherever the callback and the driver die (task_failed(), serve()).      *)
THEOREM NothingIsLost == Spec => []SpooledUntilRecorded
<1>1. Spec => []IInv
  BY IInvInit, IInvStep, PTL DEF Spec
<1>2. IInv => SpooledUntilRecorded
  BY DEF IInv
<1> QED BY <1>1, <1>2, PTL

(* File, POST, repeated reports and retried transactions leave one row of  *)
(* each alert: the spool implements AlertLedger (insert_once(), retry()).  *)
THEOREM Once == Spec => RecordedOnce
<1>1. Init => Ledger!Init
  BY DEF Init, Ledger!Init
<1>2. IInv /\ [Next]_vars => [Ledger!Next]_(Ledger!vars)
  <2> SUFFICES ASSUME IInv, [Next]_vars PROVE [Ledger!Next]_(Ledger!vars)
    OBVIOUS
  <2>1. ASSUME NEW a \in Alert, Rename(a) PROVE [Ledger!Next]_(Ledger!vars)
    <3>1. reported' = reported \cup {a} /\ UNCHANGED entries
      BY <2>1 DEF Rename
    <3>2. CASE a \in reported
      BY <3>1, <3>2 DEF Ledger!vars
    <3>3. CASE a \notin reported
      BY <3>1, <3>3 DEF Ledger!Next, Ledger!Report
    <3> QED BY <3>2, <3>3
  <2>2. ASSUME NEW w \in Writer, Merge(w) PROVE [Ledger!Next]_(Ledger!vars)
    <3>1. UNCHANGED reported
      BY <2>2 DEF Merge, airflowVars
    <3>2. CASE absent[w]
      <4>1. row[w] \in Alert /\ row[w] \in reported
        BY <2>2 DEF Merge, IInv, TypeOK, ReportedRows
      <4>2. entries[row[w]] = 0
        BY <2>2, <3>2 DEF Merge, IInv, SnapshotsHold
      <4>3. entries' = [entries EXCEPT ![row[w]] = 1]
        BY <2>2, <3>2, <4>2 DEF Merge
      <4> QED
        BY <3>1, <4>1, <4>2, <4>3 DEF Ledger!Next, Ledger!Record
    <3>3. CASE ~absent[w]
      BY <2>2, <3>1, <3>3 DEF Merge, Ledger!vars
    <3> QED BY <3>2, <3>3
  <2>3. [Next]_vars => \/ UNCHANGED <<reported, entries>>
                       \/ \E a \in Alert : Rename(a)
                       \/ \E w \in Writer : Merge(w)
    <3>1. \A w \in Writer : Raises(w) => UNCHANGED <<reported, entries>>
      BY DEF Raises, Ends, Answer
    <3> QED
      BY <3>1
      DEF Next, Operation, Disruption, Callback, MainLoop, Serve, Write, Fail, WriteText,
          Post, Refused, Glob, ReadFile, Ends, Unlink, Restart, Snapshot, Conflict,
          Respond, Answer, WriteFails, DriverEnds, CallbackEnds, OtherCommit, Writer,
          vars, airflowVars
  <2> QED
    BY <2>1, <2>2, <2>3 DEF Ledger!vars
<1>3. Spec => []IInv
  BY IInvInit, IInvStep, PTL DEF Spec
<1> QED
  BY <1>1, <1>2, <1>3, PTL DEF Spec, RecordedOnce, Ledger!Spec
=============================================================================
