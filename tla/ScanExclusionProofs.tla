------------------------ MODULE ScanExclusionProofs ------------------------
(***************************************************************************)
(* Theorems about WatchScan when every heartbeat is in time (Prompt), so   *)
(* that no two scans of a folder overlap.  Then what a scan has read at    *)
(* its start is still there when it writes, up to the marks that workers   *)
(* set and edits clear in between.                                         *)
(***************************************************************************)
EXTENDS WatchScanProofs

-----------------------------------------------------------------------------
(* The inductive invariant, on top of IInv.                                *)

(* A scan holds the lease from its claim to its end. *)
Exclusive ==
  \A s \in Scanner : ~At(s, "idle") => folder.owner = s /\ folder.lease = "live"

(* The snapshot of f is as the scan has read it, but for the marks. *)
AsRead(s, f) ==
  /\ record[f].ver = scan[s].read[f].ver
  /\ record[f].tgt = scan[s].read[f].tgt

(* Before the walk nothing is known of the files, and after the snapshots  *)
(* have been created it has been forgotten.                                *)
Blank(s) ==
  /\ scan[s].pc \in {"idle", "records", "tasks", "insert", "finish"} =>
       \A f \in File : scan[s].found[f] = 0
  /\ scan[s].pc \in {"idle", "records", "tasks", "finish"} =>
       scan[s].candidates = {}
  /\ At(s, "walk") => \A f \in scan[s].todo : scan[s].found[f] = 0

(* What was read is what is there, until the scan itself has changed it.   *)
ReadsCurrent(s) ==
  /\ scan[s].pc \in {"tasks", "walk"} => \A f \in File : AsRead(s, f)
  /\ At(s, "update") => \A f \in scan[s].todo : f \in Known(s) /\ AsRead(s, f)

(* What was seen is in the snapshots of the files known before, once these *)
(* are updated; the others have none yet.                                  *)
Written(s) ==
  scan[s].pc \in {"update", "missing", "create"} =>
    \A f \in Seen(s) :
      /\ f \in Known(s) /\ (At(s, "update") => f \notin scan[s].todo) =>
           record[f].ver = scan[s].found[f]
      /\ f \notin Known(s) => record[f].ver = 0

(* No version is seen before it is on the disk, nor after a later one is   *)
(* in the snapshot; a task is meant for the version seen, and when it is   *)
(* created, that version has got into the snapshot.                        *)
InOrder(s) ==
  /\ \A f \in Seen(s) : /\ record[f].ver <= scan[s].found[f]
                        /\ scan[s].found[f] <= disk[f].ver
  /\ \A key \in scan[s].candidates :
       IF At(s, "insert") THEN key.ver <= record[key.file].ver
                          ELSE key.ver = scan[s].found[key.file]

ScanExact(s) == Blank(s) /\ ReadsCurrent(s) /\ Written(s) /\ InOrder(s)

(* A mark stands for a delivery, and for a task that has succeeded unless  *)
(* somebody removes such tasks.                                            *)
MarkEarned ==
  \A f \in File : record[f].uploaded =>
    LET key == KeyOf(f, record[f].ver, record[f].tgt)
    IN  key \in delivered /\ ("remove" \notin TaskEvents => task[key] = "success")

ExclInv ==
  /\ Exclusive
  /\ \A s \in Scanner : ScanExact(s)
  /\ \A f \in File : record[f].ver <= disk[f].ver
  /\ SnapshotFirst
  /\ MarkEarned

-----------------------------------------------------------------------------
(* What is known of versions, from the types.                              *)

LEMMA Versions ==
  ASSUME IInv
  PROVE  /\ \A f \in File : record[f].ver \in Nat /\ disk[f].ver \in Nat \ {0}
         /\ \A s \in Scanner, f \in File :
              scan[s].found[f] \in Nat /\ scan[s].read[f].ver \in Nat
         /\ \A key \in Key : key.ver \in Nat \ {0} /\ key.file \in File
<1>1. \A snapshot \in Snapshot : snapshot.ver \in Nat
  BY VersionAssumption DEF Snapshot, NoSnapshot, Version
<1>2. \A ver \in Version : ver \in Nat \ {0}
  BY VersionAssumption DEF Version
<1>3. \A f \in File : record[f] \in Snapshot /\ disk[f].ver \in Version
  BY DEF IInv, TypeOK
<1>4. \A s \in Scanner, f \in File :
        scan[s].found[f] \in Version \cup {0} /\ scan[s].read[f] \in Snapshot
  BY DEF IInv, TypeOK, ScanState
<1>5. QED
  BY <1>1, <1>2, <1>3, <1>4 DEF Key

(* Files only get new versions. *)
LEMMA DiskGrows ==
  ASSUME IInv, [Next]_vars
  PROVE  \A f \in File : disk[f].ver <= disk'[f].ver /\ disk'[f].ver \in Nat
<1> DEFINE Goal == \A f \in File : disk[f].ver <= disk'[f].ver /\ disk'[f].ver \in Nat
<1>1. disk \in [File -> Disk] /\ \A f \in File : disk[f].ver \in Nat
  BY Versions DEF IInv, TypeOK, Disk
<1>2. ASSUME disk' = disk PROVE Goal
  BY <1>1, <1>2
<1>3. ASSUME NEW f \in File, WriteFile(f) \/ MoveFile(f) \/ Settle(f) PROVE Goal
  <2>1. disk'[f].ver = disk[f].ver \/ disk'[f].ver = disk[f].ver + 1
    BY <1>1, <1>3 DEF WriteFile, MoveFile, Settle, Disk
  <2>2. \A g \in File \ {f} : disk'[g] = disk[g]
    BY <1>1, <1>3 DEF WriteFile, MoveFile, Settle
  <2>3. QED
    BY <1>1, <2>1, <2>2
<1>4. QED
  BY <1>2, <1>3
  DEF Next, vars, ScanStep, ScanTrouble, Configure, EditDestination, EditRoute,
      ChangeTarget, QueueStep, Clock, FileSystem, Process, ClaimForScan,
      LoadSnapshots, LoadOpenTasks, Visit, EndWalk, UpdateSnapshots, EndUpdate,
      MarkMissing, CreateSnapshots, CreateTasks, FinishScan, RenewScanLease,
      WalkProblem, AbortScan, FinishScanFails, PauseFolder, ResumeFolder,
      ScanNow, Deliver, Succeed, Supersede, Stop, TaskEvent, LeaseLapses,
      NextScanDue, Shutdown, Exit, Crash, Restart

SameVersions ==
  \A f \in File : record'[f].ver = record[f].ver /\ record'[f].tgt = record[f].tgt

(* Only a scan writes the version and the destination of a snapshot. *)
LEMMA WhoWrites ==
  ASSUME IInv, [Next]_vars
  PROVE  \/ SameVersions
         \/ \E s \in Scanner : UpdateSnapshots(s) \/ CreateSnapshots(s)
<1> DEFINE Marked(snapshot, mark) == [snapshot EXCEPT !.uploaded = mark]
<1>1. record \in [File -> Snapshot]
  BY DEF IInv, TypeOK
<1>2. \A snapshot \in Snapshot :
        /\ \A mark \in BOOLEAN :
             /\ [snapshot EXCEPT !.uploaded = mark].ver = snapshot.ver
             /\ [snapshot EXCEPT !.uploaded = mark].tgt = snapshot.tgt
        /\ [snapshot EXCEPT !.missing = TRUE].ver = snapshot.ver
        /\ [snapshot EXCEPT !.missing = TRUE].tgt = snapshot.tgt
  BY DEF Snapshot, NoSnapshot
<1>3. ASSUME record' = record PROVE SameVersions
  BY <1>3 DEF SameVersions
<1>4. ASSUME NEW s \in Scanner, MarkMissing(s) PROVE SameVersions
  BY <1>1, <1>2, <1>4 DEF MarkMissing, SameVersions
<1>5. ASSUME NEW tgt \in Target, ChangeTarget(tgt) PROVE SameVersions
  BY <1>1, <1>2, <1>5 DEF ChangeTarget, SameVersions
<1>6. ASSUME NEW key \in Key, Succeed(key) PROVE SameVersions
  BY <1>1, <1>2, <1>6, Versions DEF Succeed, SameVersions
<1>7. QED
  BY <1>3, <1>4, <1>5, <1>6
  DEF Next, vars, ScanStep, ScanTrouble, Configure, EditDestination, EditRoute,
      QueueStep, Clock, FileSystem, Process, ClaimForScan, LoadSnapshots,
      LoadOpenTasks, Visit, EndWalk, EndUpdate, CreateTasks, FinishScan,
      WalkProblem, AbortScan, FinishScanFails, RenewScanLease, PauseFolder,
      ResumeFolder, ScanNow, Deliver, Supersede, Stop, TaskEvent, LeaseLapses,
      NextScanDue, Settle, WriteFile, MoveFile, Shutdown, Exit, Crash, Restart

-----------------------------------------------------------------------------
(* Exclusion.                                                              *)

LEMMA ExclusionKept ==
  ASSUME Prompt, IInv, Exclusive, [Next]_vars
  PROVE  Exclusive'
<1> USE DEF Exclusive, At
<1>1. folder \in Folder /\ scan \in [Scanner -> ScanState]
  BY DEF IInv, TypeOK, Folder
<1>2. IdleScan.pc = "idle"
  BY DEF IdleScan
<1>3. ASSUME NEW s \in Scanner, ClaimForScan(s) PROVE Exclusive'
  <2>1. \A other \in Scanner : scan[other].pc = "idle"
    BY <1>3 DEF ClaimForScan, DueForScan
  <2>2. \A other \in Scanner \ {s} : scan'[other] = scan[other]
    BY <1>1, <1>3 DEF ClaimForScan
  <2>3. folder'.owner = s /\ folder'.lease = "live"
    BY <1>1, <1>3 DEF ClaimForScan, Folder
  <2>4. QED
    BY <2>1, <2>2, <2>3
<1>4. ASSUME NEW s \in Scanner, FinishScan(s) PROVE Exclusive'
  <2>1. \A other \in Scanner \ {s} : scan[other].pc = "idle" /\ scan'[other] = scan[other]
    BY <1>1, <1>4 DEF FinishScan
  <2>2. scan'[s].pc = "idle"
    BY <1>1, <1>2, <1>4 DEF FinishScan
  <2>3. QED
    BY <2>1, <2>2
<1>5. ASSUME folder' = folder,
             \A s \in Scanner : scan'[s].pc # "idle" => scan[s].pc # "idle"
      PROVE  Exclusive'
  BY <1>5
<1>6. ASSUME NEW s \in Scanner, ScanStep(s) \/ ScanTrouble(s) \/ Crash(s)
      PROVE  Exclusive'
  <2>1. CASE ClaimForScan(s) \/ FinishScan(s)
    BY <1>3, <1>4, <2>1
  <2>2. CASE ~ClaimForScan(s) /\ ~FinishScan(s)
    <3>1. folder' = folder
      BY <1>6, <2>2
      DEF ScanStep, ScanTrouble, LoadSnapshots, LoadOpenTasks, Visit, EndWalk,
          UpdateSnapshots, EndUpdate, MarkMissing, CreateSnapshots,
          CreateTasks, WalkProblem, AbortScan, FinishScanFails, Crash
    <3>2. scan[s].pc # "idle" \/ Crash(s)
      BY <1>6, <2>2
      DEF ScanStep, ScanTrouble, Working, LoadSnapshots, LoadOpenTasks, Visit,
          EndWalk, UpdateSnapshots, EndUpdate, MarkMissing, CreateSnapshots,
          CreateTasks, WalkProblem, AbortScan, FinishScanFails
    <3>3. Crash(s) => scan'[s].pc = "idle"
      BY <1>1, <1>2 DEF Crash
    <3>4. \E new : scan' = [scan EXCEPT ![s] = new]
      BY <1>6, <1>1
      DEF ScanStep, ScanTrouble, Goto, GoFinish, ClaimForScan, LoadSnapshots,
          LoadOpenTasks, Visit, EndWalk, UpdateSnapshots, EndUpdate,
          MarkMissing, CreateSnapshots, CreateTasks, FinishScan, WalkProblem,
          AbortScan, FinishScanFails, Crash
    <3>5. \A other \in Scanner \ {s} : scan'[other] = scan[other]
      BY <1>1, <3>4
    <3>6. QED
      BY <1>5, <3>1, <3>2, <3>3, <3>5
  <2>3. QED
    BY <2>1, <2>2
<1>7. ASSUME scan' = scan, folder'.owner = folder.owner, folder'.lease = folder.lease
      PROVE  Exclusive'
  BY <1>7
<1>8. ASSUME NEW s \in Scanner, RenewScanLease(s) PROVE Exclusive'
  BY <1>1, <1>8 DEF RenewScanLease, Folder
<1>9. ASSUME Configure PROVE Exclusive'
  BY <1>1, <1>7, <1>9
  DEF Configure, PauseFolder, ResumeFolder, EditDestination, EditRoute,
      ChangeTarget, ScanNow, Folder
<1>10. ASSUME NEW key \in Key, QueueStep(key) \/ TaskEvent(key) PROVE Exclusive'
  BY <1>7, <1>10 DEF QueueStep, Deliver, Succeed, Supersede, Stop, TaskEvent
<1>11. ASSUME LeaseLapses PROVE Exclusive'
  <2>1. \A s \in Scanner : scan[s].pc = "idle"
    BY <1>11 DEF LeaseLapses
  <2>2. QED
    BY <2>1, <1>11 DEF LeaseLapses
<1>12. ASSUME NextScanDue PROVE Exclusive'
  BY <1>1, <1>7, <1>12 DEF NextScanDue, Folder
<1>13. ASSUME NEW f \in File, Settle(f) \/ FileSystem(f) PROVE Exclusive'
  BY <1>7, <1>13 DEF Settle, FileSystem, WriteFile, MoveFile
<1>14. ASSUME NEW s \in Scanner, Process(s) PROVE Exclusive'
  <2>1. CASE Restart(s)
    <3>1. CASE folder.lease = "live"
      BY <1>7, <2>1, <3>1 DEF Restart
    <3>2. CASE folder.lease # "live"
      BY <2>1, <3>2 DEF Restart
    <3>3. QED
      BY <3>1, <3>2
  <2>2. CASE Crash(s)
    BY <1>6, <2>2
  <2>3. CASE Shutdown(s) \/ Exit(s)
    BY <1>7, <2>3 DEF Shutdown, Exit
  <2>4. QED
    BY <1>14, <2>1, <2>2, <2>3 DEF Process
<1>15. CASE UNCHANGED vars
  BY <1>7, <1>15 DEF vars
<1>16. QED
  BY <1>6, <1>8, <1>9, <1>10, <1>11, <1>12, <1>13, <1>14, <1>15 DEF Next, Clock

-----------------------------------------------------------------------------
(* Versions.                                                               *)

(* The scan that writes a snapshot is the only one under way. *)
LEMMA OneWriter ==
  ASSUME IInv, Exclusive, NEW s \in Scanner, ~At(s, "idle"),
         NEW other \in Scanner, UpdateSnapshots(other) \/ CreateSnapshots(other)
  PROVE  other = s
BY DEF Exclusive, UpdateSnapshots, CreateSnapshots, At

(* What UpdateSnapshots leaves in the snapshots. *)
LEMMA UpdateEffect ==
  ASSUME IInv, NEW s \in Scanner, UpdateSnapshots(s)
  PROVE  \E batch \in SUBSET scan[s].todo :
           /\ \A f \in File : record'[f] = IF f \in batch THEN UpdatedSnapshot(s, f)
                                                          ELSE record[f]
           /\ scan'[s].todo = scan[s].todo \ batch
           /\ scan'[s].pc = "update" /\ scan'[s].read = scan[s].read
           /\ scan'[s].found = scan[s].found
           /\ scan'[s].candidates = scan[s].candidates
<1>1. scan \in [Scanner -> ScanState]
  BY DEF IInv, TypeOK
<1>2. PICK batch \in SUBSET scan[s].todo :
        /\ record' = [f \in File |-> IF f \in batch THEN UpdatedSnapshot(s, f)
                                                    ELSE record[f]]
        /\ scan' = [scan EXCEPT ![s].todo = @ \ batch]
  BY DEF UpdateSnapshots
<1>3. scan'[s] = [scan[s] EXCEPT !.todo = @ \ batch]
  BY <1>1, <1>2
<1>4. /\ scan'[s].todo = scan[s].todo \ batch
      /\ scan'[s].pc = "update" /\ scan'[s].read = scan[s].read
      /\ scan'[s].found = scan[s].found
      /\ scan'[s].candidates = scan[s].candidates
  BY <1>1, <1>3 DEF UpdateSnapshots, At, ScanState
<1>5. QED
  BY <1>2, <1>4

(* And CreateSnapshots. *)
LEMMA CreateEffect ==
  ASSUME IInv, NEW s \in Scanner, CreateSnapshots(s)
  PROVE  /\ \A f \in File :
              IF f \in NewSnapshots(s) /\ record[f].ver = 0
                THEN /\ record'[f].ver = scan[s].found[f] /\ record'[f].tgt = scan[s].tgt
                     /\ ~record'[f].uploaded
                ELSE record'[f] = record[f]
         /\ scan'[s].pc = "insert" /\ scan'[s].candidates = scan[s].candidates
         /\ \A f \in File : scan'[s].found[f] = 0 /\ scan'[s].read[f] = NoSnapshot
<1>1. scan \in [Scanner -> ScanState]
  BY DEF IInv, TypeOK
<1>2. \A f \in File :
        record'[f] = IF f \in NewSnapshots(s) /\ record[f].ver = 0
                       THEN [NoSnapshot EXCEPT !.ver = scan[s].found[f],
                                               !.tgt = scan[s].tgt]
                       ELSE record[f]
  BY DEF CreateSnapshots
<1>3. scan'[s] = [IdleScan EXCEPT !.pc = "insert", !.result = scan[s].result,
                                  !.candidates = scan[s].candidates]
  BY <1>1 DEF CreateSnapshots
<1>4. /\ scan'[s].pc = "insert" /\ scan'[s].candidates = scan[s].candidates
      /\ \A f \in File : scan'[s].found[f] = 0 /\ scan'[s].read[f] = NoSnapshot
  BY <1>3 DEF IdleScan
<1>5. ASSUME NEW f \in File, f \in NewSnapshots(s), record[f].ver = 0
      PROVE  /\ record'[f].ver = scan[s].found[f] /\ record'[f].tgt = scan[s].tgt
             /\ ~record'[f].uploaded
  BY <1>2, <1>5 DEF NoSnapshot
<1>6. ASSUME NEW f \in File, ~(f \in NewSnapshots(s) /\ record[f].ver = 0)
      PROVE  record'[f] = record[f]
  BY <1>2, <1>6
<1>7. QED
  BY <1>4, <1>5, <1>6

(* A snapshot gets a later version, and one that is on the disk. *)
LEMMA VersionsAdvance ==
  ASSUME IInv, ExclInv, [Next]_vars
  PROVE  \A f \in File : /\ record[f].ver <= record'[f].ver
                         /\ record'[f].ver <= disk[f].ver
<1> DEFINE Goal == \A f \in File : /\ record[f].ver <= record'[f].ver
                                   /\ record'[f].ver <= disk[f].ver
<1>1. \A f \in File : record[f].ver <= disk[f].ver /\ record[f].ver \in Nat
  BY Versions DEF ExclInv
<1>2. CASE SameVersions
  BY <1>1, <1>2 DEF SameVersions
<1>3. ASSUME NEW s \in Scanner, UpdateSnapshots(s) PROVE Goal
  <2>1. PICK batch \in SUBSET scan[s].todo :
          \A f \in File : record'[f] = IF f \in batch THEN UpdatedSnapshot(s, f)
                                                      ELSE record[f]
    BY <1>3, UpdateEffect
  <2>2. \A f \in batch : f \in Seen(s)
    BY <1>3, <2>1 DEF IInv, ScanSound, UpdateSnapshots
  <2>3. \A f \in Seen(s) : /\ record[f].ver <= scan[s].found[f]
                           /\ scan[s].found[f] <= disk[f].ver
    BY DEF ExclInv, ScanExact, InOrder
  <2>4. \A f \in File : UpdatedSnapshot(s, f).ver = scan[s].found[f]
    BY DEF UpdatedSnapshot
  <2>5. QED
    BY <1>1, <2>1, <2>2, <2>3, <2>4
<1>4. ASSUME NEW s \in Scanner, CreateSnapshots(s) PROVE Goal
  <2>1. \A f \in NewSnapshots(s) : /\ record[f].ver <= scan[s].found[f]
                                   /\ scan[s].found[f] <= disk[f].ver
    BY DEF ExclInv, ScanExact, InOrder, NewSnapshots
  <2>2. \A f \in File : \/ record'[f].ver = scan[s].found[f] /\ f \in NewSnapshots(s)
                        \/ record'[f] = record[f]
    BY <1>4, CreateEffect
  <2>3. QED
    BY <1>1, <2>1, <2>2
<1>5. QED
  BY <1>2, <1>3, <1>4, WhoWrites

(* The scan is not touched, and neither are the versions it knows. *)
LEMMA OthersKeepExact ==
  ASSUME IInv, ExclInv, [Next]_vars, NEW s \in Scanner, scan'[s] = scan[s],
         ~ScanStep(s)
  PROVE  ScanExact(s)'
<1>1. ScanExact(s) /\ Exclusive
  BY DEF ExclInv
<1>2. CASE At(s, "idle")
  <2>1. Seen(s) = {} /\ scan[s].candidates = {}
    BY <1>1, <1>2 DEF ScanExact, Blank, Seen, At
  <2>2. QED
    BY <1>1, <1>2, <2>1 DEF ScanExact, Blank, ReadsCurrent, Written, InOrder, At, Seen
<1>3. CASE ~At(s, "idle")
  <2>1. SameVersions
    BY <1>1, <1>3, OneWriter, WhoWrites DEF ScanStep
  <2>2. \A f \in File : disk[f].ver <= disk'[f].ver /\ disk'[f].ver \in Nat
    BY DiskGrows
  <2>3. \A f \in File : scan[s].found[f] <= disk[f].ver => scan[s].found[f] <= disk'[f].ver
    BY <2>2, Versions
  <2>4. scan[s].todo \subseteq File
    BY DEF IInv, TypeOK, ScanState
  <2>5. Blank(s)' /\ ReadsCurrent(s)'
    BY <1>1, <2>1, <2>4 DEF SameVersions, ScanExact, Blank, ReadsCurrent, AsRead, Known, At
  <2>6. Written(s)'
    <3>1. ASSUME NEW f \in File PROVE (f \in Known(s)' <=> f \in Known(s)) /\ (f \in Seen(s)' <=> f \in Seen(s))
      BY DEF Known, Seen
    <3>2. \A f \in File : record'[f].ver = record[f].ver
      BY <2>1 DEF SameVersions
    <3>3. QED
      BY <1>1, <3>1, <3>2 DEF ScanExact, Written, At, Seen
  <2>7. InOrder(s)'
    <3>1. \A key \in scan[s].candidates : key.file \in File
      BY Versions DEF IInv, TypeOK, ScanState
    <3>2. QED
      BY <1>1, <2>1, <2>3, <3>1 DEF SameVersions, ScanExact, InOrder, At, Seen
  <2>8. QED
    BY <2>5, <2>6, <2>7 DEF ScanExact
<1>4. QED
  BY <1>2, <1>3

(* Its own steps keep what a scan knows exact. *)
LEMMA OwnScanExact ==
  ASSUME IInv, ExclInv, [Next]_vars, NEW s \in Scanner,
         ScanStep(s) \/ ScanTrouble(s) \/ Crash(s)
  PROVE  ScanExact(s)'
<1> USE DEF At
<1>1. /\ scan \in [Scanner -> ScanState] /\ ScanExact(s) /\ Exclusive
      /\ scan[s].candidates \subseteq Key /\ scan[s].todo \subseteq File
  BY DEF IInv, TypeOK, ExclInv, ScanState
<1>2. /\ \A f \in File : IdleScan.found[f] = 0
      /\ IdleScan.candidates = {} /\ IdleScan.pc = "idle"
  BY DEF IdleScan
<1>3. \A f \in File : disk[f].ver <= disk'[f].ver /\ disk'[f].ver \in Nat
  BY DiskGrows
<1>4. \A f \in File : record[f].ver <= disk[f].ver
  BY DEF ExclInv
<1>5. ASSUME scan'[s].pc \in {"idle", "records", "finish"},
             \A f \in File : scan'[s].found[f] = 0, scan'[s].candidates = {}
      PROVE  ScanExact(s)'
  BY <1>5 DEF ScanExact, Blank, ReadsCurrent, Written, InOrder, Seen
<1>6. CASE ClaimForScan(s)
  <2>1. /\ scan[s].pc = "idle" /\ scan'[s].pc = "records"
        /\ scan'[s].found = scan[s].found /\ scan'[s].candidates = scan[s].candidates
    BY <1>1, <1>6 DEF ClaimForScan, ScanState
  <2>2. QED
    BY <1>1, <1>5, <2>1 DEF ScanExact, Blank
<1>7. CASE LoadSnapshots(s)
  <2>1. /\ scan[s].pc = "records" /\ scan'[s].pc = "tasks" /\ scan'[s].read = record
        /\ scan'[s].found = scan[s].found /\ scan'[s].candidates = scan[s].candidates
        /\ record' = record
    BY <1>1, <1>7 DEF LoadSnapshots, ScanState
  <2>2. (\A f \in File : scan'[s].found[f] = 0) /\ scan'[s].candidates = {}
    BY <1>1, <2>1 DEF ScanExact, Blank
  <2>3. QED
    BY <2>1, <2>2 DEF ScanExact, Blank, ReadsCurrent, AsRead, Written, InOrder, Seen
<1>8. CASE LoadOpenTasks(s)
  <2>1. /\ scan[s].pc = "tasks" /\ scan'[s].pc = "walk" /\ scan'[s].read = scan[s].read
        /\ scan'[s].found = scan[s].found /\ scan'[s].candidates = scan[s].candidates
        /\ scan'[s].todo = File /\ record' = record
    BY <1>1, <1>8 DEF LoadOpenTasks, ScanState
  <2>2. (\A f \in File : scan'[s].found[f] = 0) /\ scan'[s].candidates = {}
    BY <1>1, <2>1 DEF ScanExact, Blank
  <2>3. QED
    BY <1>1, <2>1, <2>2 DEF ScanExact, Blank, ReadsCurrent, AsRead, Written, InOrder, Seen
<1>9. ASSUME NEW f \in File, Visit(s, f) PROVE ScanExact(s)'
  <2>1. /\ scan[s].pc = "walk" /\ scan'[s].pc = "walk" /\ scan'[s].read = scan[s].read
        /\ scan'[s].todo = scan[s].todo \ {f} /\ f \in scan[s].todo
        /\ record' = record /\ disk' = disk
    BY <1>1, <1>9 DEF Visit, ScanState
  <2>2. /\ \A g \in File \ {f} : scan'[s].found[g] = scan[s].found[g]
        /\ scan'[s].found[f] = IF disk[f].present THEN disk[f].ver ELSE scan[s].found[f]
    BY <1>1, <1>9 DEF Visit, ScanState
  <2>3. /\ scan'[s].candidates \subseteq
             scan[s].candidates \cup {KeyOf(f, disk[f].ver, scan[s].tgt)}
        /\ ~disk[f].present => scan'[s].candidates = scan[s].candidates
    BY <1>1, <1>9 DEF Visit, ScanState
  <2>4. \A key \in scan[s].candidates : key.ver = scan[s].found[key.file]
    BY <1>1, <2>1 DEF ScanExact, InOrder
  <2>5. \A key \in scan[s].candidates : key.file # f /\ key.file \in File
    <3>1. scan[s].found[f] = 0
      BY <1>1, <2>1 DEF ScanExact, Blank
    <3>2. QED
      BY <1>1, <2>4, <3>1, Versions
  <2>6. \A key \in scan'[s].candidates : key.ver = scan'[s].found[key.file]
    BY <2>2, <2>3, <2>4, <2>5 DEF KeyOf
  <2>7. \A g \in File : scan'[s].found[g] # 0 =>
          record[g].ver <= scan'[s].found[g] /\ scan'[s].found[g] <= disk[g].ver
    <3>1. \A g \in File : scan[s].found[g] # 0 =>
            record[g].ver <= scan[s].found[g] /\ scan[s].found[g] <= disk[g].ver
      BY <1>1 DEF ScanExact, InOrder, Seen
    <3>2. QED
      BY <1>4, <2>2, <3>1, Versions
  <2>8. Blank(s)' /\ ReadsCurrent(s)'
    BY <1>1, <2>1, <2>2 DEF ScanExact, Blank, ReadsCurrent, AsRead
  <2>9. QED
    BY <2>1, <2>6, <2>7, <2>8 DEF ScanExact, Written, InOrder, Seen
<1>10. CASE EndWalk(s)
  <2>1. /\ scan[s].pc = "walk" /\ scan'[s].pc = "update" /\ scan'[s].read = scan[s].read
        /\ scan'[s].found = scan[s].found /\ scan'[s].candidates = scan[s].candidates
        /\ scan'[s].todo = ChangedSnapshots(s) /\ record' = record /\ disk' = disk
    BY <1>1, <1>10 DEF EndWalk, ScanState
  <2>2. \A f \in File : AsRead(s, f)
    BY <1>1, <2>1 DEF ScanExact, ReadsCurrent
  <2>3. ReadsCurrent(s)'
    BY <2>1, <2>2 DEF ReadsCurrent, AsRead, ChangedSnapshots, Known, Seen
  <2>4. Written(s)'
    <3>1. \A f \in Seen(s) : /\ f \in Known(s) \ ChangedSnapshots(s) => record[f].ver = scan[s].found[f]
                             /\ f \notin Known(s) => record[f].ver = 0
      BY <2>2 DEF AsRead, ChangedSnapshots, Outdated, Known, Seen
    <3>2. QED
      BY <2>1, <3>1 DEF Written, Known, Seen
  <2>5. Blank(s)' /\ InOrder(s)'
    BY <1>1, <2>1 DEF ScanExact, Blank, InOrder, Seen
  <2>6. QED
    BY <2>3, <2>4, <2>5 DEF ScanExact
<1>11. CASE UpdateSnapshots(s)
  <2>1. PICK batch \in SUBSET scan[s].todo :
          /\ \A f \in File : record'[f] = IF f \in batch THEN UpdatedSnapshot(s, f)
                                                         ELSE record[f]
          /\ scan'[s].todo = scan[s].todo \ batch
          /\ scan'[s].pc = "update" /\ scan'[s].read = scan[s].read
          /\ scan'[s].found = scan[s].found
          /\ scan'[s].candidates = scan[s].candidates
    BY <1>11, UpdateEffect
  <2>2. scan[s].pc = "update" /\ disk' = disk
    BY <1>11 DEF UpdateSnapshots
  <2>3. \A f \in File : UpdatedSnapshot(s, f).ver = scan[s].found[f]
    BY DEF UpdatedSnapshot
  <2>4. ReadsCurrent(s)'
    BY <1>1, <2>1, <2>2 DEF ScanExact, ReadsCurrent, AsRead, Known
  <2>5. \A f \in scan[s].todo : f \in Known(s)
    BY <1>1, <2>2 DEF ScanExact, ReadsCurrent
  <2>6. \A f \in Seen(s) : /\ f \in Known(s) /\ f \notin scan[s].todo => record[f].ver = scan[s].found[f]
                           /\ f \notin Known(s) => record[f].ver = 0
    BY <1>1, <2>2 DEF ScanExact, Written
  <2>7. \A f \in File : (f \in Known(s)' <=> f \in Known(s)) /\ (f \in Seen(s)' <=> f \in Seen(s))
    BY <2>1 DEF Known, Seen
  <2>8. \A f \in File : record'[f].ver = IF f \in batch THEN scan[s].found[f] ELSE record[f].ver
    BY <2>1, <2>3
  <2>9. Written(s)'
    BY <2>1, <2>5, <2>6, <2>7, <2>8 DEF Written, Known, Seen
  <2>10. Blank(s)'
    BY <2>1 DEF Blank
  <2>11. InOrder(s)'
    <3>1. /\ \A f \in Seen(s) : record[f].ver <= scan[s].found[f] /\ scan[s].found[f] <= disk[f].ver
          /\ \A key \in scan[s].candidates : key.ver = scan[s].found[key.file]
      BY <1>1, <2>2 DEF ScanExact, InOrder
    <3>2. QED
      BY <2>1, <2>2, <2>7, <2>8, <3>1, Versions DEF InOrder, Seen
  <2>12. QED
    BY <2>4, <2>9, <2>10, <2>11 DEF ScanExact
<1>12. CASE EndUpdate(s) \/ MarkMissing(s)
  <2>1. /\ scan[s].pc \in {"update", "missing"} /\ scan'[s].pc \in {"missing", "create"}
        /\ scan[s].pc = "update" => scan[s].todo = {}
        /\ scan'[s].read = scan[s].read /\ scan'[s].found = scan[s].found
        /\ scan'[s].candidates = scan[s].candidates /\ disk' = disk
    BY <1>1, <1>12 DEF EndUpdate, MarkMissing, Goto, ScanState
  <2>2. \A f \in File : record'[f].ver = record[f].ver
    <3>1. \A snapshot \in Snapshot : [snapshot EXCEPT !.missing = TRUE].ver = snapshot.ver
      BY DEF Snapshot, NoSnapshot
    <3>2. record \in [File -> Snapshot]
      BY DEF IInv, TypeOK
    <3>3. QED
      BY <1>12, <3>1, <3>2 DEF EndUpdate, MarkMissing
  <2>3. \A f \in File : (f \in Known(s)' <=> f \in Known(s)) /\ (f \in Seen(s)' <=> f \in Seen(s))
    BY <2>1 DEF Known, Seen
  <2>4. Written(s)'
    BY <1>1, <2>1, <2>2, <2>3 DEF ScanExact, Written, Known, Seen
  <2>5. Blank(s)' /\ ReadsCurrent(s)'
    BY <2>1 DEF Blank, ReadsCurrent
  <2>6. InOrder(s)'
    BY <1>1, <2>1, <2>2, <2>3 DEF ScanExact, InOrder, Seen
  <2>7. QED
    BY <2>4, <2>5, <2>6 DEF ScanExact
<1>13. CASE CreateSnapshots(s)
  <2>1. /\ scan'[s].pc = "insert" /\ scan'[s].candidates = scan[s].candidates
        /\ \A f \in File : scan'[s].found[f] = 0
    BY <1>13, CreateEffect
  <2>2. scan[s].pc = "create"
    BY <1>13 DEF CreateSnapshots
  <2>3. \A f \in Seen(s) : record'[f].ver = scan[s].found[f]
    <3>1. \A f \in Seen(s) : /\ f \in Known(s) => record[f].ver = scan[s].found[f]
                             /\ f \notin Known(s) => record[f].ver = 0
      BY <1>1, <2>2 DEF ScanExact, Written
    <3>2. \A f \in Seen(s) : f \in NewSnapshots(s) <=> f \notin Known(s)
      BY DEF NewSnapshots
    <3>3. QED
      BY <1>13, <3>1, <3>2, CreateEffect DEF Seen
  <2>4. \A key \in scan[s].candidates : key.file \in Seen(s) /\ key.ver = scan[s].found[key.file]
    BY <1>1, <2>2, Versions DEF ScanExact, InOrder, Seen
  <2>5. InOrder(s)'
    BY <1>1, <2>1, <2>3, <2>4, Versions DEF InOrder, Seen
  <2>6. QED
    BY <2>1, <2>5 DEF ScanExact, Blank, ReadsCurrent, Written
<1>14. CASE CreateTasks(s) \/ AbortScan(s)
  <2>1. PICK result : scan'[s] = [IdleScan EXCEPT !.pc = "finish", !.result = result]
    BY <1>1, <1>14 DEF CreateTasks, AbortScan, GoFinish
  <2>2. /\ scan'[s].pc = "finish" /\ scan'[s].candidates = {}
        /\ \A f \in File : scan'[s].found[f] = 0
    BY <2>1 DEF IdleScan
  <2>3. QED
    BY <1>5, <2>2
<1>15. CASE FinishScan(s) \/ FinishScanFails(s) \/ Crash(s)
  <2>1. scan'[s] = IdleScan
    BY <1>1, <1>15 DEF FinishScan, FinishScanFails, Crash
  <2>2. QED
    BY <1>2, <1>5, <2>1
<1>16. CASE WalkProblem(s)
  <2>1. /\ scan[s].pc = "walk" /\ scan'[s].pc = "walk" /\ scan'[s].read = scan[s].read
        /\ scan'[s].found = scan[s].found /\ scan'[s].candidates = scan[s].candidates
        /\ scan'[s].todo \subseteq scan[s].todo /\ record' = record /\ disk' = disk
    BY <1>1, <1>16 DEF WalkProblem, ScanState
  <2>2. Blank(s)' /\ ReadsCurrent(s)' /\ Written(s)'
    BY <1>1, <2>1 DEF ScanExact, Blank, ReadsCurrent, AsRead, Written
  <2>3. InOrder(s)'
    BY <1>1, <2>1 DEF ScanExact, InOrder, Seen
  <2>4. QED
    BY <2>2, <2>3 DEF ScanExact
<1>17. QED
  BY <1>6, <1>7, <1>8, <1>9, <1>10, <1>11, <1>12, <1>13, <1>14, <1>15, <1>16
  DEF ScanStep, ScanTrouble
-----------------------------------------------------------------------------
(* Tasks and marks.                                                        *)

(* A task is created by a scan that has it among its candidates, and only  *)
(* there: the events of the queue are about tasks that exist.              *)
LEMMA WhoCreates ==
  ASSUME IInv, [Next]_vars, NEW key \in Key,
         task[key] = "none", task'[key] # "none"
  PROVE  \E s \in Scanner : CreateTasks(s) /\ key \in scan[s].candidates
<1>1. task \in [Key -> TaskStatus]
  BY DEF IInv, TypeOK
<1>2. ASSUME NEW s \in Scanner, CreateTasks(s) PROVE key \in scan[s].candidates
  BY <1>2 DEF CreateTasks
<1>3. ASSUME task' = task PROVE FALSE
  BY <1>3
<1>4. ASSUME NEW tgt \in Target, ChangeTarget(tgt) PROVE FALSE
  BY <1>4 DEF ChangeTarget
<1>5. ASSUME NEW other \in Key, QueueStep(other) \/ TaskEvent(other) PROVE FALSE
  BY <1>1, <1>5
  DEF QueueStep, Deliver, Succeed, Supersede, Stop, TaskEvent, SetTask
<1>6. QED
  BY <1>2, <1>3, <1>4, <1>5
  DEF Next, vars, queueVars, ScanStep, ScanTrouble, Configure, EditDestination,
      EditRoute, Clock, FileSystem, Process, ClaimForScan, LoadSnapshots,
      LoadOpenTasks, Visit, EndWalk, UpdateSnapshots, EndUpdate, MarkMissing,
      CreateSnapshots, FinishScan, WalkProblem, AbortScan, FinishScanFails,
      RenewScanLease, PauseFolder, ResumeFolder, ScanNow, LeaseLapses,
      NextScanDue, Settle, WriteFile, MoveFile, Shutdown, Exit, Crash, Restart

LEMMA SnapshotFirstKept ==
  ASSUME IInv, ExclInv, [Next]_vars
  PROVE  SnapshotFirst'
<1> SUFFICES ASSUME NEW key \in Key, task'[key] # "none"
             PROVE  record'[key.file].ver >= key.ver
  BY DEF SnapshotFirst
<1>1. /\ key.file \in File /\ record[key.file].ver \in Nat /\ key.ver \in Nat
      /\ record'[key.file].ver \in Nat
  <2>1. IInv'
    BY Inductive
  <2>2. record'[key.file] \in Snapshot
    BY <2>1, Versions DEF IInv, TypeOK
  <2>3. QED
    BY <2>2, Versions, VersionAssumption DEF Snapshot, NoSnapshot, Version
<1>2. record[key.file].ver <= record'[key.file].ver
  BY <1>1, VersionsAdvance
<1>3. CASE task[key] # "none"
  BY <1>1, <1>2, <1>3 DEF ExclInv, SnapshotFirst
<1>4. CASE task[key] = "none"
  <2>1. PICK s \in Scanner : CreateTasks(s) /\ key \in scan[s].candidates
    BY <1>4, WhoCreates
  <2>2. key.ver <= record[key.file].ver
    BY <2>1 DEF ExclInv, ScanExact, InOrder, CreateTasks
  <2>3. QED
    BY <1>1, <1>2, <2>2
<1>5. QED
  BY <1>3, <1>4

(* A success ends a task for good, and a delivery stays one. *)
LEMMA EarnedStays ==
  ASSUME IInv, [Next]_vars, NEW key \in Key
  PROVE  /\ key \in delivered => key \in delivered'
         /\ "remove" \notin TaskEvents /\ task[key] = "success" => task'[key] = "success"
<1> DEFINE Goal ==
      /\ key \in delivered => key \in delivered'
      /\ "remove" \notin TaskEvents /\ task[key] = "success" => task'[key] = "success"
<1>1. task \in [Key -> TaskStatus]
  BY DEF IInv, TypeOK
<1>2. ASSUME UNCHANGED queueVars PROVE Goal
  BY <1>2 DEF queueVars
<1>3. ASSUME NEW tgt \in Target, ChangeTarget(tgt) PROVE Goal
  BY <1>3 DEF ChangeTarget
<1>4. ASSUME NEW other \in Key, QueueStep(other) \/ TaskEvent(other) PROVE Goal
  BY <1>1, <1>4
  DEF QueueStep, Deliver, Succeed, Supersede, Stop, TaskEvent, SetTask
<1>5. ASSUME NEW s \in Scanner, CreateTasks(s) PROVE Goal
  BY <1>5 DEF CreateTasks, Insertable
<1>6. QED
  BY <1>2, <1>3, <1>4, <1>5
  DEF Next, vars, queueVars, ScanStep, ScanTrouble, Configure, EditDestination,
      EditRoute, Clock, FileSystem, Process, ClaimForScan, LoadSnapshots,
      LoadOpenTasks, Visit, EndWalk, UpdateSnapshots, EndUpdate, MarkMissing,
      CreateSnapshots, FinishScan, WalkProblem, AbortScan, FinishScanFails,
      RenewScanLease, PauseFolder, ResumeFolder, ScanNow, LeaseLapses,
      NextScanDue, Settle, WriteFile, MoveFile, Shutdown, Exit, Crash, Restart

(* A mark is kept only with the version and the destination it is about,   *)
(* and set only by the success of their task.                              *)
LEMMA MarkKept ==
  ASSUME IInv, ExclInv, [Next]_vars, NEW f \in File, record'[f].uploaded
  PROVE  \/ /\ record[f].uploaded
            /\ record'[f].ver = record[f].ver /\ record'[f].tgt = record[f].tgt
         \/ \E key \in Key :
              /\ key = KeyOf(f, record'[f].ver, record'[f].tgt)
              /\ Succeed(key)
<1> DEFINE Goal ==
      \/ /\ record[f].uploaded
         /\ record'[f].ver = record[f].ver /\ record'[f].tgt = record[f].tgt
      \/ \E key \in Key :
           /\ key = KeyOf(f, record'[f].ver, record'[f].tgt)
           /\ Succeed(key)
<1>1. record \in [File -> Snapshot]
  BY DEF IInv, TypeOK
<1>2. ASSUME record' = record PROVE Goal
  BY <1>2
<1>3. ASSUME NEW s \in Scanner, UpdateSnapshots(s) PROVE Goal
  <2>1. PICK batch \in SUBSET scan[s].todo :
          \A g \in File : record'[g] = IF g \in batch THEN UpdatedSnapshot(s, g)
                                                      ELSE record[g]
    BY <1>3, UpdateEffect
  <2>2. CASE f \in batch
    <3>1. AsRead(s, f) /\ f \in Seen(s) /\ f \in Known(s)
      BY <1>3, <2>1, <2>2 DEF ExclInv, ScanExact, ReadsCurrent, IInv, ScanSound, UpdateSnapshots
    <3>2. record'[f] = UpdatedSnapshot(s, f)
      BY <2>1, <2>2
    <3>3. /\ record'[f].ver = scan[s].found[f] /\ record'[f].tgt = scan[s].tgt
          /\ record'[f].uploaded = UploadedMark(s, f)
      BY <3>2 DEF UpdatedSnapshot
    <3>4. UploadedMark(s, f)
      BY <3>3
    <3>5. record[f].uploaded /\ ~Outdated(s, f)
      BY <3>1, <3>4 DEF UploadedMark, ClearUploaded
    <3>6. QED
      BY <3>1, <3>3, <3>5 DEF Outdated, AsRead
  <2>3. CASE f \notin batch
    BY <2>1, <2>3
  <2>4. QED
    BY <2>2, <2>3
<1>4. ASSUME NEW s \in Scanner, MarkMissing(s) PROVE Goal
  <2>1. \A snapshot \in Snapshot :
          /\ [snapshot EXCEPT !.missing = TRUE].ver = snapshot.ver
          /\ [snapshot EXCEPT !.missing = TRUE].tgt = snapshot.tgt
          /\ [snapshot EXCEPT !.missing = TRUE].uploaded = snapshot.uploaded
    BY DEF Snapshot, NoSnapshot
  <2>2. QED
    BY <1>1, <1>4, <2>1 DEF MarkMissing
<1>5. ASSUME NEW s \in Scanner, CreateSnapshots(s) PROVE Goal
  BY <1>5, CreateEffect
<1>6. ASSUME NEW tgt \in Target, ChangeTarget(tgt) PROVE Goal
  <2>1. \A snapshot \in Snapshot : ~[snapshot EXCEPT !.uploaded = FALSE].uploaded
    BY DEF Snapshot, NoSnapshot
  <2>2. QED
    BY <1>1, <1>6, <2>1 DEF ChangeTarget
<1>7. ASSUME NEW key \in Key, Succeed(key) PROVE Goal
  <2>1. CASE key.file = f /\ SameSnapshot(key)
    <3>1. record'[f] = [record[f] EXCEPT !.uploaded = TRUE]
      BY <1>1, <1>7, <2>1 DEF Succeed
    <3>2. record'[f].ver = key.ver /\ record'[f].tgt = key.tgt
      <4>1. \A snapshot \in Snapshot :
              /\ [snapshot EXCEPT !.uploaded = TRUE].ver = snapshot.ver
              /\ [snapshot EXCEPT !.uploaded = TRUE].tgt = snapshot.tgt
        BY DEF Snapshot, NoSnapshot
      <4>2. QED
        BY <1>1, <2>1, <3>1, <4>1 DEF SameSnapshot
    <3>3. key = KeyOf(f, key.ver, key.tgt)
      BY <2>1 DEF Key, KeyOf
    <3>4. QED
      BY <1>7, <3>2, <3>3
  <2>2. CASE ~(key.file = f /\ SameSnapshot(key))
    BY <1>1, <1>7, <2>2 DEF Succeed
  <2>3. QED
    BY <2>1, <2>2
<1>8. QED
  BY <1>2, <1>3, <1>4, <1>5, <1>6, <1>7
  DEF Next, vars, ScanStep, ScanTrouble, Configure, EditDestination, EditRoute,
      QueueStep, Clock, FileSystem, Process, ClaimForScan, LoadSnapshots,
      LoadOpenTasks, Visit, EndWalk, EndUpdate, CreateTasks, FinishScan,
      WalkProblem, AbortScan, FinishScanFails, RenewScanLease, PauseFolder,
      ResumeFolder, ScanNow, Deliver, Supersede, Stop, TaskEvent, LeaseLapses,
      NextScanDue, Settle, WriteFile, MoveFile, Shutdown, Exit, Crash, Restart

LEMMA MarkEarnedKept ==
  ASSUME IInv, ExclInv, [Next]_vars
  PROVE  MarkEarned'
<1> SUFFICES ASSUME NEW f \in File, record'[f].uploaded,
                    NEW key, key = KeyOf(f, record'[f].ver, record'[f].tgt)
             PROVE  /\ key \in delivered'
                    /\ "remove" \notin TaskEvents => task'[key] = "success"
  BY DEF MarkEarned
<1>1. CASE /\ record[f].uploaded
           /\ record'[f].ver = record[f].ver /\ record'[f].tgt = record[f].tgt
  <2>1. key \in delivered /\ ("remove" \notin TaskEvents => task[key] = "success")
    BY <1>1 DEF ExclInv, MarkEarned
  <2>2. key \in Key
    BY <2>1 DEF IInv, TypeOK
  <2>3. QED
    BY <2>1, <2>2, EarnedStays
<1>2. CASE key \in Key /\ Succeed(key)
  BY <1>2 DEF Succeed, SetTask, IInv, TypeOK
<1>3. QED
  BY <1>1, <1>2, MarkKept

LEMMA ExclInductive ==
  ASSUME Prompt, IInv, ExclInv, [Next]_vars
  PROVE  ExclInv'
<1>1. Exclusive'
  BY ExclusionKept DEF ExclInv
<1>2. ASSUME NEW s \in Scanner PROVE ScanExact(s)'
  <2>1. CASE ScanStep(s) \/ ScanTrouble(s) \/ Crash(s)
    BY <2>1, OwnScanExact
  <2>2. CASE scan'[s] = scan[s] /\ ~ScanStep(s)
    BY <2>2, OthersKeepExact
  <2>3. QED
    BY <2>1, <2>2, OneScanner
<1>3. \A f \in File : record'[f].ver <= disk'[f].ver
  <2>1. \A f \in File : record'[f].ver <= disk[f].ver /\ record'[f].ver \in Nat
    <3>1. \A f \in File : record'[f] \in Snapshot
      BY Inductive DEF IInv, TypeOK
    <3>2. \A snapshot \in Snapshot : snapshot.ver \in Nat
      BY VersionAssumption DEF Snapshot, NoSnapshot, Version
    <3>3. QED
      BY <3>1, <3>2, VersionsAdvance
  <2>2. QED
    BY <2>1, DiskGrows, Versions
<1>4. QED
  BY <1>1, <1>2, <1>3, SnapshotFirstKept, MarkEarnedKept DEF ExclInv

LEMMA ExclInitial == Init => ExclInv
<1> SUFFICES ASSUME Init PROVE ExclInv
  OBVIOUS
<1>1. \A s \in Scanner : ScanExact(s)
  BY DEF Init, ScanExact, Blank, ReadsCurrent, Written, InOrder, At, Seen, IdleScan
<1>2. Exclusive
  BY DEF Init, Exclusive, At, IdleScan
<1>3. \A f \in File : record[f].ver <= disk[f].ver /\ ~record[f].uploaded
  BY DEF Init, NoSnapshot
<1>4. SnapshotFirst
  BY DEF Init, SnapshotFirst
<1>5. QED
  BY <1>1, <1>2, <1>3, <1>4 DEF ExclInv, MarkEarned
-----------------------------------------------------------------------------
(* The theorems.                                                           *)

(* With heartbeats in time, at most one scanner works on the folder, and   *)
(* it holds the lease until it is done, whoever pauses, edits or restarts  *)
(* in between.                                                             *)
THEOREM ScansExclude ==
  ASSUME Prompt
  PROVE  Spec => []Exclusive
<1>1. IInv /\ ExclInv /\ [Next]_vars => IInv' /\ ExclInv'
  BY Inductive, ExclInductive
<1>2. ExclInv => Exclusive
  BY DEF ExclInv
<1>3. QED
  BY <1>1, <1>2, Initial, ExclInitial, PTL DEF Spec

(* A snapshot marked as uploaded has been uploaded, in its version and to  *)
(* its destination: a scan leaves a mark only where it rewrites what it    *)
(* has read, and an edit of the destination during the scan clears it.     *)
THEOREM MarksDelivered ==
  ASSUME Prompt
  PROVE  Spec => []MarkDelivered
<1>1. IInv /\ ExclInv /\ [Next]_vars => IInv' /\ ExclInv'
  BY Inductive, ExclInductive
<1>2. ExclInv => MarkDelivered
  BY DEF ExclInv, MarkEarned, MarkDelivered
<1>3. QED
  BY <1>1, <1>2, Initial, ExclInitial, PTL DEF Spec

(* A version is in its snapshot before its task exists, so that the        *)
(* success of the task finds it, however the scan before was cut short.    *)
THEOREM SnapshotsFirst ==
  ASSUME Prompt
  PROVE  Spec => []SnapshotFirst
<1>1. IInv /\ ExclInv /\ [Next]_vars => IInv' /\ ExclInv'
  BY Inductive, ExclInductive
<1>2. ExclInv => SnapshotFirst
  BY DEF ExclInv
<1>3. QED
  BY <1>1, <1>2, Initial, ExclInitial, PTL DEF Spec

(* No scan puts an older version back into a snapshot. *)
THEOREM SnapshotsAdvance ==
  ASSUME Prompt
  PROVE  Spec => SnapshotAdvances
<1>1. IInv /\ ExclInv /\ [Next]_vars => IInv' /\ ExclInv'
  BY Inductive, ExclInductive
<1>2. ASSUME IInv, ExclInv, [Next]_vars
      PROVE  [\A f \in File : record'[f].ver >= record[f].ver]_vars
  <2>1. ASSUME NEW f \in File PROVE record'[f].ver >= record[f].ver
    <3>1. record'[f] \in Snapshot
      BY <1>2, Inductive DEF IInv, TypeOK
    <3>2. record'[f].ver \in Nat /\ record[f].ver \in Nat
      BY <1>2, <3>1, Versions, VersionAssumption DEF Snapshot, NoSnapshot, Version
    <3>3. QED
      BY <1>2, <3>2, VersionsAdvance
  <2>2. QED
    BY <2>1
<1>3. IInv /\ ExclInv /\ [Next]_vars
        => [\A f \in File : record'[f].ver >= record[f].ver]_vars
  BY <1>2
<1>4. QED
  BY <1>1, <1>3, Initial, ExclInitial, PTL DEF Spec, SnapshotAdvances

(* What is marked as uploaded is not queued again unless somebody has      *)
(* removed its task: the row of that task still holds the key, whatever    *)
(* the scan has read of snapshots and tasks, and when.                     *)
THEOREM UploadedOnce ==
  ASSUME Prompt, "remove" \notin TaskEvents
  PROVE  Spec => NoSecondUpload
<1>1. IInv /\ ExclInv /\ [Next]_vars => IInv' /\ ExclInv'
  BY Inductive, ExclInductive
<1>2. ASSUME IInv, ExclInv, [Next]_vars
      PROVE  \A key \in Key :
               task[key] # "open" /\ task'[key] = "open" =>
                 ~(record[key.file].uploaded /\ SameSnapshot(key))
  <2> SUFFICES ASSUME NEW key \in Key, task[key] # "open", task'[key] = "open",
                      record[key.file].uploaded, SameSnapshot(key)
               PROVE  FALSE
    OBVIOUS
  <2>1. key.file \in File /\ key = KeyOf(key.file, record[key.file].ver, record[key.file].tgt)
    BY DEF Key, KeyOf, SameSnapshot
  <2>2. task[key] = "success"
    BY <1>2, <2>1 DEF ExclInv, MarkEarned
  <2>3. task'[key] = "success"
    BY <1>2, <2>2, EarnedStays
  <2>4. QED
    BY <2>3
<1>3. IInv /\ ExclInv /\ [Next]_vars
        => [\A key \in Key :
              task[key] # "open" /\ task'[key] = "open" =>
                ~(record[key.file].uploaded /\ SameSnapshot(key))]_vars
  BY <1>2
<1>4. QED
  BY <1>1, <1>3, Initial, ExclInitial, PTL DEF Spec, NoSecondUpload
=============================================================================
