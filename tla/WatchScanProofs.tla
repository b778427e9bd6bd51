-------------------------- MODULE WatchScanProofs --------------------------
(***************************************************************************)
(* Theorems about WatchScan for any number of scanners, files,             *)
(* destinations and versions, and their proofs.                            *)
(***************************************************************************)
EXTENDS WatchScan, TLAPS

-----------------------------------------------------------------------------
(* The inductive invariant.  TypeOK is not inductive by itself: what a     *)
(* scan writes to a snapshot is well formed only because of what it has    *)
(* read and seen before.                                                   *)

(* A scan that still writes snapshots knows its destination, updates only  *)
(* what it has seen, and what it has read has not disappeared since.       *)
ScanSound(s) ==
  /\ ~At(s, "idle") /\ ~At(s, "insert") /\ ~At(s, "finish") =>
       scan[s].tgt \in Target
  /\ At(s, "update") => scan[s].todo \subseteq Seen(s)
  /\ \A f \in File : scan[s].read[f].ver # 0 => record[f].ver # 0

IInv == TypeOK /\ LeaseConsistent /\ \A s \in Scanner : ScanSound(s)

-----------------------------------------------------------------------------
(* The parts of the state.                                                 *)

LEMMA IdleScanType == IdleScan \in ScanState
BY TargetAssumption DEF IdleScan, ScanState, Pc, Snapshot, NoSnapshot

(* What a step writes to the local state of one scanner. *)
LEMMA ScanFields ==
  ASSUME NEW sc \in ScanState,
         NEW pc \in Pc, NEW tgt \in Target \cup {NoTarget},
         NEW read \in [File -> Snapshot], NEW open \in SUBSET Key,
         NEW todo \in SUBSET File, NEW candidates \in SUBSET Key,
         NEW result \in {"success", "error", "canceled"}
  PROVE  /\ [sc EXCEPT !.pc = pc] \in ScanState
         /\ [sc EXCEPT !.pc = pc, !.tgt = tgt] \in ScanState
         /\ [sc EXCEPT !.pc = pc, !.read = read] \in ScanState
         /\ [sc EXCEPT !.pc = pc, !.todo = todo, !.open = open] \in ScanState
         /\ [sc EXCEPT !.todo = todo] \in ScanState
         /\ [sc EXCEPT !.todo = todo, !.result = result] \in ScanState
         /\ [sc EXCEPT !.pc = pc, !.result = result] \in ScanState
         /\ [sc EXCEPT !.pc = pc, !.result = result, !.candidates = candidates]
              \in ScanState
BY DEF ScanState

LEMMA VisitFields ==
  ASSUME NEW sc \in ScanState, NEW todo \in SUBSET File, NEW f \in File,
         NEW ver \in Version, NEW candidates \in SUBSET Key
  PROVE  [sc EXCEPT !.todo = todo, !.found[f] = ver, !.candidates = candidates]
           \in ScanState
<1>1. [sc.found EXCEPT ![f] = ver] \in [File -> Version \cup {0}]
  BY DEF ScanState
<1>2. QED
  BY <1>1 DEF ScanState

LEMMA KeyType ==
  ASSUME NEW f \in File, NEW ver \in Version, NEW tgt \in Target
  PROVE  KeyOf(f, ver, tgt) \in Key
BY DEF KeyOf, Key

(* The local state a step of a scan, or a crash, leaves. *)
LEMMA ScanType ==
  ASSUME IInv, NEW s \in Scanner,
         ScanStep(s) \/ ScanTrouble(s) \/ Crash(s)
  PROVE  scan' \in [Scanner -> ScanState]
<1> USE DEF IInv, TypeOK
<1> DEFINE sc == scan[s]
<1>0. sc \in ScanState
  OBVIOUS
<1> HIDE DEF sc
<1>1. CASE ClaimForScan(s)
  <2>1. [sc EXCEPT !.pc = "records", !.tgt = folder.tgt] \in ScanState
    BY <1>0, ScanFields DEF Pc
  <2>2. scan' = [scan EXCEPT ![s] = [sc EXCEPT !.pc = "records", !.tgt = folder.tgt]]
    BY <1>1 DEF ClaimForScan, sc
  <2>3. QED
    BY <2>1, <2>2
<1>2. CASE LoadSnapshots(s)
  <2>1. [sc EXCEPT !.pc = "tasks", !.read = record] \in ScanState
    BY <1>0, ScanFields DEF Pc
  <2>2. scan' = [scan EXCEPT ![s] = [sc EXCEPT !.pc = "tasks", !.read = record]]
    BY <1>2 DEF LoadSnapshots, sc
  <2>3. QED
    BY <2>1, <2>2
<1>3. CASE LoadOpenTasks(s)
  <2> DEFINE open == {key \in Key : task[key] \in {"open", "stopping", "failed"}}
  <2>1. [sc EXCEPT !.pc = "walk", !.todo = File, !.open = open] \in ScanState
    BY <1>0, ScanFields DEF Pc
  <2>2. scan' = [scan EXCEPT ![s] = [sc EXCEPT !.pc = "walk", !.todo = File, !.open = open]]
    BY <1>3 DEF LoadOpenTasks, sc
  <2>3. QED
    BY <2>1, <2>2
<1>4. ASSUME NEW f \in File, Visit(s, f) PROVE scan' \in [Scanner -> ScanState]
  <2>1. CASE disk[f].present
    <3> DEFINE key == KeyOf(f, disk[f].ver, sc.tgt)
               more == IF Candidate(s, f) THEN sc.candidates \cup {key} ELSE sc.candidates
    <3>1. sc.todo \in SUBSET File /\ sc.candidates \in SUBSET Key
      BY <1>0 DEF ScanState
    <3>2. disk[f].ver \in Version /\ sc.tgt \in Target
      BY <1>4 DEF Visit, ScanSound, At, sc
    <3>3. more \in SUBSET Key
      BY <3>1, <3>2, KeyType
    <3> HIDE DEF more
    <3>4. [sc EXCEPT !.todo = sc.todo \ {f}, !.found[f] = disk[f].ver, !.candidates = more] \in ScanState
      BY <1>0, <3>1, <3>2, <3>3, VisitFields
    <3>5. scan' = [scan EXCEPT ![s] = [sc EXCEPT !.todo = sc.todo \ {f}, !.found[f] = disk[f].ver, !.candidates = more]]
      BY <1>4, <2>1 DEF Visit, sc, more
    <3>6. QED
      BY <3>4, <3>5
  <2>2. CASE ~disk[f].present
    <3>1. [sc EXCEPT !.todo = sc.todo \ {f}] \in ScanState
      BY <1>0 DEF ScanState
    <3>2. scan' = [scan EXCEPT ![s] = [sc EXCEPT !.todo = sc.todo \ {f}]]
      BY <1>4, <2>2 DEF Visit, sc
    <3>3. QED
      BY <3>1, <3>2
  <2>3. QED
    BY <2>1, <2>2
<1>5. CASE EndWalk(s)
  <2>1. ChangedSnapshots(s) \in SUBSET File
    BY DEF ChangedSnapshots, Seen
  <2>2. [sc EXCEPT !.pc = "update", !.todo = ChangedSnapshots(s), !.open = {}] \in ScanState
    BY <1>0, <2>1, ScanFields DEF Pc
  <2>3. scan' = [scan EXCEPT ![s] = [sc EXCEPT !.pc = "update", !.todo = ChangedSnapshots(s), !.open = {}]]
    BY <1>5 DEF EndWalk, sc
  <2>4. QED
    BY <2>2, <2>3
<1>6. CASE UpdateSnapshots(s)
  <2>1. PICK batch \in SUBSET sc.todo :
          scan' = [scan EXCEPT ![s] = [sc EXCEPT !.todo = sc.todo \ batch]]
    BY <1>6 DEF UpdateSnapshots, sc
  <2>2. [sc EXCEPT !.todo = sc.todo \ batch] \in ScanState
    BY <1>0 DEF ScanState
  <2>3. QED
    BY <2>1, <2>2
<1>7. CASE EndUpdate(s) \/ MarkMissing(s)
  <2>1. PICK pc \in Pc : scan' = [scan EXCEPT ![s] = [sc EXCEPT !.pc = pc]]
    BY <1>7 DEF EndUpdate, MarkMissing, Goto, Pc, sc
  <2>2. [sc EXCEPT !.pc = pc] \in ScanState
    BY <1>0 DEF ScanState
  <2>3. QED
    BY <2>1, <2>2
<1>8. CASE CreateSnapshots(s)
  <2> DEFINE new == [IdleScan EXCEPT !.pc = "insert", !.result = sc.result,
                                     !.candidates = sc.candidates]
  <2>1. sc.result \in {"success", "error", "canceled"} /\ sc.candidates \in SUBSET Key
    BY <1>0 DEF ScanState
  <2>2. new \in ScanState
    BY <2>1, IdleScanType DEF ScanState, Pc
  <2>3. scan' = [scan EXCEPT ![s] = new]
    BY <1>8 DEF CreateSnapshots, sc
  <2>4. QED
    BY <2>2, <2>3
<1>9. CASE CreateTasks(s) \/ AbortScan(s)
  <2>1. sc.result \in {"success", "error", "canceled"}
    BY <1>0 DEF ScanState
  <2>2. PICK result \in {"success", "error", "canceled"} :
          scan' = [scan EXCEPT ![s] = [IdleScan EXCEPT !.pc = "finish", !.result = result]]
    BY <1>9, <2>1 DEF CreateTasks, AbortScan, GoFinish, sc
  <2>3. [IdleScan EXCEPT !.pc = "finish", !.result = result] \in ScanState
    BY IdleScanType DEF ScanState, Pc
  <2>4. QED
    BY <2>2, <2>3
<1>10. CASE FinishScan(s) \/ FinishScanFails(s) \/ Crash(s)
  BY <1>10, IdleScanType DEF FinishScan, FinishScanFails, Crash
<1>11. CASE WalkProblem(s)
  <2>1. PICK unreadable \in SUBSET sc.todo :
          scan' = [scan EXCEPT ![s] = [sc EXCEPT !.todo = sc.todo \ unreadable, !.result = "error"]]
    BY <1>11 DEF WalkProblem, sc
  <2>2. [sc EXCEPT !.todo = sc.todo \ unreadable, !.result = "error"] \in ScanState
    BY <1>0 DEF ScanState
  <2>3. QED
    BY <2>1, <2>2
<1>12. QED
  BY <1>1, <1>2, <1>3, <1>4, <1>5, <1>6, <1>7, <1>8, <1>9, <1>10, <1>11
  DEF ScanStep, ScanTrouble

LEMMA SnapshotFields ==
  ASSUME NEW snapshot \in Snapshot
  PROVE  /\ [snapshot EXCEPT !.uploaded = FALSE] \in Snapshot
         /\ snapshot.ver # 0 =>
              /\ [snapshot EXCEPT !.uploaded = TRUE] \in Snapshot
              /\ [snapshot EXCEPT !.missing = TRUE] \in Snapshot
         /\ [snapshot EXCEPT !.uploaded = FALSE].ver = snapshot.ver
         /\ [snapshot EXCEPT !.uploaded = TRUE].ver = snapshot.ver
         /\ [snapshot EXCEPT !.missing = TRUE].ver = snapshot.ver
         /\ snapshot.uploaded \in BOOLEAN /\ snapshot.missing \in BOOLEAN
<1>1. CASE snapshot = NoSnapshot
  <2>0. NoSnapshot \in [ver : {0}, tgt : {NoTarget}, uploaded : {FALSE}, missing : {FALSE}]
    BY DEF NoSnapshot
  <2>1. [NoSnapshot EXCEPT !.uploaded = FALSE] = NoSnapshot /\ NoSnapshot.ver = 0
    BY <2>0
  <2>2. NoSnapshot.uploaded = FALSE /\ NoSnapshot.missing = FALSE
    BY DEF NoSnapshot
  <2>3. [NoSnapshot EXCEPT !.uploaded = TRUE].ver = 0 /\ [NoSnapshot EXCEPT !.missing = TRUE].ver = 0
    BY DEF NoSnapshot
  <2>4. QED
    BY <1>1, <2>1, <2>2, <2>3
<1>2. CASE snapshot # NoSnapshot
  BY <1>2 DEF Snapshot
<1>3. QED
  BY <1>1, <1>2

(* Snapshots stay well formed and none disappears. *)
LEMMA RecordType ==
  ASSUME IInv, [Next]_vars
  PROVE  /\ record' \in [File -> Snapshot]
         /\ \A f \in File : record[f].ver # 0 => record'[f].ver # 0
<1> DEFINE Goal == /\ record' \in [File -> Snapshot]
                   /\ \A f \in File : record[f].ver # 0 => record'[f].ver # 0
<1>0. record \in [File -> Snapshot] /\ scan \in [Scanner -> ScanState]
  BY DEF IInv, TypeOK
<1>1. ASSUME record' = record PROVE Goal
  BY <1>0, <1>1
<1>2. ASSUME NEW s \in Scanner, UpdateSnapshots(s) PROVE Goal
  <2>1. PICK batch \in SUBSET scan[s].todo :
          record' = [f \in File |-> IF f \in batch THEN UpdatedSnapshot(s, f) ELSE record[f]]
    BY <1>2 DEF UpdateSnapshots
  <2>2. ASSUME NEW f \in batch
        PROVE  /\ f \in File => UpdatedSnapshot(s, f) \in Snapshot
               /\ f \in File => UpdatedSnapshot(s, f).ver # 0
    <3>1. scan[s].tgt \in Target /\ f \in Seen(s)
      BY <1>2, <2>2, <2>1 DEF IInv, ScanSound, UpdateSnapshots, At
    <3>2. f \in File => scan[s].found[f] \in Version /\ scan[s].found[f] # 0
      BY <3>1, <1>0 DEF Seen, ScanState
    <3>3. f \in File => scan[s].read[f].missing \in BOOLEAN /\ record[f].uploaded \in BOOLEAN
      BY <1>0, SnapshotFields DEF ScanState
    <3>4. UploadedMark(s, f) \in BOOLEAN
      BY <3>3 DEF UploadedMark
    <3>5. QED
      BY <3>1, <3>2, <3>3, <3>4 DEF UpdatedSnapshot, Snapshot
  <2>3. QED
    BY <2>1, <2>2, <1>0
<1>3. ASSUME NEW s \in Scanner, MarkMissing(s) PROVE Goal
  <2>1. \A f \in Known(s) : record[f].ver # 0
    BY DEF IInv, ScanSound, Known
  <2>2. QED
    BY <1>3, <2>1, <1>0, SnapshotFields DEF MarkMissing
<1>4. ASSUME NEW s \in Scanner, CreateSnapshots(s) PROVE Goal
  <2> DEFINE new(f) == [NoSnapshot EXCEPT !.ver = scan[s].found[f], !.tgt = scan[s].tgt]
  <2>1. scan[s].tgt \in Target
    BY <1>4 DEF IInv, ScanSound, CreateSnapshots, At
  <2>2. ASSUME NEW f \in NewSnapshots(s)
        PROVE  new(f) \in Snapshot /\ new(f).ver # 0
    <3>1. scan[s].found[f] \in Version /\ scan[s].found[f] # 0
      BY <1>0, <2>2 DEF NewSnapshots, Seen, ScanState
    <3>2. QED
      BY <2>1, <3>1 DEF NoSnapshot, Snapshot
  <2>3. record' = [f \in File |-> IF f \in NewSnapshots(s) /\ record[f].ver = 0
                                    THEN new(f) ELSE record[f]]
    BY <1>4 DEF CreateSnapshots
  <2> HIDE DEF new
  <2>4. QED
    BY <2>2, <2>3, <1>0
<1>5. ASSUME NEW tgt \in Target, ChangeTarget(tgt) PROVE Goal
  BY <1>5, <1>0, SnapshotFields DEF ChangeTarget
<1>6. ASSUME NEW key \in Key, Succeed(key) PROVE Goal
  <2>1. key.file \in File /\ key.ver \in Version
    BY DEF Key
  <2>2. SameSnapshot(key) => record[key.file].ver # 0
    BY <2>1 DEF SameSnapshot, Version
  <2>3. QED
    BY <1>6, <2>1, <2>2, <1>0, SnapshotFields DEF Succeed
<1>7. QED
  BY <1>1, <1>2, <1>3, <1>4, <1>5, <1>6
  DEF Next, vars, ScanStep, ScanTrouble, Configure, EditDestination, EditRoute,
      QueueStep, Clock, FileSystem, Process, ClaimForScan, LoadSnapshots,
      LoadOpenTasks, Visit, EndWalk, EndUpdate, CreateTasks, FinishScan,
      WalkProblem, AbortScan, FinishScanFails, RenewScanLease, PauseFolder,
      ResumeFolder, ScanNow, Deliver, Supersede, Stop, TaskEvent, LeaseLapses,
      NextScanDue, Settle, WriteFile, MoveFile, Shutdown, Exit, Crash, Restart

Folder == [status : FolderStatus, tgt : Target, owner : Scanner \cup {NoScanner},
           lease : {"none", "live", "lapsed"}, due : BOOLEAN]

Disk == [ver : Version, present : BOOLEAN, settled : BOOLEAN, gone : BOOLEAN]

(* The row of the folder, and its lease. *)
LEMMA FolderType ==
  ASSUME IInv, [Next]_vars
  PROVE  folder' \in Folder /\ LeaseConsistent'
<1> USE DEF Folder, LeaseConsistent
<1> DEFINE Goal == folder' \in Folder /\ LeaseConsistent'
<1>0. folder \in Folder /\ LeaseConsistent
  BY DEF IInv, TypeOK
<1>1. ASSUME folder' = folder PROVE Goal
  BY <1>0, <1>1
<1>2. ASSUME NEW s \in Scanner, ClaimForScan(s) PROVE Goal
  BY <1>0, <1>2, ScannerAssumption DEF ClaimForScan, FolderStatus
<1>3. ASSUME NEW s \in Scanner, FinishScan(s) PROVE Goal
  BY <1>0, <1>3, ScannerAssumption DEF FinishScan, FinalStatus, FolderStatus
<1>4. ASSUME NEW s \in Scanner, RenewScanLease(s) PROVE Goal
  BY <1>0, <1>4, ScannerAssumption DEF RenewScanLease
<1>5. ASSUME PauseFolder \/ ResumeFolder \/ ScanNow \/ LeaseLapses \/ NextScanDue
      PROVE Goal
  BY <1>0, <1>5 DEF PauseFolder, ResumeFolder, ScanNow, LeaseLapses, NextScanDue,
                    FolderStatus
<1>6. ASSUME NEW tgt \in Target, ChangeTarget(tgt) PROVE Goal
  BY <1>0, <1>6 DEF ChangeTarget
<1>7. ASSUME NEW s \in Scanner, Restart(s) PROVE Goal
  BY <1>0, <1>7 DEF Restart, RepairedFolder, FolderStatus
<1>8. QED
  BY <1>1, <1>2, <1>3, <1>4, <1>5, <1>6, <1>7
  DEF Next, vars, ScanStep, ScanTrouble, Configure, EditDestination, EditRoute,
      QueueStep, Clock, FileSystem, Process, LoadSnapshots, LoadOpenTasks,
      Visit, EndWalk, UpdateSnapshots, EndUpdate, MarkMissing, CreateSnapshots,
      CreateTasks, WalkProblem, AbortScan, FinishScanFails, Deliver, Succeed,
      Supersede, Stop, TaskEvent, Settle, WriteFile, MoveFile, Shutdown, Exit,
      Crash

(* Files; one that has not been away is there. *)
LEMMA DiskType ==
  ASSUME IInv, [Next]_vars
  PROVE  disk' \in [File -> Disk]
<1> USE DEF Disk
<1>0. disk \in [File -> Disk]
  BY DEF IInv, TypeOK
<1>1. ASSUME NEW f \in File, WriteFile(f) PROVE disk' \in [File -> Disk]
  <2>1. disk[f].ver + 1 \in Version
    BY <1>0, <1>1, VersionAssumption DEF WriteFile, Version
  <2>2. [disk[f] EXCEPT !.ver = disk[f].ver + 1, !.present = TRUE, !.settled = FALSE] \in Disk
    BY <1>0, <2>1
  <2>3. disk' = [disk EXCEPT ![f] = [disk[f] EXCEPT !.ver = disk[f].ver + 1, !.present = TRUE, !.settled = FALSE]]
    BY <1>1 DEF WriteFile
  <2>4. QED
    BY <1>0, <2>2, <2>3
<1>2. ASSUME NEW f \in File, MoveFile(f) PROVE disk' \in [File -> Disk]
  BY <1>0, <1>2 DEF MoveFile
<1>3. ASSUME NEW f \in File, Settle(f) PROVE disk' \in [File -> Disk]
  BY <1>0, <1>3 DEF Settle
<1>4. ASSUME disk' = disk PROVE disk' \in [File -> Disk]
  BY <1>0, <1>4
<1>5. QED
  BY <1>1, <1>2, <1>3, <1>4
  DEF Next, vars, ScanStep, ScanTrouble, Configure, EditDestination, EditRoute,
      ChangeTarget, QueueStep, Clock, FileSystem, Process, ClaimForScan,
      LoadSnapshots, LoadOpenTasks, Visit, EndWalk, UpdateSnapshots, EndUpdate,
      MarkMissing, CreateSnapshots, CreateTasks, FinishScan, RenewScanLease,
      WalkProblem, AbortScan, FinishScanFails, PauseFolder, ResumeFolder,
      ScanNow, Deliver, Succeed, Supersede, Stop, TaskEvent, LeaseLapses,
      NextScanDue, Shutdown, Exit, Crash, Restart

LEMMA TasksType ==
  ASSUME IInv, [Next]_vars
  PROVE  task' \in [Key -> TaskStatus] /\ delivered' \in SUBSET Key
<1> DEFINE Goal == task' \in [Key -> TaskStatus] /\ delivered' \in SUBSET Key
<1>0. task \in [Key -> TaskStatus] /\ delivered \in SUBSET Key
  BY DEF IInv, TypeOK
<1>1. ASSUME task' = task, delivered' = delivered PROVE Goal
  BY <1>0, <1>1
<1>2. ASSUME NEW s \in Scanner, CreateTasks(s) PROVE Goal
  BY <1>0, <1>2 DEF CreateTasks, TaskStatus
<1>3. ASSUME NEW tgt \in Target, ChangeTarget(tgt) PROVE Goal
  BY <1>0, <1>3 DEF ChangeTarget, TaskStatus
<1>4. ASSUME NEW key \in Key, QueueStep(key) PROVE Goal
  BY <1>0, <1>4 DEF QueueStep, Deliver, Succeed, Supersede, Stop, SetTask, TaskStatus
<1>5. ASSUME NEW key \in Key, TaskEvent(key) PROVE Goal
  BY <1>0, <1>5 DEF TaskEvent, SetTask, TaskStatus
<1>6. QED
  BY <1>1, <1>2, <1>3, <1>4, <1>5
  DEF Next, vars, queueVars, ScanStep, ScanTrouble, Configure, EditDestination,
      EditRoute, Clock, FileSystem, Process, ClaimForScan, LoadSnapshots,
      LoadOpenTasks, Visit, EndWalk, UpdateSnapshots, EndUpdate, MarkMissing,
      CreateSnapshots, FinishScan, RenewScanLease, WalkProblem, AbortScan,
      FinishScanFails, PauseFolder, ResumeFolder, ScanNow, LeaseLapses,
      NextScanDue, Settle, WriteFile, MoveFile, Shutdown, Exit, Crash, Restart

LEMMA ProcType ==
  ASSUME IInv, [Next]_vars
  PROVE  proc' \in [Scanner -> {"up", "stopping", "down"}]
<1> DEFINE Goal == proc' \in [Scanner -> {"up", "stopping", "down"}]
<1>0. proc \in [Scanner -> {"up", "stopping", "down"}]
  BY DEF IInv, TypeOK
<1>1. ASSUME proc' = proc PROVE Goal
  BY <1>0, <1>1
<1>2. ASSUME NEW s \in Scanner, Process(s) PROVE Goal
  BY <1>0, <1>2 DEF Process, Shutdown, Exit, Crash, Restart
<1>3. QED
  BY <1>1, <1>2
  DEF Next, vars, ScanStep, ScanTrouble, Configure, EditDestination, EditRoute,
      ChangeTarget, QueueStep, Clock, FileSystem, ClaimForScan, LoadSnapshots,
      LoadOpenTasks, Visit, EndWalk, UpdateSnapshots, EndUpdate, MarkMissing,
      CreateSnapshots, CreateTasks, FinishScan, RenewScanLease, WalkProblem,
      AbortScan, FinishScanFails, PauseFolder, ResumeFolder, ScanNow, Deliver,
      Succeed, Supersede, Stop, TaskEvent, LeaseLapses, NextScanDue, Settle,
      WriteFile, MoveFile

(* A step changes the local state of at most one scanner. *)
LEMMA OneScanner ==
  ASSUME IInv, [Next]_vars
  PROVE  \/ scan' = scan
         \/ \E s \in Scanner :
              /\ ScanStep(s) \/ ScanTrouble(s) \/ Crash(s)
              /\ \A other \in Scanner \ {s} : scan'[other] = scan[other]
<1>1. ASSUME NEW s \in Scanner, ScanStep(s) \/ ScanTrouble(s) \/ Crash(s)
      PROVE  \A other \in Scanner \ {s} : scan'[other] = scan[other]
  <2>0. scan \in [Scanner -> ScanState]
    BY DEF IInv, TypeOK
  <2>1. \E new : scan' = [scan EXCEPT ![s] = new]
    BY <1>1, <2>0
    DEF ScanStep, ScanTrouble, Goto, GoFinish, ClaimForScan, LoadSnapshots,
        LoadOpenTasks, Visit, EndWalk, UpdateSnapshots, EndUpdate, MarkMissing,
        CreateSnapshots, CreateTasks, FinishScan, WalkProblem, AbortScan,
        FinishScanFails, Crash
  <2>2. QED
    BY <2>0, <2>1
<1>2. QED
  BY <1>1
  DEF Next, vars, Configure, EditDestination, EditRoute, ChangeTarget, QueueStep,
      Clock, FileSystem, Process, RenewScanLease, PauseFolder, ResumeFolder,
      ScanNow, Deliver, Succeed, Supersede, Stop, TaskEvent, LeaseLapses,
      NextScanDue, Settle, WriteFile, MoveFile, Shutdown, Exit, Restart

(* What a scan knows stays sound in its own steps. *)
LEMMA OwnScanSound ==
  ASSUME IInv, [Next]_vars, NEW s \in Scanner,
         ScanStep(s) \/ ScanTrouble(s) \/ Crash(s)
  PROVE  ScanSound(s)'
<1> USE DEF ScanSound, At
<1>0. /\ scan \in [Scanner -> ScanState] /\ ScanSound(s) /\ folder \in Folder
      /\ \A f \in File : record[f].ver # 0 => record'[f].ver # 0
  BY RecordType DEF IInv, TypeOK, Folder
<1>a. \A f \in File : IdleScan.read[f].ver = 0
  BY DEF IdleScan, NoSnapshot
<1>1. CASE ClaimForScan(s)
  BY <1>0, <1>1 DEF ClaimForScan, Folder, ScanState
<1>2. CASE LoadSnapshots(s)
  BY <1>0, <1>2 DEF LoadSnapshots, ScanState
<1>3. CASE LoadOpenTasks(s)
  BY <1>0, <1>3 DEF LoadOpenTasks, ScanState
<1>4. ASSUME NEW f \in File, Visit(s, f) PROVE ScanSound(s)'
  <2>1. /\ scan'[s].pc = "walk" /\ scan'[s].tgt = scan[s].tgt
        /\ scan'[s].read = scan[s].read
    BY <1>0, <1>4 DEF Visit, ScanState
  <2>2. QED
    BY <1>0, <1>4, <2>1 DEF Visit
<1>5. CASE EndWalk(s)
  BY <1>0, <1>5 DEF EndWalk, ChangedSnapshots, Seen, ScanState
<1>6. CASE UpdateSnapshots(s)
  <2>1. PICK batch \in SUBSET scan[s].todo :
          scan' = [scan EXCEPT ![s].todo = @ \ batch]
    BY <1>6 DEF UpdateSnapshots
  <2>2. scan'[s] = [scan[s] EXCEPT !.todo = @ \ batch]
    BY <2>1, <1>0
  <2>3. /\ scan'[s].pc = "update" /\ scan'[s].tgt = scan[s].tgt
        /\ scan'[s].read = scan[s].read /\ scan'[s].found = scan[s].found
        /\ scan'[s].todo = scan[s].todo \ batch
    BY <1>0, <2>2, <1>6 DEF UpdateSnapshots, ScanState
  <2>4. QED
    BY <1>0, <1>6, <2>3 DEF UpdateSnapshots, Seen
<1>7. CASE EndUpdate(s) \/ MarkMissing(s)
  <2>1. /\ scan'[s].pc \in {"missing", "create"} /\ scan'[s].tgt = scan[s].tgt
        /\ scan'[s].read = scan[s].read /\ scan[s].pc \in {"update", "missing"}
    BY <1>0, <1>7 DEF EndUpdate, MarkMissing, Goto, ScanState
  <2>2. QED
    BY <1>0, <2>1
<1>8. CASE CreateSnapshots(s)
  <2>1. scan'[s].pc = "insert" /\ scan'[s].read = IdleScan.read
    BY <1>0, <1>8 DEF CreateSnapshots, IdleScan
  <2>2. QED
    BY <1>a, <2>1
<1>9. CASE CreateTasks(s) \/ AbortScan(s)
  <2>1. scan'[s].pc = "finish" /\ scan'[s].read = IdleScan.read
    BY <1>0, <1>9 DEF CreateTasks, AbortScan, GoFinish, IdleScan
  <2>2. QED
    BY <1>a, <2>1
<1>10. CASE FinishScan(s) \/ FinishScanFails(s) \/ Crash(s)
  <2>1. scan'[s] = IdleScan
    BY <1>0, <1>10 DEF FinishScan, FinishScanFails, Crash
  <2>2. IdleScan.pc = "idle"
    BY DEF IdleScan
  <2>3. QED
    BY <1>a, <2>1, <2>2
<1>11. CASE WalkProblem(s)
  <2>1. /\ scan'[s].pc = "walk" /\ scan'[s].tgt = scan[s].tgt
        /\ scan'[s].read = scan[s].read
    BY <1>0, <1>11 DEF WalkProblem, ScanState
  <2>2. QED
    BY <1>0, <1>11, <2>1 DEF WalkProblem
<1>12. QED
  BY <1>1, <1>2, <1>3, <1>4, <1>5, <1>6, <1>7, <1>8, <1>9, <1>10, <1>11
  DEF ScanStep, ScanTrouble

LEMMA Inductive ==
  ASSUME IInv, [Next]_vars
  PROVE  IInv'
<1>1. scan' \in [Scanner -> ScanState]
  <2>1. CASE scan' = scan
    BY <2>1 DEF IInv, TypeOK
  <2>2. CASE \E s \in Scanner : ScanStep(s) \/ ScanTrouble(s) \/ Crash(s)
    BY <2>2, ScanType
  <2>3. QED
    BY <2>1, <2>2, OneScanner
<1>2. ASSUME NEW s \in Scanner PROVE ScanSound(s)'
  <2>1. CASE scan'[s] = scan[s]
    <3>1. \A f \in File : record[f].ver # 0 => record'[f].ver # 0
      BY RecordType
    <3>2. QED
      BY <2>1, <3>1 DEF IInv, ScanSound, At, Seen
  <2>2. CASE ScanStep(s) \/ ScanTrouble(s) \/ Crash(s)
    BY <2>2, OwnScanSound
  <2>3. QED
    BY <2>1, <2>2, OneScanner
<1>3. QED
  BY <1>1, <1>2, RecordType, FolderType, DiskType, TasksType, ProcType
  DEF IInv, TypeOK, Folder, Disk

LEMMA Initial == Init => IInv
<1> SUFFICES ASSUME Init PROVE IInv
  OBVIOUS
<1>1. scan \in [Scanner -> ScanState]
  BY IdleScanType DEF Init
<1>2. \A s \in Scanner : ScanSound(s)
  BY DEF Init, ScanSound, At, IdleScan, NoSnapshot
<1>3. 1 \in Version
  BY VersionAssumption DEF Version
<1>4. TypeOK /\ LeaseConsistent
  BY <1>1, <1>3, TargetAssumption, ScannerAssumption
  DEF Init, TypeOK, LeaseConsistent, FolderStatus, Snapshot, TaskStatus
<1>5. QED
  BY <1>2, <1>4 DEF IInv

(* Type correctness, for any number of scanners, files and destinations:   *)
(* scans write well-formed snapshots, whatever happens between their steps. *)
THEOREM TypeCorrect == Spec => []TypeOK
<1>1. Spec => []IInv
  BY Initial, Inductive, PTL DEF Spec
<1>2. IInv => TypeOK
  BY DEF IInv
<1>3. QED
  BY <1>1, <1>2, PTL

(* The scan lease has an owner as long as it exists, and exists as long as *)
(* the folder is being scanned, however many scanners compete for it.      *)
THEOREM LeaseSafe == Spec => []LeaseConsistent
<1>1. Spec => []IInv
  BY Initial, Inductive, PTL DEF Spec
<1>2. IInv => LeaseConsistent
  BY DEF IInv
<1>3. QED
  BY <1>1, <1>2, PTL

-----------------------------------------------------------------------------
(* Pausing.                                                                *)

(* A folder that was paused, stopped or disabled stays so until the user   *)
(* resumes it: neither a scan that ends later, nor another scanner, nor a  *)
(* restart brings it back.                                                 *)
THEOREM PauseHolds == Spec => HaltSticks
<1> DEFINE Resumed == /\ folder' = [folder EXCEPT !.status = "watching", !.due = TRUE]
                      /\ UNCHANGED <<disk, record, queueVars, scan, proc>>
<1>1. ASSUME IInv, [Next]_vars, folder.status = "halted"
      PROVE  folder'.status = "halted" \/ Resumed
  <2>0. folder \in Folder
    BY <1>1 DEF IInv, TypeOK, Folder
  <2>1. ASSUME NEW s \in Scanner, ScanStep(s) \/ RenewScanLease(s) \/ ScanTrouble(s)
        PROVE  folder'.status = "halted"
    BY <1>1, <2>0, <2>1
    DEF ScanStep, ScanTrouble, RenewScanLease, ClaimForScan, DueForScan,
        LoadSnapshots, LoadOpenTasks, Visit, EndWalk, UpdateSnapshots,
        EndUpdate, MarkMissing, CreateSnapshots, CreateTasks, FinishScan,
        FinalStatus, WalkProblem, AbortScan, FinishScanFails, Folder
  <2>2. ASSUME Configure PROVE folder'.status = "halted" \/ Resumed
    BY <1>1, <2>0, <2>2
    DEF Configure, PauseFolder, ResumeFolder, EditDestination, EditRoute,
        ChangeTarget, ScanNow, Folder
  <2>3. ASSUME NEW key \in Key, QueueStep(key) \/ TaskEvent(key)
        PROVE  folder'.status = "halted"
    BY <1>1, <2>3 DEF QueueStep, Deliver, Succeed, Supersede, Stop, TaskEvent
  <2>4. ASSUME Clock PROVE folder'.status = "halted"
    BY <1>1, <2>0, <2>4 DEF Clock, LeaseLapses, NextScanDue, Settle, Folder
  <2>5. ASSUME NEW f \in File, FileSystem(f) PROVE folder'.status = "halted"
    BY <1>1, <2>5 DEF FileSystem, WriteFile, MoveFile
  <2>6. ASSUME NEW s \in Scanner, Process(s) PROVE folder'.status = "halted"
    BY <1>1, <2>6 DEF Process, Shutdown, Exit, Crash, Restart
  <2>7. QED
    BY <1>1, <2>1, <2>2, <2>3, <2>4, <2>5, <2>6 DEF Next, vars
<1>2. ASSUME IInv, [Next]_vars
      PROVE  [folder.status = "halted" => folder'.status = "halted" \/ Resumed]_vars
  BY <1>1, <1>2
<1>3. IInv /\ [Next]_vars
        => [folder.status = "halted" => folder'.status = "halted" \/ Resumed]_vars
  BY <1>2
<1>4. QED
  BY <1>3, Initial, Inductive, PTL DEF Spec, HaltSticks

-----------------------------------------------------------------------------
(* Missing files.                                                          *)

(* A file that was not seen by a walk without a problem has been away, as  *)
(* soon as the walk has passed the place where it would be.                *)
WalkSound(s) ==
  /\ \A f \in File : scan[s].read[f].missing => disk[f].gone
  /\ At(s, "missing") => CompleteWalk(s)
  /\ (At(s, "walk") \/ At(s, "update") \/ At(s, "missing")) /\ CompleteWalk(s) =>
       \A f \in File \ Seen(s) :
         (At(s, "walk") /\ f \in scan[s].todo) \/ disk[f].gone

GoneInv ==
  /\ MissingOnlyIfGone
  /\ \A f \in File : disk[f].present \/ disk[f].gone
  /\ \A s \in Scanner : WalkSound(s)

(* A file that has been away remains one. *)
LEMMA GoneRemains ==
  ASSUME IInv, GoneInv, [Next]_vars
  PROVE  \A f \in File : /\ disk[f].gone => disk'[f].gone
                         /\ disk'[f].present \/ disk'[f].gone
<1> DEFINE Goal == \A f \in File : /\ disk[f].gone => disk'[f].gone
                                   /\ disk'[f].present \/ disk'[f].gone
<1>0. disk \in [File -> Disk] /\ \A f \in File : disk[f].present \/ disk[f].gone
  BY DEF IInv, TypeOK, Disk, GoneInv
<1>1. ASSUME disk' = disk PROVE Goal
  BY <1>0, <1>1
<1>2. ASSUME NEW f \in File, WriteFile(f) \/ MoveFile(f) \/ Settle(f) PROVE Goal
  BY <1>0, <1>2 DEF WriteFile, MoveFile, Settle, Disk
<1>3. QED
  BY <1>1, <1>2
  DEF Next, vars, ScanStep, ScanTrouble, Configure, EditDestination, EditRoute,
      ChangeTarget, QueueStep, Clock, FileSystem, Process, ClaimForScan,
      LoadSnapshots, LoadOpenTasks, Visit, EndWalk, UpdateSnapshots, EndUpdate,
      MarkMissing, CreateSnapshots, CreateTasks, FinishScan, RenewScanLease,
      WalkProblem, AbortScan, FinishScanFails, PauseFolder, ResumeFolder,
      ScanNow, Deliver, Succeed, Supersede, Stop, TaskEvent, LeaseLapses,
      NextScanDue, Shutdown, Exit, Crash, Restart

(* A record becomes missing only if the file has been away. *)
LEMMA RecordGone ==
  ASSUME IInv, GoneInv, [Next]_vars
  PROVE  \A f \in File : record'[f].missing => disk[f].gone
<1> DEFINE Goal == \A f \in File : record'[f].missing => disk[f].gone
<1>0. /\ record \in [File -> Snapshot] /\ \A f \in File : record[f].missing => disk[f].gone
      /\ \A s \in Scanner : WalkSound(s)
  BY DEF IInv, TypeOK, GoneInv, MissingOnlyIfGone
<1>1. ASSUME record' = record PROVE Goal
  BY <1>0, <1>1
<1>2. ASSUME NEW s \in Scanner, UpdateSnapshots(s) PROVE Goal
  BY <1>0, <1>2 DEF UpdateSnapshots, UpdatedSnapshot, WalkSound
<1>3. ASSUME NEW s \in Scanner, MarkMissing(s) PROVE Goal
  <2>1. \A f \in File \ Seen(s) : disk[f].gone
    BY <1>0, <1>3 DEF MarkMissing, WalkSound, At
  <2>2. QED
    BY <1>0, <1>3, <2>1 DEF MarkMissing, Known
<1>4. ASSUME NEW s \in Scanner, CreateSnapshots(s) PROVE Goal
  <2>1. \A f \in File : ~[NoSnapshot EXCEPT !.ver = scan[s].found[f], !.tgt = scan[s].tgt].missing
    BY DEF NoSnapshot
  <2>2. QED
    BY <1>0, <1>4, <2>1 DEF CreateSnapshots
<1>5. ASSUME NEW tgt \in Target, ChangeTarget(tgt) PROVE Goal
  <2>1. \A snapshot \in Snapshot : [snapshot EXCEPT !.uploaded = FALSE].missing = snapshot.missing
    BY DEF Snapshot, NoSnapshot
  <2>2. QED
    BY <1>0, <1>5, <2>1 DEF ChangeTarget
<1>6. ASSUME NEW key \in Key, Succeed(key) PROVE Goal
  <2>1. \A snapshot \in Snapshot : [snapshot EXCEPT !.uploaded = TRUE].missing = snapshot.missing
    BY DEF Snapshot, NoSnapshot
  <2>2. QED
    BY <1>0, <1>6, <2>1 DEF Succeed, Key
<1>7. QED
  BY <1>1, <1>2, <1>3, <1>4, <1>5, <1>6
  DEF Next, vars, ScanStep, ScanTrouble, Configure, EditDestination, EditRoute,
      QueueStep, Clock, FileSystem, Process, ClaimForScan, LoadSnapshots,
      LoadOpenTasks, Visit, EndWalk, EndUpdate, CreateTasks, FinishScan,
      WalkProblem, AbortScan, FinishScanFails, RenewScanLease, PauseFolder,
      ResumeFolder, ScanNow, Deliver, Supersede, Stop, TaskEvent, LeaseLapses,
      NextScanDue, Settle, WriteFile, MoveFile, Shutdown, Exit, Crash, Restart

LEMMA OwnWalkSound ==
  ASSUME IInv, GoneInv, [Next]_vars, NEW s \in Scanner,
         ScanStep(s) \/ ScanTrouble(s) \/ Crash(s)
  PROVE  WalkSound(s)'
<1> USE DEF WalkSound, At, CompleteWalk, Seen
<1>0. /\ scan \in [Scanner -> ScanState] /\ WalkSound(s)
      /\ \A f \in File : record[f].missing => disk[f].gone
      /\ \A f \in File : disk[f].present \/ disk[f].gone
      /\ \A f \in File : disk[f].gone => disk'[f].gone
  BY GoneRemains DEF IInv, TypeOK, GoneInv, MissingOnlyIfGone
<1>a. \A f \in File : ~IdleScan.read[f].missing
  BY DEF IdleScan, NoSnapshot
<1>1. CASE ClaimForScan(s)
  <2>1. scan'[s].pc = "records" /\ scan'[s].read = scan[s].read
    BY <1>0, <1>1 DEF ClaimForScan, ScanState
  <2>2. QED
    BY <1>0, <2>1
<1>2. CASE LoadSnapshots(s)
  <2>1. scan'[s].pc = "tasks" /\ scan'[s].read = record
    BY <1>0, <1>2 DEF LoadSnapshots, ScanState
  <2>2. QED
    BY <1>0, <2>1
<1>3. CASE LoadOpenTasks(s)
  <2>1. scan'[s].pc = "walk" /\ scan'[s].read = scan[s].read /\ scan'[s].todo = File
    BY <1>0, <1>3 DEF LoadOpenTasks, ScanState
  <2>2. QED
    BY <1>0, <2>1
<1>4. ASSUME NEW f \in File, Visit(s, f) PROVE WalkSound(s)'
  <2>1. /\ scan'[s].pc = "walk" /\ scan'[s].read = scan[s].read
        /\ scan'[s].todo = scan[s].todo \ {f} /\ scan'[s].result = scan[s].result
        /\ scan[s].pc = "walk"
    BY <1>0, <1>4 DEF Visit, ScanState
  <2>2. /\ \A g \in File \ {f} : scan'[s].found[g] = scan[s].found[g]
        /\ disk[f].present => scan'[s].found[f] = disk[f].ver
    BY <1>0, <1>4 DEF Visit, ScanState
  <2>3. disk[f].ver # 0
    BY DEF IInv, TypeOK, Version
  <2>4. ASSUME NEW g \in File, CompleteWalk(s)', scan'[s].found[g] = 0
        PROVE  g \in scan'[s].todo \/ disk'[g].gone
    <3>1. CASE g = f
      BY <1>0, <2>2, <2>3, <2>4, <3>1
    <3>2. CASE g # f
      BY <1>0, <2>1, <2>2, <2>4, <3>2
    <3>3. QED
      BY <3>1, <3>2
  <2>5. QED
    BY <1>0, <2>1, <2>4
<1>5. CASE EndWalk(s)
  <2>1. /\ scan'[s].pc = "update" /\ scan'[s].read = scan[s].read
        /\ scan'[s].found = scan[s].found /\ scan'[s].result = scan[s].result
        /\ scan[s].pc = "walk" /\ scan[s].todo = {}
    BY <1>0, <1>5 DEF EndWalk, ScanState
  <2>2. QED
    BY <1>0, <2>1
<1>6. CASE UpdateSnapshots(s)
  <2>1. PICK batch \in SUBSET scan[s].todo :
          scan' = [scan EXCEPT ![s].todo = @ \ batch]
    BY <1>6 DEF UpdateSnapshots
  <2>2. /\ scan'[s].pc = "update" /\ scan'[s].read = scan[s].read
        /\ scan'[s].found = scan[s].found /\ scan'[s].result = scan[s].result
        /\ scan[s].pc = "update"
    BY <1>0, <2>1, <1>6 DEF UpdateSnapshots, ScanState
  <2>3. QED
    BY <1>0, <2>2
<1>7. CASE EndUpdate(s)
  <2>1. /\ scan'[s].pc = IF CompleteWalk(s) THEN "missing" ELSE "create"
        /\ scan'[s].read = scan[s].read /\ scan'[s].found = scan[s].found
        /\ scan'[s].result = scan[s].result /\ scan[s].pc = "update"
    BY <1>0, <1>7 DEF EndUpdate, Goto, ScanState
  <2>2. QED
    BY <1>0, <2>1
<1>8. CASE MarkMissing(s)
  <2>1. scan'[s].pc = "create" /\ scan'[s].read = scan[s].read
    BY <1>0, <1>8 DEF MarkMissing, Goto, ScanState
  <2>2. QED
    BY <1>0, <2>1
<1>9. CASE CreateSnapshots(s)
  <2>1. scan'[s].pc = "insert" /\ scan'[s].read = IdleScan.read
    BY <1>0, <1>9 DEF CreateSnapshots, IdleScan
  <2>2. QED
    BY <1>a, <2>1
<1>10. CASE CreateTasks(s) \/ AbortScan(s)
  <2>1. PICK result : scan'[s] = [IdleScan EXCEPT !.pc = "finish", !.result = result]
    BY <1>0, <1>10 DEF CreateTasks, AbortScan, GoFinish
  <2>2. scan'[s].pc = "finish" /\ scan'[s].read = IdleScan.read
    BY <2>1 DEF IdleScan
  <2>3. QED
    BY <1>a, <2>2
<1>11. CASE FinishScan(s) \/ FinishScanFails(s) \/ Crash(s)
  <2>1. scan'[s] = IdleScan
    BY <1>0, <1>11 DEF FinishScan, FinishScanFails, Crash
  <2>2. IdleScan.pc = "idle"
    BY DEF IdleScan
  <2>3. QED
    BY <1>a, <2>1, <2>2
<1>12. CASE WalkProblem(s)
  <2>1. /\ scan'[s].pc = "walk" /\ scan'[s].read = scan[s].read
        /\ scan'[s].result = "error"
    BY <1>0, <1>12 DEF WalkProblem, ScanState
  <2>2. QED
    BY <1>0, <2>1
<1>13. QED
  BY <1>1, <1>2, <1>3, <1>4, <1>5, <1>6, <1>7, <1>8, <1>9, <1>10, <1>11, <1>12
  DEF ScanStep, ScanTrouble

LEMMA GoneInductive ==
  ASSUME IInv, GoneInv, [Next]_vars
  PROVE  GoneInv'
<1>1. ASSUME NEW s \in Scanner PROVE WalkSound(s)'
  <2>1. CASE scan'[s] = scan[s]
    BY <2>1, GoneRemains DEF GoneInv, WalkSound, At, CompleteWalk, Seen
  <2>2. CASE ScanStep(s) \/ ScanTrouble(s) \/ Crash(s)
    BY <2>2, OwnWalkSound
  <2>3. QED
    BY <2>1, <2>2, OneScanner
<1>2. QED
  BY <1>1, GoneRemains, RecordGone DEF GoneInv, MissingOnlyIfGone

(* Only a file that has been away is ever declared missing, however many   *)
(* scanners walk the folder, whatever they cannot read and wherever they   *)
(* are interrupted.                                                        *)
THEOREM MissingIsGone == Spec => []MissingOnlyIfGone
<1>1. Init => GoneInv
  <2> SUFFICES ASSUME Init PROVE GoneInv
    OBVIOUS
  <2>1. \A f \in File : disk[f].present /\ ~record[f].missing
    BY DEF Init, NoSnapshot
  <2>2. \A s \in Scanner : WalkSound(s)
    BY DEF Init, WalkSound, At, IdleScan, NoSnapshot
  <2>3. QED
    BY <2>1, <2>2 DEF GoneInv, MissingOnlyIfGone
<1>2. IInv /\ GoneInv /\ [Next]_vars => IInv' /\ GoneInv'
  BY Inductive, GoneInductive
<1>3. GoneInv => MissingOnlyIfGone
  BY DEF GoneInv
<1>4. QED
  BY <1>1, <1>2, <1>3, Initial, PTL DEF Spec
=============================================================================
