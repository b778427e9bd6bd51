----------------------------- MODULE WatchScan -----------------------------
(***************************************************************************)
(* One watch folder and the scanners of all instances that walk it         *)
(* (internal/scheduler/watch_folder_scanner.go): the scan lease in its     *)
(* watch_folders row, the snapshots and tasks a scan reads at its start    *)
(* and writes at its end, and what happens to them in between: workers     *)
(* that finish tasks, users who pause the folder or edit its destination,  *)
(* files that change, and instances that stop.                             *)
(*                                                                         *)
(* Folders share nothing a scan writes, as their directories must not      *)
(* overlap, so one folder stands for all.  The queue appears here by the   *)
(* effects TaskQueue shows it to have: a task is the row with its          *)
(* idempotency key, and the unique index makes that at most one.           *)
(***************************************************************************)
EXTENDS Naturals, FiniteSets

CONSTANTS
  Scanner,      (* Instances: each has one scanner, the lease owner.       *)
  NoScanner,
  File,         (* Regular files below the root that no filter excludes.   *)
  Target,       (* Destinations of the folder.                             *)
  FirstTarget,  (* The destination it is created with.                     *)
  NoTarget,
  MaxVersion,   (* Bound: versions a file goes through.                    *)
  TaskEvents,   (* What may befall tasks beside their upload.              *)
  Prompt        (* Are heartbeats in time, so that a lease lapses only     *)
                (* after its scan is over?                                 *)

ASSUME ScannerAssumption == NoScanner \notin Scanner
ASSUME TargetAssumption == FirstTarget \in Target /\ NoTarget \notin Target
ASSUME VersionAssumption == MaxVersion \in Nat \ {0}
ASSUME EventsAssumption == TaskEvents \subseteq {"fail", "cancel", "retry", "remove"}
ASSUME PromptAssumption == Prompt \in BOOLEAN

VARIABLES
  folder,       (* The watch_folders row.                                  *)
  disk,         (* disk[f]: the file; settled once its stable period is    *)
                (* over, gone (history) once it has ever been away.        *)
  record,       (* record[f]: its file_records row.                        *)
  task,         (* task[key]: the status of the upload_tasks row.          *)
  delivered,    (* History: keys whose file arrived at their target.       *)
  scan,         (* scan[s]: local state of scanOneFolder in instance s.    *)
  proc          (* proc[s]: is the process up, stopping or down.           *)

queueVars == <<task, delivered>>
vars == <<folder, disk, record, queueVars, scan, proc>>

Version == 1 .. MaxVersion
Key     == [file : File, ver : Version, tgt : Target]

(* "open" is pending, running or paused, "stopping" is running with a      *)
(* cancel request.                                                         *)
TaskStatus == {"none", "open", "stopping", "failed", "canceled", "success"}

(* "halted" is paused, stopped or disabled: every statement treats these   *)
(* alike.                                                                  *)
FolderStatus == {"watching", "detecting", "error", "halted"}

Pc == {"idle", "records", "tasks", "walk", "update", "missing", "create",
       "insert", "finish"}

NoSnapshot ==
  [ver |-> 0, tgt |-> NoTarget, uploaded |-> FALSE, missing |-> FALSE]

Snapshot ==
  {NoSnapshot} \cup
  [ver : Version, tgt : Target, uploaded : BOOLEAN, missing : BOOLEAN]

ScanState ==
  [pc : Pc, tgt : Target \cup {NoTarget}, read : [File -> Snapshot],
   open : SUBSET Key, todo : SUBSET File, found : [File -> Version \cup {0}],
   candidates : SUBSET Key, result : {"success", "error", "canceled"}]

IdleScan ==
  [pc |-> "idle", tgt |-> NoTarget, read |-> [f \in File |-> NoSnapshot],
   open |-> {}, todo |-> {}, found |-> [f \in File |-> 0],
   candidates |-> {},
   result |-> "success"]

TypeOK ==
  /\ folder \in [status : FolderStatus, tgt : Target,
                 owner : Scanner \cup {NoScanner},
                 lease : {"none", "live", "lapsed"}, due : BOOLEAN]
  /\ disk \in [File -> [ver : Version, present : BOOLEAN, settled : BOOLEAN,
                    gone : BOOLEAN]]
  /\ record \in [File -> Snapshot]
  /\ task \in [Key -> TaskStatus]
  /\ delivered \in SUBSET Key
  /\ scan \in [Scanner -> ScanState]
  /\ proc \in [Scanner -> {"up", "stopping", "down"}]

Init ==
  /\ folder = [status |-> "watching", tgt |-> FirstTarget,
               owner |-> NoScanner, lease |-> "none", due |-> TRUE]
  /\ disk = [f \in File |-> [ver |-> 1, present |-> TRUE, settled |-> FALSE,
                             gone |-> FALSE]]
  /\ record = [f \in File |-> NoSnapshot]
  /\ task = [key \in Key |-> "none"]
  /\ delivered = {}
  /\ scan = [s \in Scanner |-> IdleScan]
  /\ proc = [s \in Scanner |-> "up"]

-----------------------------------------------------------------------------
(* What a scan has learned about a file.                                   *)

At(s, pc) == scan[s].pc = pc

Working(s) == scan[s].pc \notin {"idle", "finish"}

KeyOf(f, ver, tgt) == [file |-> f, ver |-> ver, tgt |-> tgt]

Seen(s) == {f \in File : scan[s].found[f] # 0}

Known(s) == {f \in File : scan[s].read[f].ver # 0}

(* versionChanged or targetChanged: the uploaded mark has to go. *)
Outdated(s, f) ==
  \/ scan[s].read[f].ver # scan[s].found[f]
  \/ scan[s].read[f].tgt # scan[s].tgt

NewSnapshots(s) == Seen(s) \ Known(s)

(* Slip: records of files that were not seen are rewritten, too. *)
ChangedOrUnseen(s) == {f \in Known(s) : Outdated(s, f)}

(* Slip: a new version is not written to its record. *)
ChangedTargets(s) ==
  {f \in Seen(s) \cap Known(s) : scan[s].read[f].tgt # scan[s].tgt}

ChangedSnapshots(s) ==
  {f \in Seen(s) \cap Known(s) : Outdated(s, f) \/ scan[s].read[f].missing}

ClearUploaded(s) == {f \in Seen(s) \cap Known(s) : Outdated(s, f)}


(* A stable file that is neither uploaded nor in an open task. *)
Candidate(s, f) ==
  LET key == KeyOf(f, disk[f].ver, scan[s].tgt)
      was == scan[s].read[f]
  IN  /\ disk[f].settled
      /\ ~(was.uploaded /\ was.ver = key.ver /\ was.tgt = key.tgt)
      /\ key \notin scan[s].open

-----------------------------------------------------------------------------
(* The scan.                                                               *)

Goto(s, pc) == scan' = [scan EXCEPT ![s].pc = pc]

(* scanFolder returns; what it has read is of no use any more. *)
GoFinish(s, result) ==
  scan' = [scan EXCEPT ![s] = [IdleScan EXCEPT !.pc = "finish",
                                               !.result = result]]


DueForScan ==
  folder.status # "halted" /\ folder.due /\ folder.lease # "live"

(* ListEnabledForScan and ClaimForScan.  The claim fails unless updated_at *)
(* is still the one that was listed, so that the two are one step.         *)
ClaimForScan(s) ==
  /\ proc[s] = "up" /\ At(s, "idle") /\ DueForScan
  /\ folder' = [folder EXCEPT !.status = "detecting", !.owner = s,
                              !.lease = "live"]
  /\ scan' = [scan EXCEPT ![s].pc = "records", ![s].tgt = folder.tgt]
  /\ UNCHANGED <<disk, record, queueVars, proc>>

(* ListForWatchFolder *)
LoadSnapshots(s) ==
  /\ At(s, "records")
  /\ scan' = [scan EXCEPT ![s].pc = "tasks", ![s].read = record]
  /\ UNCHANGED <<folder, disk, record, queueVars, proc>>

(* ListOpenByWatchFolder: a failed task is open as well. *)
LoadOpenTasks(s) ==
  /\ At(s, "tasks")
  /\ scan' = [scan EXCEPT ![s].pc = "walk", ![s].todo = File,
                          ![s].open = {key \in Key : task[key] \in
                                         {"open", "stopping", "failed"}}]
  /\ UNCHANGED <<folder, disk, record, queueVars, proc>>

(* The callback of WalkDir, in the order of the directory. *)
Visit(s, f) ==
  /\ At(s, "walk") /\ f \in scan[s].todo
  /\ scan' =
       IF disk[f].present
         THEN [scan EXCEPT ![s] =
                 [scan[s] EXCEPT
                    !.todo = @ \ {f}, !.found[f] = disk[f].ver,
                    !.candidates =
                      IF Candidate(s, f)
                        THEN @ \cup {KeyOf(f, disk[f].ver, scan[s].tgt)} ELSE @]]
         ELSE [scan EXCEPT ![s].todo = @ \ {f}]
  /\ UNCHANGED <<folder, disk, record, queueVars, proc>>

(* A file, a directory or the root that cannot be read: what is in it is   *)
(* not seen, and the scan is not complete.                                 *)
WalkProblem(s) ==
  /\ At(s, "walk")
  /\ \E unreadable \in SUBSET scan[s].todo \ {{}} :
       scan' = [scan EXCEPT ![s].todo = @ \ unreadable, ![s].result = "error"]
  /\ UNCHANGED <<folder, disk, record, queueVars, proc>>

EndWalk(s) ==
  /\ At(s, "walk") /\ scan[s].todo = {}
  /\ scan' = [scan EXCEPT ![s].pc = "update", ![s].todo = ChangedSnapshots(s),
                          ![s].open = {}]
  /\ UNCHANGED <<folder, disk, record, queueVars, proc>>

(* Slip: the mark of the old version or destination stays. *)
KeptMark(s, f) == record[f].uploaded

(* The columns UpdateSnapshots writes do not include uploaded_at: a mark   *)
(* is cleared when what was read is outdated, and left alone otherwise.    *)
(* missing_at is written as it was read.                                   *)
UploadedMark(s, f) == record[f].uploaded /\ f \notin ClearUploaded(s)

UpdatedSnapshot(s, f) ==
  [ver |-> scan[s].found[f], tgt |-> scan[s].tgt,
   uploaded |-> UploadedMark(s, f), missing |-> scan[s].read[f].missing]

(* One transaction of UpdateSnapshots, with a batch of any size. *)
UpdateSnapshots(s) ==
  /\ At(s, "update")
  /\ \E batch \in SUBSET scan[s].todo \ {{}} :
       /\ record' = [f \in File |-> IF f \in batch THEN UpdatedSnapshot(s, f)
                                                   ELSE record[f]]
       /\ scan' = [scan EXCEPT ![s].todo = @ \ batch]
  /\ UNCHANGED <<folder, disk, queueVars, proc>>

(* Slip: whatever a walk has not seen is taken for missing. *)
AnyWalk(s) == At(s, "update")

CompleteWalk(s) == scan[s].result = "success"

EndUpdate(s) ==
  /\ At(s, "update") /\ scan[s].todo = {}
  /\ Goto(s, IF CompleteWalk(s) THEN "missing" ELSE "create")
  /\ UNCHANGED <<folder, disk, record, queueVars, proc>>

(* MarkMissing, only after a walk without a problem. *)
MarkMissing(s) ==
  /\ At(s, "missing")
  /\ record' = [f \in File |->
                  IF f \in Known(s) \ Seen(s) /\ ~scan[s].read[f].missing
                    THEN [record[f] EXCEPT !.missing = TRUE] ELSE record[f]]
  /\ Goto(s, "create")
  /\ UNCHANGED <<folder, disk, queueVars, proc>>

(* CreateSnapshots: the unique index drops rows another scanner inserted. *)
CreateSnapshots(s) ==
  /\ At(s, "create")
  /\ record' = [f \in File |->
                  IF f \in NewSnapshots(s) /\ record[f].ver = 0
                    THEN [NoSnapshot EXCEPT !.ver = scan[s].found[f],
                                            !.tgt = scan[s].tgt]
                    ELSE record[f]]
  /\ scan' = [scan EXCEPT ![s] = [IdleScan EXCEPT !.pc = "insert",
                 !.result = scan[s].result, !.candidates = scan[s].candidates]]
  /\ UNCHANGED <<folder, disk, queueVars, proc>>

(* Slip: the insert replaces a row that has ended. *)
ReplaceEnded(key) == task[key] \in {"none", "canceled", "success"}

(* The unique index on idempotency_key drops the others. *)
Insertable(key) == task[key] = "none"

(* CreateManyIfAbsent *)
CreateTasks(s) ==
  /\ At(s, "insert")
  /\ task' = [key \in Key |->
                IF key \in scan[s].candidates /\ Insertable(key)
                  THEN "open" ELSE task[key]]
  /\ GoFinish(s, scan[s].result)
  /\ UNCHANGED <<folder, disk, record, delivered, proc>>

(* Slip: the scan forgets that it was paused. *)
ForcedStatus(s) == IF scan[s].result = "error" THEN "error" ELSE "watching"

FinalStatus(s) ==
  IF folder.status = "halted" THEN "halted"
  ELSE IF scan[s].result = "error" THEN "error" ELSE "watching"

(* FinishScan, WHERE scan_lease_owner = owner.  A scan that a shutdown has *)
(* cut short stays due.                                                    *)
FinishScan(s) ==
  /\ At(s, "finish")
  /\ folder' = IF folder.owner = s
                 THEN [folder EXCEPT !.status = FinalStatus(s),
                                     !.owner = NoScanner, !.lease = "none",
                                     !.due = scan[s].result = "canceled"]
                 ELSE folder
  /\ scan' = [scan EXCEPT ![s] = IdleScan]
  /\ UNCHANGED <<disk, record, queueVars, proc>>

(* The database does not answer within the five seconds FinishScan has. *)
FinishScanFails(s) ==
  /\ At(s, "finish")
  /\ scan' = [scan EXCEPT ![s] = IdleScan]
  /\ UNCHANGED <<folder, disk, record, queueVars, proc>>

(* The context of the scan ends, by timeout, by a heartbeat that found the *)
(* lease lost, or by a shutdown, or a database call fails: scanFolder      *)
(* returns and keeps what it has written.                                  *)
AbortScan(s) ==
  /\ Working(s)
  /\ GoFinish(s, IF proc[s] = "stopping" THEN "canceled" ELSE "error")
  /\ UNCHANGED <<folder, disk, record, queueVars, proc>>

RenewScanLease(s) ==
  /\ Working(s) /\ folder.status = "detecting" /\ folder.owner = s
  /\ folder' = [folder EXCEPT !.lease = "live"]
  /\ UNCHANGED <<disk, record, queueVars, scan, proc>>

-----------------------------------------------------------------------------
(* Configuration of the folder.  Update writes only if updated_at is the   *)
(* one it has read, and always makes the folder due.                       *)

PauseFolder ==
  /\ folder' = [folder EXCEPT !.status = "halted", !.due = TRUE]
  /\ UNCHANGED <<disk, record, queueVars, scan, proc>>

(* A change of the status alone is accepted during a scan as well. *)
ResumeFolder ==
  /\ folder' = [folder EXCEPT !.status = "watching", !.due = TRUE]
  /\ UNCHANGED <<disk, record, queueVars, scan, proc>>

(* Marks of the old destination are void; running tasks are asked to stop, *)
(* queued ones are cancelled.                                              *)
ChangeTarget(tgt) ==
  /\ tgt # folder.tgt
  /\ folder' = [folder EXCEPT !.tgt = tgt, !.due = TRUE]
  /\ record' = [f \in File |-> [record[f] EXCEPT !.uploaded = FALSE]]
  /\ \E running \in SUBSET {key \in Key : task[key] = "open"} :
       task' = [key \in Key |->
                  CASE key \in running -> "stopping"
                    [] key \notin running /\ task[key] \in {"open", "failed"}
                       -> "canceled"
                    [] OTHER -> task[key]]
  /\ UNCHANGED <<disk, delivered, scan, proc>>

(* WatchFolderService.Update refuses whatever the lease says. *)
EditDestination(tgt) == folder.status # "detecting" /\ ChangeTarget(tgt)

(* RemoteRouteRepository.Update looks at the lease, too. *)
EditRoute(tgt) ==
  ~(folder.status = "detecting" /\ folder.lease # "lapsed") /\ ChangeTarget(tgt)

(* ScheduleAllEnabledNow *)
ScanNow ==
  /\ folder.status # "halted"
  /\ folder' = [folder EXCEPT !.due = TRUE]
  /\ UNCHANGED <<disk, record, queueVars, scan, proc>>

-----------------------------------------------------------------------------
(* The queue, by its effects.                                              *)

Matches(key) == disk[key.file].present /\ disk[key.file].ver = key.ver

SetTask(key, status) == task' = [task EXCEPT ![key] = status]

Deliver(key) ==
  /\ task[key] \in {"open", "stopping"} /\ Matches(key)
  /\ delivered' = delivered \cup {key}
  /\ UNCHANGED <<folder, disk, record, task, scan, proc>>

(* Slip: the mark does not look at the destination. *)
SameVersion(key) == record[key.file].ver = key.ver

SameSnapshot(key) ==
  record[key.file].ver = key.ver /\ record[key.file].tgt = key.tgt

(* FinishSuccess *)
Succeed(key) ==
  /\ task[key] = "open" /\ key \in delivered
  /\ SetTask(key, "success")
  /\ record' = IF SameSnapshot(key)
                 THEN [record EXCEPT ![key.file].uploaded = TRUE] ELSE record
  /\ UNCHANGED <<folder, disk, delivered, scan, proc>>

(* The file has changed, or it is gone when the finished copy is verified; *)
(* one that is gone before the copy leaves the task in the queue.          *)
Supersede(key) ==
  /\ task[key] = "open"
  /\ \/ disk[key.file].ver # key.ver
     \/ ~disk[key.file].present /\ key \in delivered
  /\ SetTask(key, "canceled")
  /\ UNCHANGED <<folder, disk, record, delivered, scan, proc>>

Stop(key) ==
  /\ task[key] = "stopping"
  /\ SetTask(key, "canceled")
  /\ UNCHANGED <<folder, disk, record, delivered, scan, proc>>

(* Attempts are used up, or somebody uses the task API or the retention    *)
(* period is over.                                                         *)
TaskEvent(key) ==
  /\ \/ /\ "fail" \in TaskEvents /\ task[key] = "open"
        /\ SetTask(key, "failed")
     \/ /\ "cancel" \in TaskEvents /\ task[key] \in {"open", "failed"}
        /\ \/ SetTask(key, "canceled")
           \/ task[key] = "open" /\ SetTask(key, "stopping")
     \/ /\ "retry" \in TaskEvents /\ task[key] \in {"failed", "canceled"}
        /\ SetTask(key, "open")
     \/ /\ "remove" \in TaskEvents /\ task[key] \notin {"none", "stopping"}
        /\ SetTask(key, "none")
  /\ UNCHANGED <<folder, disk, record, delivered, scan, proc>>

-----------------------------------------------------------------------------
(* Clock, file system and processes.                                       *)

LeaseLapses ==
  /\ folder.lease = "live"
  /\ Prompt => At(folder.owner, "idle")
  /\ folder' = [folder EXCEPT !.lease = "lapsed"]
  /\ UNCHANGED <<disk, record, queueVars, scan, proc>>

NextScanDue ==
  /\ ~folder.due
  /\ folder' = [folder EXCEPT !.due = TRUE]
  /\ UNCHANGED <<disk, record, queueVars, scan, proc>>

(* fileVersionStable becomes true for the version. *)
Settle(f) ==
  /\ ~disk[f].settled
  /\ disk' = [disk EXCEPT ![f].settled = TRUE]
  /\ UNCHANGED <<folder, record, queueVars, scan, proc>>

WriteFile(f) ==
  /\ disk[f].ver < MaxVersion
  /\ disk' = [disk EXCEPT ![f].ver = @ + 1, ![f].present = TRUE,
                          ![f].settled = FALSE]
  /\ UNCHANGED <<folder, record, queueVars, scan, proc>>

(* The file or its directory goes away and comes back. *)
MoveFile(f) ==
  /\ disk' = [disk EXCEPT ![f].present = ~@, ![f].gone = TRUE]
  /\ UNCHANGED <<folder, record, queueVars, scan, proc>>

Shutdown(s) ==
  /\ proc[s] = "up"
  /\ proc' = [proc EXCEPT ![s] = "stopping"]
  /\ UNCHANGED <<folder, disk, record, queueVars, scan>>

Exit(s) ==
  /\ proc[s] = "stopping" /\ At(s, "idle")
  /\ proc' = [proc EXCEPT ![s] = "down"]
  /\ UNCHANGED <<folder, disk, record, queueVars, scan>>

Crash(s) ==
  /\ proc[s] # "down"
  /\ proc' = [proc EXCEPT ![s] = "down"]
  /\ scan' = [scan EXCEPT ![s] = IdleScan]
  /\ UNCHANGED <<folder, disk, record, queueVars>>

(* Slip: the owner stays behind without a lease. *)
RepairedStatus ==
  [folder EXCEPT !.status = "error", !.lease = "none", !.due = TRUE]

RepairedFolder ==
  [folder EXCEPT !.status = "error", !.owner = NoScanner, !.lease = "none",
                 !.due = TRUE]

(* FixStatusesOnStartup *)
Restart(s) ==
  /\ proc[s] = "down"
  /\ proc' = [proc EXCEPT ![s] = "up"]
  /\ folder' = IF folder.status = "detecting" /\ folder.lease # "live"
                 THEN RepairedFolder ELSE folder
  /\ UNCHANGED <<disk, record, queueVars, scan>>

-----------------------------------------------------------------------------
ScanStep(s) ==
  \/ ClaimForScan(s)
  \/ LoadSnapshots(s)
  \/ LoadOpenTasks(s)
  \/ \E f \in File : Visit(s, f)
  \/ EndWalk(s)
  \/ UpdateSnapshots(s)
  \/ EndUpdate(s)
  \/ MarkMissing(s)
  \/ CreateSnapshots(s)
  \/ CreateTasks(s)
  \/ FinishScan(s)

ScanTrouble(s) ==
  \/ WalkProblem(s)
  \/ AbortScan(s)
  \/ FinishScanFails(s)

Configure ==
  \/ PauseFolder
  \/ ResumeFolder
  \/ \E tgt \in Target : EditDestination(tgt) \/ EditRoute(tgt)
  \/ ScanNow

QueueStep(key) ==
  \/ key \notin delivered /\ Deliver(key)
  \/ Succeed(key)
  \/ Supersede(key)
  \/ Stop(key)

Clock == LeaseLapses \/ NextScanDue \/ \E f \in File : Settle(f)

FileSystem(f) == WriteFile(f) \/ MoveFile(f)

Process(s) == Shutdown(s) \/ Exit(s) \/ Crash(s) \/ Restart(s)

Next ==
  \/ \E s \in Scanner : ScanStep(s) \/ RenewScanLease(s) \/ ScanTrouble(s)
  \/ Configure
  \/ \E key \in Key : QueueStep(key) \/ TaskEvent(key)
  \/ Clock
  \/ \E f \in File : FileSystem(f)
  \/ \E s \in Scanner : Process(s)

Spec == Init /\ [][Next]_vars

-----------------------------------------------------------------------------
(* Safety.                                                                 *)

(* The scan lease has an owner for as long as it exists, and a folder that *)
(* is being scanned has a lease: the clauses for a folder that is          *)
(* "detecting" without one (task_init_service.go, route edits) guard       *)
(* against nothing that happens.                                           *)
LeaseConsistent ==
  /\ folder.owner = NoScanner <=> folder.lease = "none"
  /\ folder.status = "detecting" => folder.owner # NoScanner

(* A snapshot that is marked uploaded has been uploaded in this version to *)
(* this destination, although scans write what they decided on older reads *)
(* while workers set marks and edits void them.                            *)
MarkDelivered ==
  \A f \in File :
    record[f].uploaded => KeyOf(f, record[f].ver, record[f].tgt) \in delivered

(* A version gets into its snapshot before it gets a task; otherwise the   *)
(* success of the task would find the old version and leave no mark.       *)
SnapshotFirst ==
  \A key \in Key : task[key] # "none" => record[key.file].ver >= key.ver

(* Only a file that has been away is ever declared missing: one that a     *)
(* scan could not see for another reason is not.                           *)
MissingOnlyIfGone == \A f \in File : record[f].missing => disk[f].gone

(* No scan puts an older version back into a snapshot.                     *)
SnapshotAdvances == [][\A f \in File : record'[f].ver >= record[f].ver]_vars

(* A folder that was paused, stopped or disabled stays so until the user   *)
(* resumes it: no scan, scheduler or restart brings it back.               *)
HaltSticks ==
  [][folder.status = "halted" =>
       \/ folder'.status = "halted"
       \/ folder' = [folder EXCEPT !.status = "watching", !.due = TRUE]
            /\ UNCHANGED <<disk, record, queueVars, scan, proc>>]_vars

(* What is marked as uploaded is not queued again, although a scan reads   *)
(* snapshots and tasks at different times and uses them later.  (It may be *)
(* once somebody has removed the task.)                                    *)
NoSecondUpload ==
  [][\A key \in Key :
       task[key] # "open" /\ task'[key] = "open" =>
         ~(record[key.file].uploaded /\ SameSnapshot(key))]_vars

-----------------------------------------------------------------------------
(* Two promises the code does not keep (README, Divergences).              *)

(* file_record.go: missing_at says that the last complete scan found the   *)
(* file gone.  Once a complete walk has written its snapshots, no file it  *)
(* has seen is recorded as missing.                                        *)
SeenNotMissing ==
  \A s \in Scanner :
    At(s, "missing") => \A f \in Seen(s) : ~record[f].missing

(* The configuration does not change during an active scan.                *)
Scanning(s) == Working(s) /\ folder.owner = s /\ folder.lease = "live"

TargetFixedInScan ==
  [][(\E s \in Scanner : Scanning(s)) => folder'.tgt = folder.tgt]_vars

-----------------------------------------------------------------------------
(* Liveness.                                                               *)

(* Every instance polls, every call of a scan returns, time passes,        *)
(* workers take what is queued, and instances are restarted.               *)
Fairness ==
  /\ \A s \in Scanner : WF_vars(ScanStep(s)) /\ WF_vars(Exit(s)) /\ WF_vars(Restart(s))
  /\ \A key \in Key : WF_vars(QueueStep(key))
  /\ \A f \in File : WF_vars(Settle(f))
  /\ WF_vars(LeaseLapses) /\ WF_vars(NextScanDue)

FairSpec == Spec /\ Fairness

Undisturbed ==
  \/ \E s \in Scanner : ScanStep(s) \/ RenewScanLease(s) \/ Exit(s) \/ Restart(s)
  \/ \E key \in Key : QueueStep(key)
  \/ Clock

Calm == <>[][Undisturbed]_vars


CurrentKey(f) == KeyOf(f, disk[f].ver, folder.tgt)

Uploaded(f) == record[f].uploaded /\ SameSnapshot(CurrentKey(f))


(* The same without the way out: if nobody cancels and nothing fails, the  *)
(* file gets uploaded.  A third promise that is not kept: the row of a     *)
(* cancelled task keeps its key.                                           *)
EventuallyUploaded ==
  Calm => \A f \in File :
    <>[](disk[f].present /\ folder.status # "halted" => Uploaded(f))
=============================================================================
