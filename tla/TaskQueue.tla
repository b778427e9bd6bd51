----------------------------- MODULE TaskQueue -----------------------------
(***************************************************************************)
(* The upload queue: the upload_tasks table, the worker goroutines that    *)
(* lease its rows (internal/worker/queue.go), the API calls that control   *)
(* tasks (internal/service/upload_service.go), the maintenance loop, and   *)
(* the crashes, shutdowns and restarts of the instances.                   *)
(*                                                                         *)
(* Every action that touches rows is one database transaction or one       *)
(* autocommitted statement.  Time is abstracted: a lease may lapse at any  *)
(* moment, because a stalled process, a slow copy of a database call or a  *)
(* partition can outlast it, so nothing here rests on heartbeats being on  *)
(* time (WorkerLease looks at the clock).  rclone may end a copy at any    *)
(* moment with either result, which covers the task timeout and the        *)
(* cancellation of its context.                                            *)
(***************************************************************************)
EXTENDS TaskRow, FiniteSets

CONSTANTS
  Instance,     (* Application processes that share the database.          *)
  Home,         (* Home[k] is the instance worker k is a goroutine of.     *)
  Task,         (* Row ids. Bound: how many tasks are ever created.        *)
  NoTask,
  Client,       (* Concurrent CreateTask requests.                         *)
  NoTarget

ASSUME HomeAssumption == Home \in [Worker -> Instance]
ASSUME NoTaskAssumption == NoTask \notin Task
ASSUME NoTargetAssumption == NoTarget \notin Target

VARIABLES
  row,          (* row[t]: the upload_tasks row with id t.                 *)
  wk,           (* wk[k]: local state of worker k in processClaimed.       *)
  inst,         (* inst[i]: is the process up, shutting down, or down.     *)
  disk,         (* disk[f]: the local file.                                *)
  record,       (* record[f]: its file_records row.                        *)
  req,          (* req[c]: a CreateTask call in progress.                  *)
  delivered     (* History: keys whose file arrived whole at their target. *)

vars == <<row, wk, inst, disk, record, req, delivered>>

Pc == {"idle", "claimed", "copying", "copied", "verify", "succeed",
       "invalid", "unreadable", "fail", "cancel", "release", "requeue"}

(* The worker is about to make the call that ends its attempt. *)
FinishPc == {"succeed", "invalid", "unreadable", "fail", "cancel", "release",
             "requeue"}

IdleWorker ==
  [pc |-> "idle", task |-> NoTask, ok |-> FALSE, lost |-> FALSE,
   clean |-> TRUE]

IdleRequest ==
  [pc |-> "idle", key |-> NoKey, known |-> FALSE, clear |-> FALSE]

NoRecord == [ver |-> 0, tgt |-> NoTarget, uploaded |-> FALSE]

WorkerState ==
  [pc : Pc, task : Task \cup {NoTask}, ok : BOOLEAN, lost : BOOLEAN,
   clean : BOOLEAN]

Snapshot ==
  [ver : Version \cup {0}, tgt : Target \cup {NoTarget}, uploaded : BOOLEAN]

Request ==
  [pc : {"idle", "read", "write", "insert"}, key : Key \cup {NoKey},
   known : BOOLEAN, clear : BOOLEAN]

TypeOK ==
  /\ row \in [Task -> Row]
  /\ wk \in [Worker -> WorkerState]
  /\ inst \in [Instance -> {"up", "stopping", "down"}]
  /\ disk \in [File -> [ver : Version, present : BOOLEAN]]
  /\ record \in [File -> Snapshot]
  /\ req \in [Client -> Request]
  /\ delivered \in SUBSET Key

Init ==
  /\ row = [t \in Task |-> UnusedRow]
  /\ wk = [k \in Worker |-> IdleWorker]
  /\ inst = [i \in Instance |-> "up"]
  /\ disk = [f \in File |-> [ver |-> 1, present |-> TRUE]]
  /\ record = [f \in File |-> NoRecord]
  /\ req = [c \in Client |-> IdleRequest]
  /\ delivered = {}

-----------------------------------------------------------------------------
(* Helpers.                                                                *)

Up(k) == inst[Home[k]] = "up"

MyRow(k) == row[wk[k].task]

MyKey(k) == MyRow(k).key

At(k, pc) == wk[k].pc = pc

(* The result of the copy is dead once the next step is chosen. *)
Goto(k, pc) ==
  wk' = [wk EXCEPT ![k] = [IdleWorker EXCEPT !.pc = pc, !.task = wk[k].task]]

(* processClaimed returns and the worker loop continues. *)
Done(k) == wk' = [wk EXCEPT ![k] = IdleWorker]

(* Slip: a file that is still there is taken for unchanged. *)
MatchesIfPresent(key) == disk[key.file].present

(* Does the file still have the version the task was created for?  A stat  *)
(* error counts as no.                                                     *)
Matches(key) ==
  /\ disk[key.file].present
  /\ disk[key.file].ver = key.ver

(* UPDATE ... WHERE id = t AND guard; a statement that matches no row      *)
(* changes nothing.                                                        *)
UpdateRow(t, guard, new) ==
  row' = [row EXCEPT ![t] = IF guard THEN new ELSE @]

-----------------------------------------------------------------------------
(* Claiming.                                                               *)

(* ClaimNext: finalize, select, lease, all in one transaction.  When the   *)
(* select finds nothing the transaction is rolled back, and with it the    *)
(* finalization, so that a poll of such a table is no step at all.  SKIP   *)
(* LOCKED lets a claim pass over the first row while another transaction   *)
(* holds it, so any claimable row may be the one taken.                    *)

(* Slip: leases that have lapsed are forgotten. *)
ClaimQueuedRow(k, t) ==
  LET fin == [u \in Task |-> Finalized(row[u])]
  IN  /\ Claimable(fin[t]) /\ fin[t].status = "pending"
      /\ row' = [fin EXCEPT ![t] = Claimed(@, k)]

(* Slip: nothing is finalized, and a takeover does not count the attempts. *)
ClaimAnyRow(k, t) ==
  /\ ~row[t].cancel
  /\ \/ row[t].status = "pending" /\ row[t].due
     \/ row[t].status = "running" /\ Lapsed(row[t])
  /\ row' = [row EXCEPT ![t] = Claimed(@, k)]

ClaimRow(k, t) ==
  LET fin == [u \in Task |-> Finalized(row[u])]
  IN  /\ Claimable(fin[t])
      /\ row' = [fin EXCEPT ![t] = Claimed(@, k)]

ClaimNext(k) ==
  /\ At(k, "idle") /\ Up(k)
  /\ \E t \in Task :
       /\ ClaimRow(k, t)
       /\ wk' = [wk EXCEPT ![k] = [IdleWorker EXCEPT !.pc = "claimed",
                                                     !.task = t]]
  /\ UNCHANGED <<inst, disk, record, req, delivered>>

(* The commit of a claim reports an error although it took effect: the     *)
(* worker goes back to polling and leaves a leased row behind.             *)
ClaimUnnoticed(k) ==
  /\ At(k, "idle") /\ Up(k)
  /\ \E t \in Task : ClaimRow(k, t)
  /\ UNCHANGED <<wk, inst, disk, record, req, delivered>>

-----------------------------------------------------------------------------
(* processClaimed.                                                         *)

(* validateClaimedTask or the resource policy rejects the task. *)
RejectTask(k) ==
  /\ At(k, "claimed")
  /\ Goto(k, "invalid")
  /\ UNCHANGED <<row, inst, disk, record, req, delivered>>

StatFails(k) ==
  /\ At(k, "claimed")
  /\ ~disk[MyKey(k).file].present
  /\ Goto(k, "unreadable")
  /\ UNCHANGED <<row, inst, disk, record, req, delivered>>

(* The fingerprint is compared before the copy starts. *)
StartCopy(k) ==
  /\ At(k, "claimed")
  /\ disk[MyKey(k).file].present
  /\ Goto(k, IF Matches(MyKey(k)) THEN "copying" ELSE "cancel")
  /\ UNCHANGED <<row, inst, disk, record, req, delivered>>

(* The heartbeat goroutine renews the lease, even one that has lapsed.     *)
RenewLease(k) ==
  /\ At(k, "copying") /\ ~wk[k].lost
  /\ OwnedUncanceled(MyRow(k), k)
  /\ row' = [row EXCEPT ![wk[k].task] = Renewed(@)]
  /\ UNCHANGED <<wk, inst, disk, record, req, delivered>>

(* The renewal finds no active lease, or it has failed for so long that    *)
(* the next try would come after the deadline: the copy is stopped and its *)
(* result will be thrown away.                                             *)
LoseLease(k) ==
  /\ At(k, "copying") /\ ~wk[k].lost
  /\ wk' = [wk EXCEPT ![k].lost = TRUE]
  /\ UNCHANGED <<row, inst, disk, record, req, delivered>>

(* rclone returns.  What arrives is the version that is on the disk, and   *)
(* it arrives whole if it did not change meanwhile.                        *)
CopyReturns(k) ==
  /\ At(k, "copying")
  /\ \E ok \in BOOLEAN :
       /\ wk' = [wk EXCEPT ![k].pc = "copied", ![k].ok = ok,
                           ![k].clean = TRUE]
       /\ delivered' = delivered \cup
            {key \in Key : /\ ok /\ wk[k].clean
                          /\ key.file = MyKey(k).file
                          /\ key.tgt = MyKey(k).tgt
                          /\ key.ver = disk[key.file].ver}
  /\ UNCHANGED <<row, inst, disk, record, req>>

CancellationRequested(r) == r.status = "canceled" \/ r.cancel

(* What to do with the result, in the order of the code: a cancellation    *)
(* first (a failed look at the row counts as none), then a shutdown, then  *)
(* a lost lease, then the result itself.                                   *)
AfterCopy(k, canceled) ==
  CASE canceled                                -> "cancel"
    [] ~canceled /\ ~Up(k)                     -> "release"
    [] ~canceled /\ Up(k) /\ wk[k].lost        -> "idle"
    [] ~canceled /\ Up(k) /\ ~wk[k].lost /\ wk[k].ok -> "verify"
    [] OTHER                                   -> "fail"

CheckResult(k) ==
  /\ At(k, "copied")
  /\ \E canceled \in {CancellationRequested(MyRow(k)), FALSE} :
       LET next == AfterCopy(k, canceled)
       IN  IF next = "idle" THEN Done(k) ELSE Goto(k, next)
  /\ UNCHANGED <<row, inst, disk, record, req, delivered>>

(* verifyTaskFileFingerprint after a successful copy. *)
VerifyFile(k) ==
  /\ At(k, "verify")
  /\ Goto(k, IF Matches(MyKey(k)) THEN "succeed" ELSE "cancel")
  /\ UNCHANGED <<row, inst, disk, record, req, delivered>>

-----------------------------------------------------------------------------
(* The transitions that end an attempt.                                    *)

(* Slip: the destination of the snapshot is not compared. *)
SameVersion(rec, key) == rec.ver = key.ver

SameSnapshot(rec, key) == rec.ver = key.ver /\ rec.tgt = key.tgt

(* Slip: the mark is set whether or not the row was still this worker's. *)
ConfirmsAnyway(k) == SameSnapshot(record[MyKey(k).file], MyKey(k))

Confirms(k) ==
  /\ OwnedUncanceled(MyRow(k), k)
  /\ SameSnapshot(record[MyKey(k).file], MyKey(k))

(* FinishSuccess: the row and the uploaded mark in one transaction. *)
FinishSuccess(k) ==
  /\ At(k, "succeed")
  /\ UpdateRow(wk[k].task, OwnedUncanceled(MyRow(k), k), Succeeded(MyRow(k)))
  /\ record' = [record EXCEPT ![MyKey(k).file].uploaded = @ \/ Confirms(k)]
  /\ Done(k)
  /\ UNCHANGED <<inst, disk, req, delivered>>

FinishCanceled(k) ==
  /\ At(k, "cancel")
  /\ UpdateRow(wk[k].task, OwnedBy(MyRow(k), k), Canceled(MyRow(k)))
  /\ Done(k)
  /\ UNCHANGED <<inst, disk, record, req, delivered>>

(* A task that fails before its copy is ended with the context of the      *)
(* process, so that this fails during a shutdown; a failed copy has a      *)
(* context of its own.                                                     *)
FailedEarly(k) == wk[k].pc \in {"invalid", "unreadable"}

FailOrRetry(k) ==
  /\ At(k, "fail") \/ (FailedEarly(k) /\ Up(k))
  /\ UpdateRow(wk[k].task, OwnedBy(MyRow(k), k), AfterFailure(MyRow(k)))
  /\ Done(k)
  /\ UNCHANGED <<inst, disk, record, req, delivered>>

FailInShutdown(k) ==
  /\ FailedEarly(k) /\ ~Up(k)
  /\ Done(k)
  /\ UNCHANGED <<row, inst, disk, record, req, delivered>>

(* ReleaseLease is two statements: finalize a cancellation, or else put    *)
(* the task back.                                                          *)
ReleaseCanceled(k) ==
  LET canceled == OwnedBy(MyRow(k), k) /\ MyRow(k).cancel
  IN  /\ At(k, "release")
      /\ UpdateRow(wk[k].task, canceled, Canceled(MyRow(k)))
      /\ IF canceled THEN Done(k) ELSE Goto(k, "requeue")
      /\ UNCHANGED <<inst, disk, record, req, delivered>>

ReleaseLease(k) ==
  /\ At(k, "requeue")
  /\ UpdateRow(wk[k].task, OwnedUncanceled(MyRow(k), k), Released(MyRow(k)))
  /\ Done(k)
  /\ UNCHANGED <<inst, disk, record, req, delivered>>

(* The call that ends the attempt fails: it is logged, not retried, and    *)
(* the row stays running under a lease nobody renews any more.             *)
FinishFails(k) ==
  /\ wk[k].pc \in FinishPc
  /\ Done(k)
  /\ UNCHANGED <<row, inst, disk, record, req, delivered>>

-----------------------------------------------------------------------------
(* Control of tasks by the API and the maintenance loop.  Each service     *)
(* function reads the row, may refuse, and then runs a conditional         *)
(* statement that looks again; only the statement decides.                 *)

TaskControl(t, guard, new) ==
  /\ guard
  /\ row' = [row EXCEPT ![t] = new]
  /\ UNCHANGED <<wk, inst, disk, record, req, delivered>>

RequestCancel(t) == TaskControl(t, Exists(row[t]), CancelRequested(row[t]))

ResetForRetry(t) == TaskControl(t, Resettable(row[t]), Reset(row[t]))

PauseTask(t) == TaskControl(t, Pausable(row[t]), Paused(row[t]))

DeleteTask(t) == TaskControl(t, Deletable(row[t]), Removed(row[t]))

CleanupTask(t) == TaskControl(t, Expendable(row[t]), Removed(row[t]))

(* An edit of a watch folder or of its route that moves the destination    *)
(* voids the uploaded marks of its files and stops its tasks; the removal  *)
(* of the folder only stops the tasks.                                     *)
StopFolderTasks(files) ==
  row' = [t \in Task |-> IF Exists(row[t]) /\ row[t].key.file \in files
                           THEN CancelRequested(row[t]) ELSE row[t]]

ChangeDestination(files) ==
  /\ StopFolderTasks(files)
  /\ record' = [f \in File |-> IF f \in files
                  THEN [record[f] EXCEPT !.uploaded = FALSE] ELSE record[f]]
  /\ UNCHANGED <<wk, inst, disk, req, delivered>>

DeleteFolder(files) ==
  /\ StopFolderTasks(files)
  /\ UNCHANGED <<wk, inst, disk, record, req, delivered>>

-----------------------------------------------------------------------------
(* CreateTask: stat, read the snapshot, write it, insert the row.          *)

StatFile(c, f, tgt) ==
  /\ req[c].pc = "idle"
  /\ disk[f].present
  /\ \E t \in Task : row[t].status = "unused"
  /\ req' = [req EXCEPT ![c] =
               [IdleRequest EXCEPT !.pc = "read",
                  !.key = [file |-> f, ver |-> disk[f].ver, tgt |-> tgt]]]
  /\ UNCHANGED <<row, wk, inst, disk, record, delivered>>

ReadRecord(c) ==
  LET key == req[c].key
      rec == record[key.file]
  IN  /\ req[c].pc = "read"
      /\ req' = [req EXCEPT ![c].pc    = "write",
                            ![c].known = rec # NoRecord,
                            ![c].clear = rec # NoRecord
                                           /\ ~SameSnapshot(rec, key)]
      /\ UNCHANGED <<row, wk, inst, disk, record, delivered>>

(* An update of a known snapshot takes the uploaded mark away only when    *)
(* the snapshot read before differed; an insert gives way to a snapshot    *)
(* that has appeared meanwhile.                                            *)
WriteSnapshot(c) ==
  LET key == req[c].key
      rec == record[key.file]
  IN  /\ req[c].pc = "write"
      /\ record' =
           [record EXCEPT ![key.file] =
              IF req[c].known \/ rec = NoRecord
                THEN [ver |-> key.ver, tgt |-> key.tgt,
                      uploaded |-> rec.uploaded /\ ~req[c].clear]
                ELSE @]
      /\ req' = [req EXCEPT ![c].pc = "insert"]
      /\ UNCHANGED <<row, wk, inst, disk, delivered>>

(* CreateIfAbsent: the unique idempotency key rejects a second row, also   *)
(* beside a finished one.                                                  *)
KeyTaken(key) == \E t \in Task : Exists(row[t]) /\ row[t].key = key

CreateIfAbsent(c) ==
  /\ req[c].pc = "insert"
  /\ IF KeyTaken(req[c].key)
       THEN UNCHANGED row
       ELSE \E t \in Task :
              /\ row[t].status = "unused"
              /\ row' = [row EXCEPT ![t] = Inserted(req[c].key)]
  /\ req' = [req EXCEPT ![c] = IdleRequest]
  /\ UNCHANGED <<wk, inst, disk, record, delivered>>

(* A request dies with its connection, its instance or the database. *)
AbandonRequest(c) ==
  /\ req[c].pc # "idle"
  /\ req' = [req EXCEPT ![c] = IdleRequest]
  /\ UNCHANGED <<row, wk, inst, disk, record, delivered>>

-----------------------------------------------------------------------------
(* The environment.                                                        *)

(* now passes lease_expires_at, or next_retry_at. *)
LeaseLapses(t) ==
  /\ row[t].lease = "live"
  /\ row' = [row EXCEPT ![t].lease = "lapsed"]
  /\ UNCHANGED <<wk, inst, disk, record, req, delivered>>

RetryDue(t) ==
  /\ ~row[t].due
  /\ row' = [row EXCEPT ![t].due = TRUE]
  /\ UNCHANGED <<wk, inst, disk, record, req, delivered>>

(* A program writes the file: a new version, which a copy under way reads  *)
(* in part.                                                                *)
WriteFile(f) ==
  /\ disk[f].ver < MaxVersion
  /\ disk' = [disk EXCEPT ![f].ver = @ + 1]
  /\ wk' = [k \in Worker |->
              IF At(k, "copying") /\ MyKey(k).file = f
                THEN [wk[k] EXCEPT !.clean = FALSE] ELSE wk[k]]
  /\ UNCHANGED <<row, inst, record, req, delivered>>

(* The file, or the directory it is in, goes away or comes back. *)
MoveFile(f) ==
  /\ disk' = [disk EXCEPT ![f].present = ~@]
  /\ UNCHANGED <<row, wk, inst, record, req, delivered>>

Workers(i) == {k \in Worker : Home[k] = i}

(* SIGTERM cancels the context of all workers of the process. *)
Shutdown(i) ==
  /\ inst[i] = "up"
  /\ inst' = [inst EXCEPT ![i] = "stopping"]
  /\ UNCHANGED <<row, wk, disk, record, req, delivered>>

(* Run returns when every worker has left its loop. *)
Exit(i) ==
  /\ inst[i] = "stopping"
  /\ \A k \in Workers(i) : At(k, "idle")
  /\ inst' = [inst EXCEPT ![i] = "down"]
  /\ UNCHANGED <<row, wk, disk, record, req, delivered>>

(* The process dies between two steps of its workers, or main gives up     *)
(* waiting for them.                                                       *)
Crash(i) ==
  /\ inst[i] # "down"
  /\ inst' = [inst EXCEPT ![i] = "down"]
  /\ wk' = [k \in Worker |-> IF Home[k] = i THEN IdleWorker ELSE wk[k]]
  /\ UNCHANGED <<row, disk, record, req, delivered>>

(* Start-up leaves upload_tasks alone. *)
Restart(i) ==
  /\ inst[i] = "down"
  /\ inst' = [inst EXCEPT ![i] = "up"]
  /\ UNCHANGED <<row, wk, disk, record, req, delivered>>

-----------------------------------------------------------------------------
Finish(k) ==
  \/ FinishSuccess(k)
  \/ FinishCanceled(k)
  \/ FailOrRetry(k)
  \/ FailInShutdown(k)
  \/ ReleaseCanceled(k)
  \/ ReleaseLease(k)

Process(k) ==
  \/ RejectTask(k)
  \/ StatFails(k)
  \/ StartCopy(k)
  \/ CopyReturns(k)
  \/ CheckResult(k)
  \/ VerifyFile(k)
  \/ Finish(k)

WorkerStep(k) ==
  \/ ClaimNext(k)
  \/ Process(k)
  \/ RenewLease(k)
  \/ LoseLease(k)

Trouble(k) == ClaimUnnoticed(k) \/ FinishFails(k)

Control(t) ==
  \/ RequestCancel(t)
  \/ ResetForRetry(t)
  \/ PauseTask(t)
  \/ DeleteTask(t)
  \/ CleanupTask(t)

FolderControl(files) == ChangeDestination(files) \/ DeleteFolder(files)

Create(c) ==
  \/ \E f \in File, tgt \in Target : StatFile(c, f, tgt)
  \/ ReadRecord(c)
  \/ WriteSnapshot(c)
  \/ CreateIfAbsent(c)
  \/ AbandonRequest(c)

Clock(t) == LeaseLapses(t) \/ RetryDue(t)

FileSystem(f) == WriteFile(f) \/ MoveFile(f)

Lifecycle(i) == Shutdown(i) \/ Exit(i) \/ Crash(i) \/ Restart(i)

Next ==
  \/ \E k \in Worker : WorkerStep(k) \/ Trouble(k)
  \/ \E t \in Task : Control(t) \/ Clock(t)
  \/ \E files \in SUBSET File : FolderControl(files)
  \/ \E c \in Client : Create(c)
  \/ \E f \in File : FileSystem(f)
  \/ \E i \in Instance : Lifecycle(i)

Spec == Init /\ [][Next]_vars

-----------------------------------------------------------------------------
(* Safety.                                                                 *)

(* A row is always in a state that some path of the code takes further: a  *)
(* lease and its owner come and go with the running status, a cancel       *)
(* request waits only on a running row, a queued row has an attempt left,  *)
(* and only a queued row waits for its retry time.                         *)
RowConsistent(r) ==
  /\ r.status = "running" <=> r.owner # NoWorker
  /\ r.status = "running" <=> r.lease # "none"
  /\ r.status = "running" => r.attempts > 0
  /\ r.cancel => r.status = "running"
  /\ r.status = "pending" => r.attempts < MaxAttempts
  /\ ~r.due => r.status = "pending"
  /\ r.key = NoKey <=> r.status = "unused"

RowsConsistent == \A t \in Task : RowConsistent(row[t])

(* One file version is never queued twice for the same destination.        *)
NoDuplicateTask ==
  \A t, u \in Task :
    Exists(row[t]) /\ Exists(row[u]) /\ row[t].key = row[u].key => t = u

(* A task that says success has put the version it was created for at its  *)
(* destination whole: a file that changed during the copy is not passed    *)
(* off as uploaded, whatever else the worker lost on the way.              *)
SuccessDelivered ==
  \A t \in Task : row[t].status = "success" => row[t].key \in delivered

(* What a worker may rely on about its task, whatever others do to the row *)
(* meanwhile: the row keeps its id and key, and a copy that is taken for   *)
(* good is one of the queued version, or the check after it will tell.     *)
Superseded(key) == disk[key.file].ver > key.ver

WorkerSound(k) ==
  /\ At(k, "idle") <=> (wk[k].task = NoTask)
  /\ wk[k].task # NoTask => MyRow(k).status # "unused"
  /\ At(k, "copying") =>
       IF wk[k].clean THEN disk[MyKey(k).file].ver = MyKey(k).ver
                      ELSE Superseded(MyKey(k))
  /\ (At(k, "copied") /\ wk[k].ok) \/ At(k, "verify") =>
       MyKey(k) \in delivered \/ Superseded(MyKey(k))
  /\ At(k, "succeed") => MyKey(k) \in delivered

RequestsSound == \A c \in Client : req[c].pc # "idle" => req[c].key \in Key

(* The inductive invariant of the proofs. *)
IndInv ==
  /\ TypeOK
  /\ RowsConsistent
  /\ NoDuplicateTask
  /\ SuccessDelivered
  /\ \A k \in Worker : WorkerSound(k)
  /\ RequestsSound

(* A snapshot that is marked uploaded has been uploaded: the mark belongs  *)
(* to the version and the destination that stand beside it, across edits   *)
(* of the destination, new versions and late successes.                    *)
MarkDelivered ==
  \A f \in File :
    record[f].uploaded =>
      [file |-> f, ver |-> record[f].ver, tgt |-> record[f].tgt] \in delivered

(* While a lease is live nobody but its owner, at the end of its work on   *)
(* this very task, ends the attempt or takes it over: not another worker's *)
(* claim, not a worker that held the row before, not an API call.          *)
Continues(t) == row'[t].status = "running" /\ row'[t].owner = row[t].owner

LeaseRespected(t) ==
  row[t].lease = "live" /\ ~Continues(t) =>
    \E k \in Worker :
      /\ row[t].owner = k
      /\ wk[k].task = t /\ wk[k].pc \in FinishPc
      /\ wk'[k] = IdleWorker

LiveLeaseRespected == [][\A t \in Task : LeaseRespected(t)]_vars

(* Once a running task is asked to stop, it stays asked, its lease is not  *)
(* renewed or handed on, and the only way out is canceled: no success, no  *)
(* retry and no failure overtakes the request.                             *)
CancelSticks ==
  [][\A t \in Task : row[t].cancel =>
       \/ Continues(t) /\ row'[t].cancel
            /\ (Lapsed(row[t]) => Lapsed(row'[t]))
       \/ row'[t].status = "canceled"]_vars

(* A successful task is never run, reset, paused or cancelled again; it    *)
(* can only be removed.                                                    *)
SuccessIsFinal ==
  [][\A t \in Task : row[t].status = "success" =>
       row'[t] \in {row[t], Removed(row[t])}]_vars

(* The uploaded mark and the success of the task are one commit: a mark    *)
(* appears only with the success of a task for exactly this snapshot, and  *)
(* such a success never leaves the snapshot unmarked.                      *)
Succeeds(t) == row[t].status = "running" /\ row'[t].status = "success"

MarkWithSuccess ==
  [][/\ \A f \in File : ~record[f].uploaded /\ record'[f].uploaded =>
          \E t \in Task : /\ Succeeds(t) /\ row[t].key.file = f
                          /\ SameSnapshot(record[f], row[t].key)
     /\ \A t \in Task :
          LET key == row[t].key
          IN  Succeeds(t) /\ SameSnapshot(record[key.file], key) =>
                record'[key.file].uploaded]_vars

(* A promise the code does not keep (README, Divergences).  The state      *)
(* machine of ARCHITECTURE.md leads from running to failed for a task that *)
(* is exhausted or invalid: the worker that found its task invalid does    *)
(* not put it back into the queue.                                         *)
InvalidFails ==
  [][\A k \in Worker, t \in Task :
       wk[k].pc = "invalid" /\ wk[k].task = t /\ OwnedBy(row[t], k)
         /\ wk'[k] = IdleWorker
         => row'[t].status # "pending"]_vars

-----------------------------------------------------------------------------
(* Refinement.  A row without its lease, owner and retry time is a task of *)
(* TaskLifecycle.                                                          *)

StateOf(r) ==
  CASE r.status = "unused"  -> "unborn"
    [] r.status = "deleted" -> "removed"
    [] OTHER                -> r.status

StateMachine ==
  INSTANCE TaskLifecycle WITH
    state    <- [t \in Task |-> StateOf(row[t])],
    attempts <- [t \in Task |-> row[t].attempts],
    stopping <- {t \in Task : row[t].cancel},
    arrived  <- {t \in Task : row[t].key \in delivered}

(* Every step of the queue moves every task along an edge of its state     *)
(* machine: no interleaving of workers, API calls, crashes and restarts    *)
(* fails a task with an attempt left, runs one more often than allowed,    *)
(* or lets a task go on that was asked to stop.                            *)
ImplementsLifecycle == StateMachine!Spec

-----------------------------------------------------------------------------
(* Liveness.                                                               *)

(* The workers poll for as long as their process runs, every step of       *)
(* processClaimed returns (rclone is bounded by the task timeout), time    *)
(* passes, main waits for its workers and the container is restarted.      *)
(* Users, the file system, failing calls and crashes owe nothing, and a    *)
(* heartbeat neither has to come nor to fail.                              *)
Fairness ==
  /\ \A k \in Worker : WF_vars(ClaimNext(k)) /\ WF_vars(Process(k))
  /\ \A t \in Task : WF_vars(LeaseLapses(t)) /\ WF_vars(RetryDue(t))
  /\ \A i \in Instance : WF_vars(Exit(i)) /\ WF_vars(Restart(i))

FairSpec == Spec /\ Fairness

(* What goes on when nobody interferes any more. *)
Undisturbed ==
  \/ \E k \in Worker : WorkerStep(k)
  \/ \E t \in Task : Clock(t)
  \/ \E i \in Instance : Exit(i) \/ Restart(i)

Calm == <>[][Undisturbed]_vars

(* A task that may be claimed is served: once the disturbances stop, a due *)
(* queued task, and a task whose worker has died or lost touch, does not   *)
(* wait for ever behind the others.                                        *)
ClaimableServed ==
  Calm => \A t \in Task : Claimable(row[t]) ~> ~Claimable(row[t])

(* A running task whose lease has lapsed with no attempt left is ended as  *)
(* failed, or canceled when that was asked for.                            *)
ExhaustedFinalized ==
  Calm => \A t \in Task : Exhausted(row[t]) ~> ~Exhausted(row[t])
=============================================================================
