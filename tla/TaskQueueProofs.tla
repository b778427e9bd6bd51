-------------------------- MODULE TaskQueueProofs --------------------------
(***************************************************************************)
(* Proofs about TaskQueue for any number of instances, workers, tasks,     *)
(* files, destinations, requests, versions and attempts.                   *)
(*                                                                         *)
(* The argument goes through single rows.  Moves(t) lists what a step of   *)
(* the system can do to the row of task t; the lemma RowMoves shows that   *)
(* every step is a Moves(t) for every task.  What holds of rows then       *)
(* follows from lemmas about the row operators alone.                      *)
(***************************************************************************)
EXTENDS TaskQueue, TLAPS

USE NoWorkerAssumption, MaxVersionAssumption, MaxAttemptsAssumption,
    NoKeyAssumption, NoTaskAssumption

-----------------------------------------------------------------------------
(* Rows.                                                                   *)

Sound(r) == r \in Row /\ RowConsistent(r)

LEMMA UnusedSound == Sound(UnusedRow) /\ 0 \in 0 .. MaxAttempts
BY DEF Sound, RowConsistent, Row, Status, UnusedRow

(* Every row operator takes a sound row that meets the condition of its    *)
(* statement to a sound row with the same key.                             *)
LEMMA CanceledSound ==
  ASSUME NEW r \in Row, Sound(r), Exists(r)
  PROVE  Sound(Canceled(r)) /\ Canceled(r).key = r.key
BY DEF Sound, RowConsistent, Row, Status, Exists, Canceled, Unleased

LEMMA FailedSound ==
  ASSUME NEW r \in Row, Sound(r), r.status = "running", ~r.cancel
  PROVE  Sound(Failed(r)) /\ Failed(r).key = r.key
BY DEF Sound, RowConsistent, Row, Status, Failed, Unleased

LEMMA AfterFailureSound ==
  ASSUME NEW r \in Row, Sound(r), r.status = "running"
  PROVE  Sound(AfterFailure(r)) /\ AfterFailure(r).key = r.key
<1>1. CASE r.cancel
  BY <1>1, CanceledSound DEF AfterFailure, Exists, Status
<1>2. CASE ~r.cancel /\ ~(r.attempts < MaxAttempts)
  BY <1>2, FailedSound DEF AfterFailure
<1>3. CASE ~r.cancel /\ r.attempts < MaxAttempts
  BY <1>3 DEF AfterFailure, Retried, Unleased, Sound, RowConsistent, Row, Status
<1> QED BY <1>1, <1>2, <1>3

LEMMA ReleasedSound ==
  ASSUME NEW r \in Row, Sound(r), r.status = "running", ~r.cancel
  PROVE  Sound(Released(r)) /\ Released(r).key = r.key
<1> DEFINE left == IF r.attempts > 0 THEN r.attempts - 1 ELSE 0
<1>1. left \in 0 .. MaxAttempts /\ left < MaxAttempts
  BY DEF Row
<1>2. Released(r) = [Unleased(r) EXCEPT !.status = "pending", !.due = TRUE,
                                        !.attempts = left]
  BY DEF Released, Unleased, Row
<1> HIDE DEF left
<1> QED BY <1>1, <1>2 DEF Sound, RowConsistent, Row, Status, Unleased

LEMMA SucceededSound ==
  ASSUME NEW r \in Row, Sound(r), r.status = "running", ~r.cancel
  PROVE  Sound(Succeeded(r)) /\ Succeeded(r).key = r.key
BY DEF Sound, RowConsistent, Row, Status, Succeeded, Unleased

LEMMA RenewedSound ==
  ASSUME NEW r \in Row, Sound(r), r.status = "running"
  PROVE  Sound(Renewed(r)) /\ Renewed(r).key = r.key
BY DEF Sound, RowConsistent, Row, Status, Renewed

LEMMA FinalizedSound ==
  ASSUME NEW r \in Row, Sound(r)
  PROVE  Sound(Finalized(r)) /\ Finalized(r).key = r.key
<1>1. CASE Abandoned(r)
  <2>1. Exists(r) BY <1>1 DEF Abandoned, Exists, Status
  <2>2. Finalized(r) = Canceled(r) BY <1>1 DEF Finalized
  <2> QED BY <2>1, <2>2, CanceledSound
<1>2. CASE ~Abandoned(r) /\ Exhausted(r)
  <2>1. r.status = "running" /\ ~r.cancel
    BY <1>2 DEF Exhausted, Abandoned, Sound, Row
  <2>2. Finalized(r) = Failed(r) BY <1>2 DEF Finalized
  <2> QED BY <2>1, <2>2, FailedSound
<1>3. CASE ~Abandoned(r) /\ ~Exhausted(r)
  BY <1>3 DEF Finalized
<1> QED BY <1>1, <1>2, <1>3

LEMMA ClaimedSound ==
  ASSUME NEW r \in Row, Sound(r), Claimable(r), NEW k \in Worker
  PROVE  Sound(Claimed(r, k)) /\ Claimed(r, k).key = r.key
<1> DEFINE used == r.attempts + 1
<1>1. used \in 0 .. MaxAttempts /\ used > 0
  BY DEF Row, Claimable
<1>2. Claimed(r, k) = [r EXCEPT !.status = "running", !.owner = k,
                                !.lease = "live", !.due = TRUE,
                                !.attempts = used]
  BY DEF Claimed, Row
<1> HIDE DEF used
<1> QED BY <1>1, <1>2, ZenonT(60) DEF Sound, RowConsistent, Row, Status, Claimable

LEMMA CancelRequestedSound ==
  ASSUME NEW r \in Row, Sound(r)
  PROVE  Sound(CancelRequested(r)) /\ CancelRequested(r).key = r.key
<1>1. CASE r.status = "running"
  BY <1>1 DEF CancelRequested, Sound, RowConsistent, Row, Status
<1>2. CASE r.status \in {"pending", "paused", "failed"}
  BY <1>2, CanceledSound DEF CancelRequested, Exists, Status
<1>3. CASE r.status \notin {"running", "pending", "paused", "failed"}
  BY <1>3 DEF CancelRequested
<1> QED BY <1>1, <1>2, <1>3

LEMMA ResetSound ==
  ASSUME NEW r \in Row, Sound(r), Resettable(r)
  PROVE  Sound(Reset(r)) /\ Reset(r).key = r.key
<1>1. Reset(r) \in Row
  <2>1. 0 \in 0 .. MaxAttempts BY UnusedSound
  <2> QED BY <2>1 DEF Row, Status, Reset, Unleased
<1> QED BY <1>1
        DEF Sound, RowConsistent, Row, Status, Resettable, Reset, Unleased

LEMMA PausedSound ==
  ASSUME NEW r \in Row, Sound(r), Pausable(r)
  PROVE  Sound(Paused(r)) /\ Paused(r).key = r.key
BY DEF Sound, RowConsistent, Row, Status, Pausable, Exists, Paused

LEMMA RemovedSound ==
  ASSUME NEW r \in Row, Sound(r), Exists(r)
  PROVE  Sound(Removed(r)) /\ Removed(r).key = r.key
<1>1. Removed(r) \in Row
  BY UnusedSound DEF Sound, Removed, Row
<1> QED BY <1>1 DEF Sound, RowConsistent, Row, Status, Exists, Removed, UnusedRow

LEMMA InsertedSound ==
  ASSUME NEW key \in Key
  PROVE  Sound(Inserted(key)) /\ Inserted(key).key = key
<1>1. Inserted(key) \in Row
  BY UnusedSound DEF Sound, Inserted, Row, Status
<1> QED BY <1>1 DEF Sound, RowConsistent, Inserted, UnusedRow

-----------------------------------------------------------------------------
(* Steps.                                                                  *)

(* Worker k ends its attempt at task t, whose row it still owns. *)
Ends(k, t) ==
  /\ wk[k].task = t /\ wk[k].pc \in FinishPc /\ wk'[k] = IdleWorker
  /\ OwnedBy(row[t], k)
  /\ \/ row'[t] = Canceled(row[t])
     \/ row'[t] = AfterFailure(row[t])
     \/ ~row[t].cancel /\ row'[t] = Released(row[t])
     \/ /\ ~row[t].cancel /\ row[t].key \in delivered
        /\ FinishSuccess(k) /\ row'[t] = Succeeded(row[t])

(* A claim of some task, which finalizes the other rows. *)
Claims(t) ==
  \/ row'[t] = Finalized(row[t])
  \/ \E k \in Worker : /\ Claimable(Finalized(row[t]))
                       /\ row'[t] = Claimed(Finalized(row[t]), k)

Controls(t) ==
  \/ row'[t] = CancelRequested(row[t])
  \/ Resettable(row[t]) /\ row'[t] = Reset(row[t])
  \/ Pausable(row[t]) /\ row'[t] = Paused(row[t])
  \/ (Deletable(row[t]) \/ Expendable(row[t])) /\ row'[t] = Removed(row[t])

Ticks(t) ==
  \/ row[t].lease = "live" /\ row'[t] = [row[t] EXCEPT !.lease = "lapsed"]
  \/ ~row[t].due /\ row'[t] = [row[t] EXCEPT !.due = TRUE]

(* The only row that changes is the unused one that a request inserts. *)
Inserts(c, t) ==
  /\ row[t].status = "unused"
  /\ req[c].key \in Key /\ ~KeyTaken(req[c].key)
  /\ row' = [row EXCEPT ![t] = Inserted(req[c].key)]

Moves(t) ==
  \/ row'[t] = row[t]
  \/ Claims(t)
  \/ \E k \in Worker : Ends(k, t)
  \/ \E k \in Worker : /\ OwnedUncanceled(row[t], k)
                       /\ row'[t] = Renewed(row[t])
  \/ Controls(t)
  \/ Ticks(t)
  \/ \E c \in Client : Inserts(c, t)

AllMove == row' = [t \in Task |-> row'[t]] /\ \A t \in Task : Moves(t)

LEMMA RowsSound == IndInv => \A t \in Task : Sound(row[t])
BY DEF IndInv, TypeOK, RowsConsistent, Sound

(* A worker that is not idle holds the id of a row that has a key. *)
LEMMA BusyWorker ==
  ASSUME IndInv, NEW k \in Worker, wk[k].pc # "idle"
  PROVE  /\ wk[k].task \in Task
         /\ row[wk[k].task].status # "unused"
         /\ row[wk[k].task].key \in Key
<1>1. wk[k].task \in Task
  BY DEF IndInv, TypeOK, WorkerState, WorkerSound, At
<1>2. row[wk[k].task].status # "unused"
  BY <1>1 DEF IndInv, TypeOK, WorkerSound, At, MyRow
<1>3. row[wk[k].task].key \in Key
  BY <1>1, <1>2 DEF IndInv, TypeOK, RowsConsistent, RowConsistent, Row
<1> QED BY <1>1, <1>2, <1>3

(* A step that leaves the rows alone. *)
LEMMA NoMove == IndInv /\ UNCHANGED row => AllMove
BY DEF IndInv, TypeOK, AllMove, Moves

LEMMA ClaimMoves ==
  ASSUME IndInv, NEW k \in Worker, ClaimNext(k) \/ ClaimUnnoticed(k)
  PROVE  AllMove
<1> DEFINE fin == [t \in Task |-> Finalized(row[t])]
<1>1. PICK u \in Task : Claimable(fin[u])
                        /\ row' = [fin EXCEPT ![u] = Claimed(@, k)]
  BY DEF ClaimNext, ClaimUnnoticed, ClaimRow
<1>2. row' = [t \in Task |-> row'[t]]
  BY <1>1
<1>3. ASSUME NEW t \in Task PROVE Claims(t)
  BY <1>1 DEF Claims
<1> QED BY <1>2, <1>3 DEF AllMove, Moves

(* A step that changes one row. *)
LEMMA OneMove ==
  ASSUME IndInv, NEW t \in Task, NEW new, row' = [row EXCEPT ![t] = new],
         row'[t] = new => Moves(t)
  PROVE  AllMove
<1>1. row' = [u \in Task |-> row'[u]] /\ row'[t] = new
  BY DEF IndInv, TypeOK
<1>2. ASSUME NEW u \in Task, u # t PROVE row'[u] = row[u]
  BY <1>2 DEF IndInv, TypeOK
<1>3. ASSUME NEW u \in Task PROVE Moves(u)
  <2>1. CASE u = t BY <1>1, <2>1
  <2>2. CASE u # t BY <1>2, <2>2 DEF Moves
  <2> QED BY <2>1, <2>2
<1> QED BY <1>1, <1>3 DEF AllMove

(* The calls that end an attempt update one row under a guard. *)
LEMMA UpdateMoves ==
  ASSUME IndInv, NEW k \in Worker, wk[k].pc \in FinishPc, wk[k].pc # "idle",
         NEW guard \in BOOLEAN, NEW new, UpdateRow(wk[k].task, guard, new),
         guard /\ row'[wk[k].task] = new => Ends(k, wk[k].task)
  PROVE  AllMove
<1> DEFINE t == wk[k].task
<1>1. t \in Task
  BY BusyWorker
<1>2. CASE guard
  <2>1. row' = [row EXCEPT ![t] = new]
    BY <1>2 DEF UpdateRow
  <2>2. row'[t] = new => Moves(t)
    BY <1>2 DEF Moves
  <2> QED BY <1>1, <2>1, <2>2, OneMove
<1>3. CASE ~guard
  <2>1. row' = row
    BY <1>1, <1>3 DEF UpdateRow, IndInv, TypeOK
  <2> QED BY <2>1, NoMove
<1> QED BY <1>2, <1>3

LEMMA FinishMoves ==
  ASSUME IndInv, NEW k \in Worker, Finish(k)
  PROVE  AllMove
<1> DEFINE t == wk[k].task
<1> USE DEF At, MyRow, MyKey
<1>1. wk \in [Worker -> WorkerState] /\ row \in [Task -> Row]
  BY DEF IndInv, TypeOK
<1>2. Done(k) => wk'[k] = IdleWorker
  BY <1>1 DEF Done
<1>3. CASE FinishSuccess(k)
  <2>1. row[t].key \in delivered
    BY <1>3 DEF FinishSuccess, IndInv, WorkerSound
  <2>2. OwnedUncanceled(row[t], k) /\ row'[t] = Succeeded(row[t])
          => Ends(k, t)
    BY <1>2, <1>3, <2>1
       DEF FinishSuccess, Ends, FinishPc, OwnedUncanceled
  <2> QED
    BY <1>3, <2>2, UpdateMoves
       DEF FinishSuccess, FinishPc, OwnedUncanceled, OwnedBy
<1>4. CASE FinishCanceled(k)
  BY <1>2, <1>4, UpdateMoves DEF FinishCanceled, Ends, FinishPc, OwnedBy
<1>5. CASE FailOrRetry(k)
  BY <1>2, <1>5, UpdateMoves
     DEF FailOrRetry, FailedEarly, Ends, FinishPc, OwnedBy
<1>6. CASE FailInShutdown(k)
  BY <1>6, NoMove DEF FailInShutdown
<1>7. CASE ReleaseCanceled(k)
  <2> DEFINE canceled == OwnedBy(row[t], k) /\ row[t].cancel
  <2>1. canceled \in BOOLEAN /\ wk[k].pc \in FinishPc /\ wk[k].pc # "idle"
    BY <1>1, <1>7 DEF ReleaseCanceled, FinishPc
  <2>2. UpdateRow(t, canceled, Canceled(row[t])) /\ (canceled => Done(k))
    BY <1>7 DEF ReleaseCanceled
  <2>3. canceled /\ row'[t] = Canceled(row[t]) => Ends(k, t)
    BY <1>2, <2>1, <2>2 DEF Ends
  <2> HIDE DEF canceled
  <2> QED BY <2>1, <2>2, <2>3, UpdateMoves
<1>8. CASE ReleaseLease(k)
  BY <1>2, <1>8, UpdateMoves
     DEF ReleaseLease, Ends, FinishPc, OwnedBy, OwnedUncanceled
<1> QED
  BY <1>3, <1>4, <1>5, <1>6, <1>7, <1>8 DEF Finish

LEMMA WorkerMoves ==
  ASSUME IndInv, NEW k \in Worker, WorkerStep(k) \/ Trouble(k)
  PROVE  AllMove
<1>1. CASE ClaimNext(k) \/ ClaimUnnoticed(k)
  BY <1>1, ClaimMoves
<1>2. CASE Finish(k)
  BY <1>2, FinishMoves
<1>3. CASE RenewLease(k)
  <2> DEFINE t == wk[k].task
  <2>1. t \in Task
    BY <1>3, BusyWorker DEF RenewLease, At
  <2>2. row' = [row EXCEPT ![t] = Renewed(row[t])]
    BY <1>3, <2>1 DEF RenewLease, IndInv, TypeOK
  <2>3. row'[t] = Renewed(row[t]) => Moves(t)
    BY <1>3 DEF RenewLease, MyRow, Moves
  <2> QED BY <2>1, <2>2, <2>3, OneMove
<1>4. CASE UNCHANGED row
  BY <1>4, NoMove
<1> QED
  BY <1>1, <1>2, <1>3, <1>4
     DEF WorkerStep, Trouble, Process, RejectTask, StatFails, StartCopy,
         CopyReturns, CheckResult, VerifyFile, LoseLease, FinishFails

LEMMA ControlMoves ==
  ASSUME IndInv, NEW t \in Task, Control(t)
  PROVE  AllMove
<1>1. PICK new : row' = [row EXCEPT ![t] = new]
                 /\ (row'[t] = new => Controls(t))
  BY DEF Control, RequestCancel, ResetForRetry, PauseTask, DeleteTask,
         CleanupTask, TaskControl, Controls
<1>2. row'[t] = new => Moves(t)
  BY <1>1 DEF Moves
<1> QED BY <1>1, <1>2, OneMove

LEMMA FolderMoves ==
  ASSUME IndInv, NEW files \in SUBSET File, FolderControl(files)
  PROVE  AllMove
<1>1. StopFolderTasks(files)
  BY DEF FolderControl, ChangeDestination, DeleteFolder
<1>2. row' = [t \in Task |-> row'[t]]
  BY <1>1 DEF StopFolderTasks
<1>3. ASSUME NEW t \in Task PROVE Moves(t)
  BY <1>1 DEF StopFolderTasks, Moves, Controls
<1> QED BY <1>2, <1>3 DEF AllMove

LEMMA CreateMoves ==
  ASSUME IndInv, NEW c \in Client, Create(c)
  PROVE  AllMove
<1>1. CASE UNCHANGED row
  BY <1>1, NoMove
<1>2. CASE CreateIfAbsent(c) /\ ~UNCHANGED row
  <2>1. req[c].key \in Key /\ ~KeyTaken(req[c].key)
    BY <1>2 DEF CreateIfAbsent, IndInv, RequestsSound
  <2>2. PICK t \in Task : Inserts(c, t)
    BY <1>2, <2>1 DEF CreateIfAbsent, Inserts
  <2> QED BY <2>2, OneMove DEF Inserts, Moves
<1> QED
  BY <1>1, <1>2
     DEF Create, StatFile, ReadRecord, WriteSnapshot, AbandonRequest

LEMMA ClockMoves ==
  ASSUME IndInv, NEW t \in Task, Clock(t)
  PROVE  AllMove
<1>1. CASE LeaseLapses(t)
  <2>1. row' = [row EXCEPT ![t] = [row[t] EXCEPT !.lease = "lapsed"]]
    BY <1>1 DEF LeaseLapses, IndInv, TypeOK
  <2>2. row'[t] = [row[t] EXCEPT !.lease = "lapsed"] => Moves(t)
    BY <1>1 DEF LeaseLapses, Ticks, Moves
  <2> QED BY <2>1, <2>2, OneMove
<1>2. CASE RetryDue(t)
  <2>1. row' = [row EXCEPT ![t] = [row[t] EXCEPT !.due = TRUE]]
    BY <1>2 DEF RetryDue, IndInv, TypeOK
  <2>2. row'[t] = [row[t] EXCEPT !.due = TRUE] => Moves(t)
    BY <1>2 DEF RetryDue, Ticks, Moves
  <2> QED BY <2>1, <2>2, OneMove
<1> QED BY <1>1, <1>2 DEF Clock

(* Every step moves every row in one of the ways of Moves. *)
LEMMA RowMoves == IndInv /\ [Next]_vars => AllMove
<1> SUFFICES ASSUME IndInv, [Next]_vars PROVE AllMove
  OBVIOUS
<1>1. CASE \E k \in Worker : WorkerStep(k) \/ Trouble(k)
  BY <1>1, WorkerMoves
<1>2. CASE \E t \in Task : Control(t) \/ Clock(t)
  BY <1>2, ControlMoves, ClockMoves
<1>3. CASE \E files \in SUBSET File : FolderControl(files)
  BY <1>3, FolderMoves
<1>4. CASE \E c \in Client : Create(c)
  BY <1>4, CreateMoves
<1>5. CASE UNCHANGED row
  BY <1>5, NoMove
<1> QED
  BY <1>1, <1>2, <1>3, <1>4, <1>5
     DEF Next, vars, FileSystem, WriteFile, MoveFile, Lifecycle, Shutdown,
         Exit, Crash, Restart

-----------------------------------------------------------------------------
(* The invariant.                                                          *)

(* A move takes a sound row to a sound row and never changes the key of a  *)
(* row, nor makes its id unused again.                                     *)
LEMMA MoveSound ==
  ASSUME IndInv, NEW t \in Task, Moves(t)
  PROVE  /\ Sound(row'[t])
         /\ row[t].status # "unused" =>
              row'[t].key = row[t].key /\ row'[t].status # "unused"
<1>1. row[t] \in Row /\ Sound(row[t])
  BY RowsSound DEF Sound
<1>2. Sound(row'[t]) /\ row'[t].key = row[t].key
        => (row[t].status # "unused" => row'[t].status # "unused")
  BY <1>1 DEF Sound, RowConsistent
<1>3. CASE row'[t] = row[t]
  BY <1>1, <1>3
<1>4. CASE Claims(t)
  <2>1. Finalized(row[t]) \in Row /\ Sound(Finalized(row[t]))
          /\ Finalized(row[t]).key = row[t].key
    BY <1>1, FinalizedSound DEF Sound
  <2> QED BY <1>2, <1>4, <2>1, ClaimedSound DEF Claims
<1>5. CASE \E k \in Worker : Ends(k, t)
  <2>1. row[t].status = "running" /\ Exists(row[t])
    BY <1>5 DEF Ends, OwnedBy, Exists, Status
  <2> QED
    BY <1>1, <1>2, <1>5, <2>1, CanceledSound, AfterFailureSound,
       ReleasedSound, SucceededSound DEF Ends
<1>6. CASE \E k \in Worker : /\ OwnedUncanceled(row[t], k)
                            /\ row'[t] = Renewed(row[t])
  BY <1>1, <1>2, <1>6, RenewedSound DEF OwnedUncanceled, OwnedBy
<1>7. CASE Controls(t)
  <2>1. Deletable(row[t]) \/ Expendable(row[t]) => Exists(row[t])
    BY DEF Deletable, Expendable, Exists, Status
  <2> QED
    BY <1>1, <1>2, <1>7, <2>1, CancelRequestedSound, ResetSound,
       PausedSound, RemovedSound DEF Controls
<1>8. CASE Ticks(t)
  <2>1. CASE /\ row[t].lease = "live"
             /\ row'[t] = [row[t] EXCEPT !.lease = "lapsed"]
    BY <1>1, <1>2, <2>1 DEF Sound, RowConsistent, Row
  <2>2. CASE row'[t] = [row[t] EXCEPT !.due = TRUE]
    <3>1. row'[t] \in Row /\ row'[t].key = row[t].key
      BY <1>1, <2>2 DEF Row
    <3>2. RowConsistent(row'[t])
      BY <1>1, <2>2 DEF Sound, RowConsistent, Row
    <3> QED BY <1>2, <3>1, <3>2 DEF Sound
  <2> QED BY <1>8, <2>1, <2>2 DEF Ticks
<1>9. CASE \E c \in Client : Inserts(c, t)
  <2>1. row[t].status = "unused" /\ \E key \in Key : row'[t] = Inserted(key)
    BY <1>9 DEF Inserts, IndInv, TypeOK
  <2> QED BY <2>1, InsertedSound
<1> QED BY <1>3, <1>4, <1>5, <1>6, <1>7, <1>8, <1>9 DEF Moves

(* A row comes to say success only after a delivery of its key. *)
LEMMA MoveSuccess ==
  ASSUME IndInv, NEW t \in Task, Moves(t), row'[t].status = "success"
  PROVE  row[t].key \in delivered /\ row'[t].key = row[t].key
<1>1. row[t] \in Row /\ Sound(row[t])
  BY RowsSound DEF Sound
<1>2. row[t].status = "success" => row[t].key \in delivered
  BY DEF IndInv, SuccessDelivered
<1>3. CASE row[t].status = "success"
  BY <1>2, <1>3, MoveSound
<1>4. CASE row[t].status # "success" /\ Claims(t)
  <2>1. Finalized(row[t]).status # "success"
    BY <1>1, <1>4 DEF Finalized, Canceled, Failed, Unleased, Row
  <2>2. Finalized(row[t]) \in Row
    BY <1>1, FinalizedSound DEF Sound
  <2>3. \A k : Claimed(Finalized(row[t]), k).status = "running"
    BY <2>2 DEF Claimed, Row
  <2> QED BY <1>4, <2>1, <2>3 DEF Claims
<1>5. CASE \E k \in Worker : Ends(k, t)
  <2>1. row'[t] \in {Canceled(row[t]), AfterFailure(row[t]), Released(row[t])}
          => row'[t].status # "success"
    BY <1>1 DEF Canceled, AfterFailure, Retried, Failed, Released, Unleased, Row
  <2> QED BY <1>5, <2>1, MoveSound DEF Ends, OwnedBy
<1>6. CASE row[t].status # "success" /\ Controls(t)
  <2>1. CancelRequested(row[t]).status # "success"
    BY <1>1, <1>6 DEF CancelRequested, Canceled, Unleased, Row
  <2>2. /\ Reset(row[t]).status # "success"
        /\ Paused(row[t]).status # "success"
        /\ Removed(row[t]).status # "success"
    BY <1>1 DEF Reset, Unleased, Paused, Removed, UnusedRow, Row
  <2> QED BY <1>6, <2>1, <2>2 DEF Controls
<1>7. CASE row[t].status # "success" /\ row[t].status = row'[t].status
  BY <1>7
<1>8. CASE \E c \in Client : Inserts(c, t)
  BY <1>8 DEF Inserts, Inserted, UnusedRow, IndInv, TypeOK
<1> QED
  BY <1>1, <1>3, <1>4, <1>5, <1>6, <1>7, <1>8 DEF Moves, Renewed, Ticks, Row

(* What a worker's step does to the worker: it moves on with its task,     *)
(* takes one, or forgets everything.                                       *)
LEMMA WorkerTyped ==
  ASSUME IndInv, NEW k \in Worker, WorkerStep(k) \/ Trouble(k)
  PROVE  wk' \in [Worker -> WorkerState]
<1> USE DEF WorkerState, Pc, IdleWorker
<1>1. wk \in [Worker -> WorkerState]
  BY DEF IndInv, TypeOK
<1>2. Done(k) => wk' \in [Worker -> WorkerState]
  BY <1>1 DEF Done
<1>3. ASSUME NEW pc \in Pc, Goto(k, pc) PROVE wk' \in [Worker -> WorkerState]
  <2>1. [IdleWorker EXCEPT !.pc = pc, !.task = wk[k].task] \in WorkerState
    BY <1>1
  <2> QED BY <1>1, <1>3, <2>1 DEF Goto
<1>4. CASE ClaimNext(k)
  <2>1. PICK t \in Task :
          wk' = [wk EXCEPT ![k] = [IdleWorker EXCEPT !.pc = "claimed", !.task = t]]
    BY <1>4 DEF ClaimNext
  <2> QED BY <1>1, <2>1
<1>5. CASE CopyReturns(k)
  <2>1. PICK ok \in BOOLEAN :
          wk' = [wk EXCEPT ![k] = [wk[k] EXCEPT !.pc = "copied", !.ok = ok,
                                                !.clean = TRUE]]
    BY <1>1, <1>5 DEF CopyReturns
  <2> QED BY <1>1, <2>1, ZenonT(60)
<1>6. CASE LoseLease(k)
  BY <1>1, <1>6, ZenonT(60) DEF LoseLease
<1>7. CASE CheckResult(k)
  BY <1>2, <1>3, <1>7 DEF CheckResult, AfterCopy
<1>8. CASE RejectTask(k) \/ StatFails(k) \/ StartCopy(k) \/ VerifyFile(k)
  BY <1>3, <1>8 DEF RejectTask, StatFails, StartCopy, VerifyFile
<1>9. CASE Finish(k)
  BY <1>2, <1>3, <1>9
     DEF Finish, FinishSuccess, FinishCanceled, FailOrRetry, FailInShutdown,
         ReleaseCanceled, ReleaseLease
<1>10. CASE FinishFails(k)
  BY <1>2, <1>10 DEF FinishFails
<1>11. CASE UNCHANGED wk
  BY <1>1, <1>11
<1> QED
  BY <1>4, <1>5, <1>6, <1>7, <1>8, <1>9, <1>10, <1>11
     DEF WorkerStep, Trouble, Process, RenewLease, ClaimUnnoticed

(* Which steps touch which variable. *)
LEMMA Frames ==
  ASSUME [Next]_vars
  PROVE  /\ UNCHANGED inst \/ \E i \in Instance : Lifecycle(i)
         /\ UNCHANGED disk \/ \E f \in File : FileSystem(f)
         /\ \/ UNCHANGED wk
            \/ \E k \in Worker : WorkerStep(k) \/ Trouble(k)
            \/ \E f \in File : FileSystem(f)
            \/ \E i \in Instance : Lifecycle(i)
         /\ \/ UNCHANGED record
            \/ \E k \in Worker : FinishSuccess(k)
            \/ \E files \in SUBSET File : ChangeDestination(files)
            \/ \E c \in Client : WriteSnapshot(c)
         /\ UNCHANGED req \/ \E c \in Client : Create(c)
         /\ UNCHANGED delivered \/ \E k \in Worker : CopyReturns(k)
<1>1. CASE \E k \in Worker : WorkerStep(k) \/ Trouble(k)
  BY <1>1
     DEF WorkerStep, Trouble, Process, Finish, ClaimNext, ClaimUnnoticed,
         RejectTask, StatFails, StartCopy, RenewLease, LoseLease, CopyReturns,
         CheckResult, VerifyFile, FinishSuccess, FinishCanceled, FailOrRetry,
         FailInShutdown, ReleaseCanceled, ReleaseLease, FinishFails
<1>2. CASE \E t \in Task : Control(t) \/ Clock(t)
  BY <1>2
     DEF Control, RequestCancel, ResetForRetry, PauseTask, DeleteTask,
         CleanupTask, TaskControl, Clock, LeaseLapses, RetryDue
<1>3. CASE \E files \in SUBSET File : FolderControl(files)
  BY <1>3 DEF FolderControl, ChangeDestination, DeleteFolder
<1>4. CASE \E c \in Client : Create(c)
  BY <1>4
     DEF Create, StatFile, ReadRecord, WriteSnapshot, CreateIfAbsent,
         AbandonRequest
<1>5. CASE \E f \in File : FileSystem(f)
  BY <1>5 DEF FileSystem, WriteFile, MoveFile
<1>6. CASE \E i \in Instance : Lifecycle(i)
  BY <1>6 DEF Lifecycle, Shutdown, Exit, Crash, Restart
<1>7. CASE UNCHANGED vars
  BY <1>7 DEF vars
<1> QED BY <1>1, <1>2, <1>3, <1>4, <1>5, <1>6, <1>7 DEF Next

LEMMA TypeStep == IndInv /\ [Next]_vars => TypeOK'
<1> SUFFICES ASSUME IndInv, [Next]_vars PROVE TypeOK'
  OBVIOUS
<1> USE DEF IndInv, TypeOK
<1>1. row' \in [Task -> Row]
  BY RowMoves, MoveSound DEF AllMove, Sound
<1>2. wk' \in [Worker -> WorkerState]
  <2>1. CASE \E k \in Worker : WorkerStep(k) \/ Trouble(k)
    BY <2>1, WorkerTyped
  <2>2. CASE \E f \in File : FileSystem(f)
    <3>1. ASSUME NEW k \in Worker
          PROVE  [wk[k] EXCEPT !.clean = FALSE] \in WorkerState
      <4>1. wk[k] \in WorkerState
        OBVIOUS
      <4> QED BY <4>1 DEF WorkerState
    <3>2. PICK f \in File : WriteFile(f) \/ MoveFile(f)
      BY <2>2 DEF FileSystem
    <3>3. CASE WriteFile(f)
      <4>1. wk' = [k \in Worker |-> wk'[k]]
        BY <3>3 DEF WriteFile
      <4>2. \A k \in Worker : wk'[k] \in {wk[k], [wk[k] EXCEPT !.clean = FALSE]}
        BY <3>3 DEF WriteFile
      <4> QED BY <3>1, <4>1, <4>2
    <3>4. CASE MoveFile(f)
      BY <3>4 DEF MoveFile
    <3> QED BY <3>2, <3>3, <3>4
  <2>3. CASE \E i \in Instance : Lifecycle(i)
    <3>1. IdleWorker \in WorkerState
      BY DEF IdleWorker, WorkerState, Pc
    <3> QED BY <2>3, <3>1 DEF Lifecycle, Shutdown, Exit, Crash, Restart
  <2>4. CASE UNCHANGED wk
    BY <2>4
  <2> QED BY <2>1, <2>2, <2>3, <2>4, Frames
<1>3. inst' \in [Instance -> {"up", "stopping", "down"}]
  <2>1. CASE \E i \in Instance : Lifecycle(i)
    BY <2>1 DEF Lifecycle, Shutdown, Exit, Crash, Restart
  <2>2. CASE UNCHANGED inst
    BY <2>2
  <2> QED BY <2>1, <2>2, Frames
<1>4. disk' \in [File -> [ver : Version, present : BOOLEAN]]
  <2>1. ASSUME NEW f \in File, FileSystem(f)
        PROVE  disk' \in [File -> [ver : Version, present : BOOLEAN]]
    <3>1. disk[f].ver < MaxVersion => disk[f].ver + 1 \in Version
      BY DEF Version
    <3>2. CASE WriteFile(f)
      <4>1. disk' = [disk EXCEPT ![f] = [disk[f] EXCEPT !.ver = disk[f].ver + 1]]
        BY <3>2 DEF WriteFile
      <4> QED BY <3>1, <3>2, <4>1 DEF WriteFile
    <3>3. CASE MoveFile(f)
      <4>1. PICK b \in BOOLEAN :
              disk' = [disk EXCEPT ![f] = [disk[f] EXCEPT !.present = b]]
        BY <3>3 DEF MoveFile
      <4> QED BY <4>1
    <3> QED BY <2>1, <3>2, <3>3 DEF FileSystem
  <2> QED BY <2>1, Frames
<1>5. record' \in [File -> Snapshot]
  <2>1. ASSUME NEW k \in Worker, FinishSuccess(k)
        PROVE  record' \in [File -> Snapshot]
    <3>1. wk[k].pc # "idle"
      BY <2>1 DEF FinishSuccess, At
    <3>2. MyKey(k).file \in File
      BY <3>1, BusyWorker DEF MyKey, MyRow, Key
    <3>3. PICK b \in BOOLEAN :
            record' = [record EXCEPT ![MyKey(k).file] =
                         [record[MyKey(k).file] EXCEPT !.uploaded = b]]
      BY <2>1, <3>2 DEF FinishSuccess, Snapshot
    <3> QED BY <3>2, <3>3 DEF Snapshot
  <2>2. ASSUME NEW files \in SUBSET File, ChangeDestination(files)
        PROVE  record' \in [File -> Snapshot]
    <3>1. ASSUME NEW f \in File
          PROVE  [record[f] EXCEPT !.uploaded = FALSE] \in Snapshot
      <4>1. record[f] \in Snapshot
        OBVIOUS
      <4> QED BY <4>1 DEF Snapshot
    <3>2. record' = [f \in File |-> IF f \in files
                       THEN [record[f] EXCEPT !.uploaded = FALSE] ELSE record[f]]
      BY <2>2 DEF ChangeDestination
    <3> QED BY <3>1, <3>2
  <2>3. ASSUME NEW c \in Client, WriteSnapshot(c)
        PROVE  record' \in [File -> Snapshot]
    <3> DEFINE f   == req[c].key.file
               new == [ver |-> req[c].key.ver, tgt |-> req[c].key.tgt,
                       uploaded |-> record[f].uploaded /\ ~req[c].clear]
    <3>1. req[c].key \in Key
      BY <2>3 DEF WriteSnapshot, RequestsSound
    <3>2. f \in File /\ new \in Snapshot
      BY <3>1 DEF Key, Snapshot
    <3>3. record' \in {record, [record EXCEPT ![f] = new]}
      BY <2>3, <3>2 DEF WriteSnapshot
    <3> HIDE DEF new
    <3> QED BY <3>2, <3>3
  <2> QED BY <2>1, <2>2, <2>3, Frames
<1>6. req' \in [Client -> Request]
  <2>1. ASSUME NEW c \in Client, Create(c) PROVE req' \in [Client -> Request]
    <3>1. IdleRequest \in Request
      BY DEF IdleRequest, Request
    <3>2. CASE \E f \in File, tgt \in Target : StatFile(c, f, tgt)
      <4>1. PICK f \in File, tgt \in Target : StatFile(c, f, tgt)
        BY <3>2
      <4> DEFINE key == [file |-> f, ver |-> disk[f].ver, tgt |-> tgt]
      <4>2. key \in Key
        BY DEF Key
      <4>3. req' = [req EXCEPT ![c] = [IdleRequest EXCEPT !.pc = "read",
                                                         !.key = key]]
        BY <4>1 DEF StatFile
      <4> HIDE DEF key
      <4> QED BY <3>1, <4>2, <4>3 DEF Request
    <3>3. CASE ReadRecord(c)
      <4>1. PICK known \in BOOLEAN, clear \in BOOLEAN :
              req' = [req EXCEPT ![c] = [req[c] EXCEPT !.pc = "write",
                                           !.known = known, !.clear = clear]]
        BY <3>3 DEF ReadRecord
      <4> QED BY <4>1, ZenonT(60) DEF Request
    <3>4. CASE WriteSnapshot(c)
      BY <3>4, SMTT(30) DEF WriteSnapshot, Request
    <3>5. CASE CreateIfAbsent(c) \/ AbandonRequest(c)
      BY <3>1, <3>5 DEF CreateIfAbsent, AbandonRequest
    <3> QED BY <2>1, <3>2, <3>3, <3>4, <3>5 DEF Create
  <2> QED BY <2>1, Frames
<1>7. delivered' \in SUBSET Key
  <2>1. ASSUME NEW k \in Worker, CopyReturns(k) PROVE delivered' \in SUBSET Key
    <3>1. MyKey(k) \in Key
      BY <2>1, BusyWorker DEF CopyReturns, At, MyKey, MyRow
    <3> QED BY <2>1, <3>1 DEF CopyReturns
  <2> QED BY <2>1, Frames
<1> QED BY <1>1, <1>2, <1>3, <1>4, <1>5, <1>6, <1>7

(* A row comes to exist only by an insertion. *)
LEMMA MoveExists ==
  ASSUME IndInv, NEW t \in Task, Moves(t), Exists(row'[t])
  PROVE  Exists(row[t]) \/ \E c \in Client : Inserts(c, t)
<1> SUFFICES ASSUME ~Exists(row[t]), ~\E c \in Client : Inserts(c, t)
             PROVE  FALSE
  OBVIOUS
<1>1. row[t].status \notin {"pending", "running", "success", "failed",
                           "paused", "canceled"}
  BY DEF Exists, Status
<1>2. Finalized(row[t]) = row[t] /\ ~Claimable(row[t])
  BY <1>1 DEF Finalized, Abandoned, Exhausted, Claimable
<1>3. CancelRequested(row[t]) = row[t]
  BY <1>1 DEF CancelRequested
<1>4. ~Claims(t) \/ row'[t] = row[t]
  BY <1>2 DEF Claims
<1>5. ~Controls(t) \/ row'[t] = row[t]
  BY <1>1, <1>3
     DEF Controls, Resettable, Pausable, Deletable, Expendable, Exists
<1>6. Ticks(t) => Exists(row[t])
  <2>1. row[t] \in Row /\ RowConsistent(row[t])
    BY RowsSound DEF Sound
  <2> QED BY <1>1, <2>1 DEF Ticks, RowConsistent
<1>7. row'[t] = row[t]
  BY <1>1, <1>4, <1>5, <1>6 DEF Moves, Ends, OwnedUncanceled, OwnedBy
<1> QED BY <1>7

LEMMA NoDuplicateStep == IndInv /\ [Next]_vars => NoDuplicateTask'
<1> SUFFICES ASSUME IndInv, [Next]_vars,
                    NEW t \in Task, NEW u \in Task,
                    Exists(row'[t]), Exists(row'[u]), row'[t].key = row'[u].key
             PROVE  t = u
  BY DEF NoDuplicateTask, Exists
<1>1. Moves(t) /\ Moves(u)
  BY RowMoves DEF AllMove
<1>2. CASE Exists(row[t]) /\ Exists(row[u])
  <2>1. row'[t].key = row[t].key /\ row'[u].key = row[u].key
    BY <1>1, <1>2, MoveSound DEF Exists, Status
  <2> QED BY <1>2, <2>1 DEF IndInv, NoDuplicateTask
<1>3. ASSUME NEW v \in Task, NEW w \in Task, NEW c \in Client, Inserts(c, v),
             Exists(row'[w]), row'[v].key = row'[w].key
      PROVE  v = w
  <2> SUFFICES ASSUME v # w PROVE FALSE
    OBVIOUS
  <2>1. row'[w] = row[w] /\ row'[v] = Inserted(req[c].key)
    BY <1>3 DEF Inserts, IndInv, TypeOK
  <2>2. row'[v].key = req[c].key
    BY <1>3, <2>1, InsertedSound DEF Inserts
  <2> QED BY <1>3, <2>1, <2>2 DEF Inserts, KeyTaken
<1> QED BY <1>1, <1>2, <1>3, MoveExists

LEMMA SuccessStep == IndInv /\ [Next]_vars => SuccessDelivered'
<1> SUFFICES ASSUME IndInv, [Next]_vars,
                    NEW t \in Task, row'[t].status = "success"
             PROVE  row'[t].key \in delivered'
  BY DEF SuccessDelivered
<1>1. row[t].key \in delivered /\ row'[t].key = row[t].key
  BY RowMoves, MoveSuccess DEF AllMove
<1>2. delivered \subseteq delivered'
  BY Frames DEF CopyReturns
<1> QED BY <1>1, <1>2

LEMMA RequestsStep == IndInv /\ [Next]_vars => RequestsSound'
<1> SUFFICES ASSUME IndInv, NEW c \in Client, Create(c) PROVE RequestsSound'
  BY Frames DEF IndInv, RequestsSound
<1> USE DEF IndInv, TypeOK, RequestsSound, IdleRequest
<1>1. ASSUME NEW f \in File, NEW tgt \in Target, StatFile(c, f, tgt)
      PROVE  RequestsSound'
  <2>1. [file |-> f, ver |-> disk[f].ver, tgt |-> tgt] \in Key
    BY DEF Key
  <2> QED BY <1>1, <2>1 DEF StatFile
<1>2. CASE ReadRecord(c) \/ WriteSnapshot(c)
  BY <1>2 DEF ReadRecord, WriteSnapshot, Request
<1>3. CASE CreateIfAbsent(c) \/ AbandonRequest(c)
  BY <1>3 DEF CreateIfAbsent, AbandonRequest
<1> QED BY <1>1, <1>2, <1>3 DEF Create

(* While a worker stays with its task, the row keeps its key.              *)
LEMMA KeyKept ==
  ASSUME IndInv, [Next]_vars, NEW k \in Worker, wk[k].pc # "idle",
         wk'[k].task = wk[k].task
  PROVE  /\ wk'[k].task \in Task /\ wk'[k].task # NoTask
         /\ MyRow(k)'.status # "unused"
         /\ MyKey(k)' = MyKey(k) /\ MyKey(k) \in Key
<1> DEFINE t == wk[k].task
<1>1. t \in Task /\ row[t].status # "unused" /\ row[t].key \in Key
  BY BusyWorker
<1>2. row'[t].key = row[t].key /\ row'[t].status # "unused"
  BY <1>1, RowMoves, MoveSound DEF AllMove
<1> QED BY <1>1, <1>2 DEF MyRow, MyKey

(* A worker whose state and whose disk stay as they are stays sound.       *)
LEMMA StaySound ==
  ASSUME IndInv, [Next]_vars, NEW k \in Worker, wk'[k] = wk[k],
         UNCHANGED disk
  PROVE  WorkerSound(k)'
<1>1. delivered \subseteq delivered'
  BY Frames DEF CopyReturns
<1>2. WorkerSound(k)
  BY DEF IndInv
<1>3. CASE wk[k].pc = "idle"
  BY <1>2, <1>3 DEF WorkerSound, At
<1>4. CASE wk[k].pc # "idle"
  <2>1. /\ wk'[k].task # NoTask
        /\ MyRow(k)'.status # "unused" /\ MyKey(k)' = MyKey(k)
    BY <1>4, KeyKept
  <2> QED BY <1>1, <1>2, <1>4, <2>1 DEF WorkerSound, At, Superseded
<1> QED BY <1>3, <1>4

LEMMA IdleSound ==
  ASSUME NEW k \in Worker, wk'[k] = IdleWorker
  PROVE  WorkerSound(k)'
BY DEF WorkerSound, At, IdleWorker

(* The steps of a worker, seen from the worker itself.                     *)
LEMMA OwnStepSound ==
  ASSUME IndInv, [Next]_vars, NEW k \in Worker, WorkerStep(k) \/ Trouble(k)
  PROVE  WorkerSound(k)'
<1>1. WorkerSound(k) /\ wk \in [Worker -> WorkerState]
  BY DEF IndInv, TypeOK
<1>2. ASSUME Done(k) PROVE WorkerSound(k)'
  BY <1>1, <1>2, IdleSound DEF Done
<1>3. ASSUME NEW pc \in Pc \ {"idle"}, Goto(k, pc), wk[k].pc # "idle",
             UNCHANGED disk, delivered \subseteq delivered',
             pc = "copying" => disk[MyKey(k).file].ver = MyKey(k).ver,
             pc = "copied" => FALSE,
             pc = "verify" => MyKey(k) \in delivered \/ Superseded(MyKey(k)),
             pc = "succeed" => MyKey(k) \in delivered
      PROVE  WorkerSound(k)'
  <2>1. wk'[k] = [IdleWorker EXCEPT !.pc = pc, !.task = wk[k].task]
    BY <1>1, <1>3 DEF Goto
  <2>2. wk'[k].pc = pc /\ wk'[k].task = wk[k].task /\ wk'[k].clean
    BY <2>1 DEF IdleWorker
  <2>3. /\ wk'[k].task # NoTask
        /\ MyRow(k)'.status # "unused" /\ MyKey(k)' = MyKey(k)
    BY <1>3, <2>2, KeyKept
  <2> QED BY <1>3, <2>2, <2>3 DEF WorkerSound, At, Superseded
<1>4. CASE ClaimNext(k)
  <2> DEFINE fin == [t \in Task |-> Finalized(row[t])]
  <2>1. PICK t \in Task :
          /\ Claimable(fin[t])
          /\ row' = [fin EXCEPT ![t] = Claimed(@, k)]
          /\ wk' = [wk EXCEPT ![k] = [IdleWorker EXCEPT !.pc = "claimed",
                                                        !.task = t]]
    BY <1>4 DEF ClaimNext, ClaimRow
  <2>2. Finalized(row[t]) \in Row /\ Claimable(Finalized(row[t]))
    BY <2>1, RowsSound, FinalizedSound DEF Sound
  <2>3. row'[t].status = "running"
    BY <2>1, <2>2 DEF Claimed, Row
  <2>4. wk'[k].pc = "claimed" /\ wk'[k].task = t
    BY <1>1, <2>1 DEF IdleWorker
  <2> QED BY <2>3, <2>4 DEF WorkerSound, At, MyRow
<1>5. CASE CopyReturns(k)
  <2>1. PICK ok \in BOOLEAN :
          /\ wk' = [wk EXCEPT ![k] = [wk[k] EXCEPT !.pc = "copied", !.ok = ok,
                                                   !.clean = TRUE]]
          /\ ok /\ wk[k].clean =>
               \A key \in Key : /\ key.file = MyKey(k).file
                               /\ key.tgt = MyKey(k).tgt
                               /\ key.ver = disk[key.file].ver
                                 => key \in delivered'
    BY <1>1, <1>5 DEF CopyReturns
  <2>2. /\ wk[k].pc = "copying" /\ UNCHANGED disk
        /\ IF wk[k].clean THEN disk[MyKey(k).file].ver = MyKey(k).ver
                          ELSE Superseded(MyKey(k))
    BY <1>1, <1>5 DEF CopyReturns, WorkerSound, At
  <2>5. MyKey(k) \in Key
    BY <2>2, BusyWorker DEF MyKey, MyRow
  <2>6. ok /\ wk[k].clean => MyKey(k) \in delivered'
    BY <2>1, <2>2, <2>5
  <2>3. wk'[k].pc = "copied" /\ wk'[k].task = wk[k].task /\ wk'[k].ok = ok
    BY <1>1, <2>1 DEF WorkerState
  <2>4. /\ wk'[k].task # NoTask
        /\ MyRow(k)'.status # "unused" /\ MyKey(k)' = MyKey(k)
    BY <2>2, <2>3, KeyKept
  <2> QED BY <2>2, <2>3, <2>4, <2>6 DEF WorkerSound, At, Superseded
<1>6. CASE LoseLease(k)
  <2>1. wk' = [wk EXCEPT ![k] = [wk[k] EXCEPT !.lost = TRUE]] /\ UNCHANGED disk
    BY <1>1, <1>6 DEF LoseLease
  <2>2. wk[k].pc = "copying"
    BY <1>6 DEF LoseLease, At
  <2>3. /\ wk'[k].pc = "copying" /\ wk'[k].task = wk[k].task
        /\ wk'[k].clean = wk[k].clean
    BY <1>1, <2>1, <2>2 DEF WorkerState
  <2>4. /\ wk'[k].task # NoTask
        /\ MyRow(k)'.status # "unused" /\ MyKey(k)' = MyKey(k)
    BY <2>2, <2>3, KeyKept
  <2> QED BY <1>1, <2>1, <2>2, <2>3, <2>4 DEF WorkerSound, At, Superseded
<1>7. CASE CheckResult(k)
  <2>1. PICK canceled : LET next == AfterCopy(k, canceled)
                        IN  IF next = "idle" THEN Done(k) ELSE Goto(k, next)
    BY <1>7 DEF CheckResult
  <2> DEFINE next == AfterCopy(k, canceled)
  <2>2. next \in {"cancel", "release", "idle", "verify", "fail"}
    BY DEF AfterCopy
  <2>3. next = "verify" => wk[k].ok
    BY DEF AfterCopy
  <2>4. next = "verify" => MyKey(k) \in delivered \/ Superseded(MyKey(k))
    BY <1>1, <1>7, <2>3 DEF CheckResult, WorkerSound
  <2> HIDE DEF next
  <2>5. CASE next = "idle"
    BY <1>2, <2>1, <2>5 DEF next
  <2>6. CASE next # "idle"
    <3>1. Goto(k, next) /\ next \in Pc \ {"idle"}
      BY <2>1, <2>2, <2>6 DEF next, Pc
    <3>2. wk[k].pc # "idle" /\ UNCHANGED disk /\ delivered \subseteq delivered'
      BY <1>7 DEF CheckResult, At
    <3> QED BY <1>3, <2>2, <2>4, <3>1, <3>2
  <2> QED BY <2>5, <2>6
<1>8. CASE RejectTask(k) \/ StatFails(k)
  BY <1>3, <1>8 DEF RejectTask, StatFails, At, Pc
<1>9. CASE StartCopy(k)
  <2> DEFINE pc == IF Matches(MyKey(k)) THEN "copying" ELSE "cancel"
  <2>1. /\ Goto(k, pc) /\ wk[k].pc # "idle" /\ UNCHANGED disk
        /\ delivered \subseteq delivered'
    BY <1>9 DEF StartCopy, At
  <2>2. pc = "copying" => disk[MyKey(k).file].ver = MyKey(k).ver
    BY DEF Matches
  <2>3. pc \in {"copying", "cancel"} /\ pc \in Pc \ {"idle"}
    BY DEF Pc
  <2> HIDE DEF pc
  <2> QED BY <1>3, <2>1, <2>2, <2>3
<1>10. CASE VerifyFile(k)
  <2> DEFINE pc == IF Matches(MyKey(k)) THEN "succeed" ELSE "cancel"
  <2>1. /\ Goto(k, pc) /\ wk[k].pc # "idle" /\ UNCHANGED disk
        /\ delivered \subseteq delivered'
    BY <1>10 DEF VerifyFile, At
  <2>2. MyKey(k) \in Key
    BY <2>1, BusyWorker DEF MyKey, MyRow
  <2>3. pc = "succeed" => MyKey(k) \in delivered
    BY <1>1, <1>10, <2>2
       DEF VerifyFile, WorkerSound, Matches, Superseded, Key, Version
  <2>4. pc \in {"succeed", "cancel"} /\ pc \in Pc \ {"idle"}
    BY DEF Pc
  <2> HIDE DEF pc
  <2> QED BY <1>3, <2>1, <2>3, <2>4
<1>11. CASE Finish(k)
  BY <1>2, <1>3, <1>11
     DEF Finish, FinishSuccess, FinishCanceled, FailOrRetry, FailInShutdown,
         ReleaseCanceled, ReleaseLease, Pc, At
<1>12. CASE FinishFails(k)
  BY <1>2, <1>12 DEF FinishFails
<1>13. CASE wk'[k] = wk[k] /\ UNCHANGED disk
  BY <1>13, StaySound
<1> QED
  BY <1>4, <1>5, <1>6, <1>7, <1>8, <1>9, <1>10, <1>11, <1>12, <1>13
     DEF WorkerStep, Trouble, Process, RenewLease, ClaimUnnoticed

(* A write leaves the version of the task behind, and a copy under way     *)
(* takes note.                                                             *)
LEMMA FileStepSound ==
  ASSUME IndInv, [Next]_vars, NEW f \in File, FileSystem(f), NEW k \in Worker
  PROVE  WorkerSound(k)'
<1> DEFINE g == MyKey(k).file
<1>1. WorkerSound(k) /\ wk[k] \in WorkerState /\ UNCHANGED <<row, delivered>>
  BY DEF IndInv, TypeOK, FileSystem, WriteFile, MoveFile
<1>2. CASE wk[k].pc = "idle"
  <2>1. wk'[k] = wk[k]
    BY <1>2 DEF FileSystem, WriteFile, MoveFile, At
  <2> QED BY <1>1, <1>2, <2>1 DEF WorkerSound, At
<1>3. CASE wk[k].pc # "idle"
  <2>1. MyKey(k) \in Key /\ g \in File /\ disk[g].ver \in Version
    BY <1>3, BusyWorker DEF MyKey, MyRow, Key, IndInv, TypeOK
  <2>2. /\ wk'[k].pc = wk[k].pc /\ wk'[k].task = wk[k].task
        /\ wk'[k].ok = wk[k].ok
    BY <1>1 DEF FileSystem, WriteFile, MoveFile, WorkerState
  <2>3. disk'[g].ver \in Nat /\ disk'[g].ver >= disk[g].ver
    BY <2>1, SMTT(30) DEF FileSystem, WriteFile, MoveFile, IndInv, TypeOK, Version
  <2>4. wk'[k].clean => wk[k].clean
    BY <1>1 DEF FileSystem, WriteFile, MoveFile, WorkerState
  <2>5. wk[k].pc = "copying" /\ wk[k].clean =>
          IF wk'[k].clean THEN disk'[g].ver = disk[g].ver
                          ELSE disk'[g].ver > disk[g].ver
    <3> SUFFICES ASSUME wk[k].pc = "copying", wk[k].clean
                 PROVE  IF wk'[k].clean THEN disk'[g].ver = disk[g].ver
                                        ELSE disk'[g].ver > disk[g].ver
      OBVIOUS
    <3>1. disk \in [File -> [ver : Version, present : BOOLEAN]]
      BY DEF IndInv, TypeOK
    <3>2. CASE MoveFile(f)
      BY <2>1, <3>1, <3>2 DEF MoveFile
    <3>3. CASE WriteFile(f) /\ f = g
      <4>1. ~wk'[k].clean
        BY <1>1, <3>3 DEF WriteFile, At, WorkerState
      <4>2. disk'[g].ver = disk[g].ver + 1
        BY <2>1, <3>1, <3>3 DEF WriteFile
      <4> QED BY <2>1, <4>1, <4>2 DEF Version
    <3>4. CASE WriteFile(f) /\ f # g
      <4>1. wk'[k] = wk[k]
        BY <3>4 DEF WriteFile
      <4>2. disk'[g] = disk[g]
        BY <2>1, <3>1, <3>4 DEF WriteFile
      <4> QED BY <4>1, <4>2
    <3> QED BY <3>2, <3>3, <3>4 DEF FileSystem
  <2>6. MyRow(k)' = MyRow(k) /\ MyKey(k)' = MyKey(k)
    BY <1>1, <2>2 DEF MyRow, MyKey
  <2>7. MyKey(k).ver \in Nat /\ disk[g].ver \in Nat
    BY <2>1 DEF Key, Version
  <2> HIDE DEF g
  <2>8. wk[k].pc = "copying" =>
          IF wk'[k].clean THEN disk'[g].ver = MyKey(k).ver
                          ELSE disk'[g].ver > MyKey(k).ver
    BY <1>1, <2>3, <2>4, <2>5, <2>7 DEF WorkerSound, At, Superseded, g
  <2>9. disk[g].ver > MyKey(k).ver => disk'[g].ver > MyKey(k).ver
    BY <2>3, <2>7
  <2> QED
    BY <1>1, <1>3, <2>2, <2>6, <2>8, <2>9
       DEF WorkerSound, At, Superseded, g
<1> QED BY <1>2, <1>3

LEMMA WorkersStep ==
  IndInv /\ [Next]_vars => \A k \in Worker : WorkerSound(k)'
<1> SUFFICES ASSUME IndInv, [Next]_vars, NEW k \in Worker
             PROVE  WorkerSound(k)'
  OBVIOUS
<1>1. wk \in [Worker -> WorkerState]
  BY DEF IndInv, TypeOK
<1>2. CASE \E f \in File : FileSystem(f)
  BY <1>2, FileStepSound
<1>3. CASE UNCHANGED disk /\ wk'[k] = wk[k]
  BY <1>3, StaySound
<1>4. ASSUME NEW j \in Worker, WorkerStep(j) \/ Trouble(j), UNCHANGED disk
      PROVE  WorkerSound(k)'
  <2>1. CASE j = k
    BY <1>4, <2>1, OwnStepSound
  <2>2. CASE j # k
    <3>1. wk'[k] = wk[k]
      BY <1>1, <1>4, <2>2
         DEF WorkerStep, Trouble, Process, Finish, ClaimNext, ClaimUnnoticed,
             RejectTask, StatFails, StartCopy, RenewLease, LoseLease,
             CopyReturns, CheckResult, VerifyFile, FinishSuccess,
             FinishCanceled, FailOrRetry, FailInShutdown, ReleaseCanceled,
             ReleaseLease, FinishFails, Goto, Done
    <3> QED BY <1>3, <1>4, <3>1
  <2> QED BY <2>1, <2>2
<1>5. ASSUME NEW i \in Instance, Lifecycle(i), UNCHANGED disk
      PROVE  WorkerSound(k)'
  <2>1. wk'[k] = wk[k] \/ wk'[k] = IdleWorker
    BY <1>5 DEF Lifecycle, Shutdown, Exit, Crash, Restart
  <2> QED BY <1>3, <1>5, <2>1, IdleSound
<1> QED BY <1>2, <1>3, <1>4, <1>5, Frames

LEMMA InitIndInv == Init => IndInv
<1> SUFFICES ASSUME Init PROVE IndInv
  OBVIOUS
<1>1. TypeOK
  <2>1. UnusedRow \in Row
    BY UnusedSound DEF Sound
  <2>2. 1 \in Version
    BY DEF Version
  <2> QED
    BY <2>1, <2>2
       DEF Init, TypeOK, IdleWorker, WorkerState, Pc, NoRecord, Snapshot,
           IdleRequest, Request
<1>2. RowsConsistent
  BY UnusedSound DEF Init, RowsConsistent, Sound
<1>3. NoDuplicateTask /\ SuccessDelivered
  BY DEF Init, NoDuplicateTask, SuccessDelivered, Exists, Status, UnusedRow
<1>4. \A k \in Worker : WorkerSound(k)
  BY DEF Init, WorkerSound, At, IdleWorker
<1>5. RequestsSound
  BY DEF Init, RequestsSound, IdleRequest
<1> QED BY <1>1, <1>2, <1>3, <1>4, <1>5 DEF IndInv

(* The invariant is inductive. *)
THEOREM Invariance == Spec => []IndInv
<1>1. IndInv /\ [Next]_vars => IndInv'
  <2> SUFFICES ASSUME IndInv, [Next]_vars PROVE IndInv'
    OBVIOUS
  <2>1. RowsConsistent'
    BY RowMoves, MoveSound DEF AllMove, RowsConsistent, Sound
  <2> QED
    BY <2>1, TypeStep, NoDuplicateStep, SuccessStep, WorkersStep, RequestsStep
       DEF IndInv
<1> QED BY <1>1, InitIndInv, PTL DEF Spec

(* Every row, worker, request, file and record stays within its type.      *)
THEOREM TypeCorrect == Spec => []TypeOK
<1>1. IndInv => TypeOK
  BY DEF IndInv
<1> QED BY <1>1, Invariance, PTL

(* Every row stays in a state that some path of the code takes further.    *)
THEOREM RowsStayConsistent == Spec => []RowsConsistent
<1>1. IndInv => RowsConsistent
  BY DEF IndInv
<1> QED BY <1>1, Invariance, PTL

(* No file version is queued twice for the same destination.               *)
THEOREM NoDuplicates == Spec => []NoDuplicateTask
<1>1. IndInv => NoDuplicateTask
  BY DEF IndInv
<1> QED BY <1>1, Invariance, PTL

(* A task that says success has delivered the version it was created for.  *)
THEOREM SuccessIsReal == Spec => []SuccessDelivered
<1>1. IndInv => SuccessDelivered
  BY DEF IndInv
<1> QED BY <1>1, Invariance, PTL

-----------------------------------------------------------------------------
(* Action properties.                                                      *)

(* A running row with a live lease is neither finalized nor claimed; one   *)
(* that is to be cancelled and has lapsed can only become canceled.        *)
LEMMA LiveRow ==
  ASSUME NEW t \in Task, row[t].status = "running", row[t].lease = "live",
         Claims(t)
  PROVE  row'[t] = row[t]
<1>1. Finalized(row[t]) = row[t] /\ ~Claimable(row[t])
  BY DEF Finalized, Abandoned, Exhausted, Lapsed, Claimable
<1> QED BY <1>1 DEF Claims

LEMMA CanceledRow ==
  ASSUME NEW t \in Task, row[t] \in Row, row[t].cancel,
         row[t].status = "running", row[t].lease # "live", Claims(t)
  PROVE  row'[t].status = "canceled"
<1>1. Finalized(row[t]) = Canceled(row[t])
  BY DEF Finalized, Abandoned, Lapsed
<1>2. Canceled(row[t]).status = "canceled" /\ ~Claimable(Canceled(row[t]))
  BY DEF Canceled, Unleased, Row, Claimable
<1> QED BY <1>1, <1>2 DEF Claims

(* What an API call makes of a running row: at most a request to stop.     *)
LEMMA RunningControl ==
  ASSUME NEW t \in Task, row[t].status = "running", Controls(t)
  PROVE  row'[t] = [row[t] EXCEPT !.cancel = TRUE]
BY DEF Controls, CancelRequested, Resettable, Pausable, Deletable, Expendable

(* While a lease is live nobody but its owner, at the end of its work on   *)
(* this task, ends the attempt or takes it over.                           *)
THEOREM LeaseIsRespected == Spec => LiveLeaseRespected
<1>1. IndInv /\ [Next]_vars => [\A t \in Task : LeaseRespected(t)]_vars
  <2> SUFFICES ASSUME IndInv, [Next]_vars, NEW t \in Task,
                      row[t].lease = "live", ~Continues(t)
               PROVE  \E k \in Worker : /\ row[t].owner = k
                                       /\ wk[k].task = t
                                       /\ wk[k].pc \in FinishPc
                                       /\ wk'[k] = IdleWorker
    BY DEF LeaseRespected
  <2>1. row[t] \in Row /\ row[t].status = "running"
    BY RowsSound DEF Sound, RowConsistent
  <2>2. row'[t] # row[t]
    BY <2>1 DEF Continues
  <2>3. CASE \E k \in Worker : Ends(k, t)
    BY <2>3 DEF Ends, OwnedBy
  <2>4. ~Claims(t)
    BY <2>1, <2>2, LiveRow
  <2>5. row'[t] # Renewed(row[t])
    BY <2>1 DEF Renewed, Continues, Row
  <2>6. ~Controls(t)
    BY <2>1, RunningControl DEF Continues, Row
  <2>7. ~Ticks(t)
    BY <2>1 DEF Ticks, Continues, Row
  <2> QED
    BY <2>1, <2>2, <2>3, <2>4, <2>5, <2>6, <2>7, RowMoves
       DEF AllMove, Moves, Inserts
<1> QED BY <1>1, Invariance, PTL DEF Spec, LiveLeaseRespected

(* A running task that is asked to stop stays asked, its lease is not      *)
(* renewed or handed on, and the only way out is canceled.                 *)
THEOREM CancelIsHonoured == Spec => CancelSticks
<1> DEFINE Sticks(t) ==
      row[t].cancel =>
        \/ Continues(t) /\ row'[t].cancel
             /\ (Lapsed(row[t]) => Lapsed(row'[t]))
        \/ row'[t].status = "canceled"
<1>1. IndInv /\ [Next]_vars => [\A t \in Task : Sticks(t)]_vars
  <2> SUFFICES ASSUME IndInv, [Next]_vars, NEW t \in Task, row[t].cancel
               PROVE  Sticks(t)
    OBVIOUS
  <2>1. row[t] \in Row /\ row[t].status = "running"
    BY RowsSound DEF Sound, RowConsistent
  <2>2. CASE row'[t] = row[t]
    BY <2>1, <2>2 DEF Continues
  <2>3. CASE Claims(t)
    BY <2>1, <2>2, <2>3, LiveRow, CanceledRow
  <2>4. CASE \E k \in Worker : Ends(k, t)
    <3>1. row'[t] = Canceled(row[t])
      BY <2>4 DEF Ends, AfterFailure
    <3> QED BY <2>1, <3>1 DEF Canceled, Unleased, Row
  <2>5. CASE Controls(t)
    BY <2>1, <2>5, RunningControl DEF Continues, Lapsed, Row
  <2>6. CASE Ticks(t)
    BY <2>1, <2>6 DEF Ticks, Continues, Lapsed, Row
  <2> QED
    BY <2>1, <2>2, <2>3, <2>4, <2>5, <2>6, RowMoves
       DEF AllMove, Moves, Inserts, OwnedUncanceled
<1> QED BY <1>1, Invariance, PTL DEF Spec, CancelSticks

(* A successful task is never touched again, except to be removed.         *)
THEOREM SuccessStays == Spec => SuccessIsFinal
<1> DEFINE Stays(t) == row[t].status = "success" =>
                         row'[t] \in {row[t], Removed(row[t])}
<1>1. IndInv /\ [Next]_vars => [\A t \in Task : Stays(t)]_vars
  <2> SUFFICES ASSUME IndInv, [Next]_vars, NEW t \in Task,
                      row[t].status = "success"
               PROVE  row'[t] \in {row[t], Removed(row[t])}
    OBVIOUS
  <2>1. row[t] \in Row /\ RowConsistent(row[t])
    BY RowsSound DEF Sound
  <2>2. Finalized(row[t]) = row[t] /\ ~Claimable(row[t])
    BY <2>1 DEF RowConsistent, Finalized, Abandoned, Exhausted, Claimable
  <2>3. Controls(t) => row'[t] \in {row[t], Removed(row[t])}
    BY DEF Controls, CancelRequested, Resettable, Pausable
  <2>4. ~Ticks(t)
    BY <2>1 DEF Ticks, RowConsistent
  <2> QED
    BY <2>2, <2>3, <2>4, RowMoves
       DEF AllMove, Moves, Claims, Ends, OwnedBy, OwnedUncanceled, Inserts
<1> QED BY <1>1, Invariance, PTL DEF Spec, SuccessIsFinal

(* A running row says success only by a FinishSuccess of its owner.        *)
LEMMA SuccessByOwner ==
  ASSUME IndInv, NEW t \in Task, Moves(t), Succeeds(t)
  PROVE  \E k \in Worker : /\ wk[k].task = t /\ FinishSuccess(k)
                           /\ OwnedUncanceled(row[t], k)
<1>1. row[t] \in Row /\ row[t].status = "running" /\ row'[t].status = "success"
  BY RowsSound DEF Sound, Succeeds
<1>2. ~Claims(t)
  <2>1. Finalized(row[t]) \in Row /\ Finalized(row[t]).status # "success"
    <3>1. Finalized(row[t]) \in Row
      BY <1>1, RowsSound, FinalizedSound DEF Sound
    <3> QED BY <1>1, <3>1 DEF Finalized, Canceled, Failed, Unleased, Row
  <2>2. \A k : Claimed(Finalized(row[t]), k).status = "running"
    BY <2>1 DEF Claimed, Row
  <2> QED BY <1>1, <2>1, <2>2 DEF Claims
<1>3. /\ Canceled(row[t]).status # "success"
      /\ AfterFailure(row[t]).status # "success"
      /\ Released(row[t]).status # "success"
      /\ Renewed(row[t]).status # "success"
  BY <1>1
     DEF Canceled, AfterFailure, Retried, Failed, Released, Renewed, Unleased,
         Row
<1>4. ~Controls(t)
  BY <1>1, RunningControl DEF Row
<1>5. ~Ticks(t)
  BY <1>1 DEF Ticks, Row
<1> QED
  BY <1>1, <1>2, <1>3, <1>4, <1>5
     DEF Moves, Ends, Inserts, OwnedUncanceled

(* The uploaded mark and the success of the task are one commit.           *)
THEOREM MarkIsCommitted == Spec => MarkWithSuccess
<1> DEFINE Marks(f) ==
             ~record[f].uploaded /\ record'[f].uploaded =>
               \E t \in Task : /\ Succeeds(t) /\ row[t].key.file = f
                               /\ SameSnapshot(record[f], row[t].key)
           Marked(t) ==
             LET key == row[t].key
             IN  Succeeds(t) /\ SameSnapshot(record[key.file], key) =>
                   record'[key.file].uploaded
<1>1. ASSUME IndInv, [Next]_vars, NEW f \in File PROVE Marks(f)
  <2> SUFFICES ASSUME ~record[f].uploaded, record'[f].uploaded
               PROVE  \E t \in Task : /\ Succeeds(t) /\ row[t].key.file = f
                                      /\ SameSnapshot(record[f], row[t].key)
    OBVIOUS
  <2>1. record \in [File -> Snapshot] /\ row \in [Task -> Row]
    BY <1>1 DEF IndInv, TypeOK
  <2>2. ~\E files \in SUBSET File : ChangeDestination(files)
    BY <2>1 DEF ChangeDestination, Snapshot
  <2>3. ~\E c \in Client : WriteSnapshot(c)
    <3> SUFFICES ASSUME NEW c \in Client, WriteSnapshot(c) PROVE FALSE
      OBVIOUS
    <3>1. CASE f = req[c].key.file
      BY <2>1, <3>1 DEF WriteSnapshot, Snapshot
    <3>2. CASE f # req[c].key.file
      BY <2>1, <3>2 DEF WriteSnapshot
    <3> QED BY <3>1, <3>2
  <2>4. PICK k \in Worker : FinishSuccess(k)
    BY <1>1, <2>2, <2>3, Frames
  <2> DEFINE t == wk[k].task
  <2>5. t \in Task
    BY <1>1, <2>4, BusyWorker DEF FinishSuccess, At
  <2>6. /\ row[t].key.file = f /\ OwnedUncanceled(row[t], k)
        /\ SameSnapshot(record[f], row[t].key)
    BY <2>1, <2>4 DEF FinishSuccess, Confirms, MyKey, MyRow, Snapshot
  <2>7. row'[t] = Succeeded(row[t])
    BY <2>1, <2>4, <2>5, <2>6 DEF FinishSuccess, MyRow, UpdateRow
  <2>8. Succeeds(t)
    BY <2>1, <2>5, <2>6, <2>7
       DEF Succeeds, Succeeded, Unleased, OwnedUncanceled, OwnedBy, Row
  <2> QED BY <2>5, <2>6, <2>8
<1>2. ASSUME IndInv, [Next]_vars, NEW t \in Task PROVE Marked(t)
  <2> SUFFICES ASSUME Succeeds(t),
                      SameSnapshot(record[row[t].key.file], row[t].key)
               PROVE  record'[row[t].key.file].uploaded
    OBVIOUS
  <2>1. PICK k \in Worker : /\ wk[k].task = t /\ FinishSuccess(k)
                            /\ OwnedUncanceled(row[t], k)
    BY <1>2, RowMoves, SuccessByOwner DEF AllMove
  <2>2. row[t].key.file \in File /\ record \in [File -> Snapshot]
    BY <1>2, <2>1, BusyWorker DEF FinishSuccess, At, Key, IndInv, TypeOK
  <2> QED BY <2>1, <2>2 DEF FinishSuccess, Confirms, MyKey, MyRow, Snapshot
<1>3. IndInv /\ [Next]_vars
        => [(\A f \in File : Marks(f)) /\ (\A t \in Task : Marked(t))]_vars
  BY <1>1, <1>2
<1> QED BY <1>3, Invariance, PTL DEF Spec, MarkWithSuccess

(* No two CreateTask calls for one file overlap. *)
Apart ==
  \A c, d \in Client :
    c # d /\ req[c].pc # "idle" /\ req[d].pc # "idle" =>
      req[c].key.file # req[d].key.file

(* A call that leaves the mark alone has read the snapshot it is about to  *)
(* write, and that is still what the record says.                          *)
ReadHolds(c) ==
  req[c].pc = "write" /\ req[c].known /\ ~req[c].clear =>
    SameSnapshot(record[req[c].key.file], req[c].key)

MarkInv == MarkDelivered /\ \A c \in Client : ReadHolds(c)

(* Nothing but a CreateTask call changes what a snapshot is of. *)
LEMMA SnapshotKept ==
  ASSUME IndInv, [Next]_vars, NEW f \in File,
         \A c \in Client : WriteSnapshot(c) => req[c].key.file # f
  PROVE  /\ record'[f].ver = record[f].ver /\ record'[f].tgt = record[f].tgt
         /\ record'[f].uploaded => record[f].uploaded \/ record'[f] = record[f]
              \/ \E k \in Worker : /\ FinishSuccess(k) /\ Confirms(k)
                                   /\ MyKey(k).file = f
<1>1. record \in [File -> Snapshot]
  BY DEF IndInv, TypeOK
<1>2. ASSUME NEW k \in Worker, FinishSuccess(k)
      PROVE  /\ record'[f].ver = record[f].ver
             /\ record'[f].tgt = record[f].tgt
             /\ record'[f].uploaded =>
                  record[f].uploaded \/ (Confirms(k) /\ MyKey(k).file = f)
  <2> DEFINE g == MyKey(k).file
             mark == record[g].uploaded \/ Confirms(k)
  <2>1. record' = [record EXCEPT ![g].uploaded = mark]
    BY <1>2 DEF FinishSuccess
  <2> HIDE DEF mark
  <2>2. CASE f = g
    <3>1. record'[f] = [record[f] EXCEPT !.uploaded = mark]
      BY <1>1, <2>1, <2>2
    <3>2. /\ record'[f].ver = record[f].ver /\ record'[f].tgt = record[f].tgt
          /\ record'[f].uploaded = mark
      BY <1>1, <3>1 DEF Snapshot
    <3> QED BY <2>2, <3>2 DEF mark
  <2>3. CASE f # g
    BY <1>1, <2>1, <2>3
  <2> QED BY <2>2, <2>3
<1>3. ASSUME NEW files \in SUBSET File, ChangeDestination(files)
      PROVE  /\ record'[f].ver = record[f].ver
             /\ record'[f].tgt = record[f].tgt
             /\ record'[f].uploaded => record[f].uploaded
  BY <1>1, <1>3 DEF ChangeDestination, Snapshot
<1>4. ASSUME NEW c \in Client, WriteSnapshot(c) PROVE record'[f] = record[f]
  BY <1>1, <1>4 DEF WriteSnapshot
<1> QED BY <1>2, <1>3, <1>4, Frames

(* What a CreateTask call writes has the mark only if the record it        *)
(* replaces has it, for the same version and destination.                  *)
LEMMA WriteKeepsMark ==
  ASSUME IndInv, NEW c \in Client, WriteSnapshot(c), ReadHolds(c),
         record'[req[c].key.file].uploaded
  PROVE  record'[req[c].key.file] = record[req[c].key.file]
<1> DEFINE key == req[c].key
           rec == record[key.file]
<1>1. record \in [File -> Snapshot] /\ key \in Key /\ key.file \in File
  BY DEF IndInv, TypeOK, RequestsSound, WriteSnapshot, Key
<1>2. CASE req[c].known \/ rec = NoRecord
  <2>1. record'[key.file] = [ver |-> key.ver, tgt |-> key.tgt,
                             uploaded |-> rec.uploaded /\ ~req[c].clear]
    BY <1>1, <1>2 DEF WriteSnapshot
  <2> DEFINE mark == rec.uploaded /\ ~req[c].clear
  <2>2. mark
    <3>1. record'[key.file] = [ver |-> key.ver, tgt |-> key.tgt,
                               uploaded |-> mark]
      BY <2>1
    <3> HIDE DEF mark
    <3>2. record'[key.file].uploaded = mark
      BY <3>1
    <3> QED BY <3>2
  <2>3. req[c].known
    BY <1>2, <2>2 DEF NoRecord
  <2>4. SameSnapshot(rec, key)
    BY <2>2, <2>3 DEF ReadHolds, WriteSnapshot
  <2>5. rec = [ver |-> rec.ver, tgt |-> rec.tgt, uploaded |-> rec.uploaded]
    BY <1>1 DEF Snapshot
  <2> QED BY <1>1, <2>1, <2>2, <2>4, <2>5 DEF SameSnapshot, Snapshot
<1>3. CASE ~(req[c].known \/ rec = NoRecord)
  BY <1>1, <1>3 DEF WriteSnapshot
<1> QED BY <1>2, <1>3

LEMMA MarkStep ==
  ASSUME IndInv, MarkInv, Apart, [Next]_vars
  PROVE  MarkInv'
<1>1. record \in [File -> Snapshot] /\ delivered \subseteq delivered'
  BY Frames DEF IndInv, TypeOK, CopyReturns
<1>2. ASSUME NEW f \in File, record'[f].uploaded
      PROVE  [file |-> f, ver |-> record'[f].ver, tgt |-> record'[f].tgt]
               \in delivered'
  <2>1. CASE \E c \in Client : WriteSnapshot(c) /\ req[c].key.file = f
    <3>1. PICK c \in Client : WriteSnapshot(c) /\ req[c].key.file = f
      BY <2>1
    <3>2. record'[f] = record[f]
      BY <1>2, <3>1, WriteKeepsMark DEF MarkInv
    <3> QED BY <1>1, <1>2, <3>2 DEF MarkInv, MarkDelivered
  <2>2. CASE \A c \in Client : WriteSnapshot(c) => req[c].key.file # f
    <3>1. record'[f].ver = record[f].ver /\ record'[f].tgt = record[f].tgt
      BY <2>2, SnapshotKept
    <3>2. CASE record[f].uploaded
      BY <1>1, <3>1, <3>2 DEF MarkInv, MarkDelivered
    <3>3. CASE ~record[f].uploaded
      <4>1. PICK k \in Worker : /\ FinishSuccess(k) /\ Confirms(k)
                               /\ MyKey(k).file = f
        BY <1>2, <2>2, <3>3, SnapshotKept
      <4>2. MyKey(k) \in delivered /\ MyKey(k) \in Key
        BY <4>1, BusyWorker
           DEF IndInv, WorkerSound, FinishSuccess, At, MyKey, MyRow
      <4>3. MyKey(k).ver = record[f].ver /\ MyKey(k).tgt = record[f].tgt
        BY <4>1 DEF Confirms, SameSnapshot
      <4>4. MyKey(k) = [file |-> f, ver |-> record[f].ver,
                        tgt |-> record[f].tgt]
        BY <4>1, <4>2, <4>3 DEF Key
      <4> QED BY <1>1, <3>1, <4>2, <4>4
    <3> QED BY <3>2, <3>3
  <2> QED BY <2>1, <2>2
<1>3. ASSUME NEW c \in Client PROVE ReadHolds(c)'
  <2>1. req \in [Client -> Request]
    BY DEF IndInv, TypeOK
  <2>2. ASSUME ReadRecord(c) PROVE ReadHolds(c)'
    <3>1. record' = record /\ req'[c].key = req[c].key
          /\ req'[c].clear = (record[req[c].key.file] # NoRecord
               /\ ~SameSnapshot(record[req[c].key.file], req[c].key))
          /\ req'[c].known = (record[req[c].key.file] # NoRecord)
      BY <2>1, <2>2 DEF ReadRecord, Request
    <3> QED BY <3>1 DEF ReadHolds, SameSnapshot
  <2>3. ASSUME req'[c] = req[c], req[c].pc = "write" PROVE ReadHolds(c)'
    <3> DEFINE f == req[c].key.file
    <3>1. f \in File
      BY <2>3 DEF IndInv, RequestsSound, Key
    <3>2. ASSUME NEW d \in Client, WriteSnapshot(d)
          PROVE  req[d].key.file # f
      <4>1. d # c
        BY <2>1, <2>3, <3>2 DEF WriteSnapshot, Request
      <4> QED BY <2>3, <3>2, <4>1 DEF Apart, WriteSnapshot
    <3>3. record'[f].ver = record[f].ver /\ record'[f].tgt = record[f].tgt
      BY <3>1, <3>2, SnapshotKept
    <3> QED BY <2>3, <3>3 DEF MarkInv, ReadHolds, SameSnapshot
  <2>4. req'[c].pc # "write" \/ req'[c] = req[c] \/ ReadRecord(c)
    <3>1. ASSUME NEW d \in Client, Create(d), d # c PROVE req'[c] = req[c]
      BY <2>1, <3>1 DEF Create, StatFile, ReadRecord, WriteSnapshot,
         CreateIfAbsent, AbandonRequest
    <3>2. ASSUME Create(c), ~ReadRecord(c) PROVE req'[c].pc # "write"
      <4>1. ASSUME NEW f \in File, NEW tgt \in Target, StatFile(c, f, tgt)
            PROVE  req'[c].pc = "read"
        BY <2>1, <4>1 DEF StatFile, IdleRequest
      <4>2. WriteSnapshot(c) => req'[c].pc = "insert"
        BY <2>1 DEF WriteSnapshot, Request
      <4>3. CreateIfAbsent(c) \/ AbandonRequest(c) => req'[c].pc = "idle"
        BY <2>1 DEF CreateIfAbsent, AbandonRequest, IdleRequest
      <4> QED BY <3>2, <4>1, <4>2, <4>3 DEF Create
    <3> QED BY <3>1, <3>2, Frames
  <2> QED BY <2>2, <2>3, <2>4 DEF ReadHolds
<1> QED BY <1>2, <1>3 DEF MarkInv, MarkDelivered

(* A snapshot that is marked uploaded has been uploaded, in any history in *)
(* which no two CreateTask calls for the same file overlap.  With a second *)
(* call between the read and the write of the snapshot it may not have     *)
(* been; nothing else that can happen to a task, its worker, its file or   *)
(* its destination takes the mark to another version.                      *)
THEOREM MarksAreReal == Spec => ([]Apart => []MarkDelivered)
<1>1. Init => MarkInv
  BY DEF Init, MarkInv, MarkDelivered, ReadHolds, NoRecord, IdleRequest
<1>2. IndInv /\ MarkInv /\ Apart /\ [Next]_vars => MarkInv'
  BY MarkStep
<1>3. MarkInv => MarkDelivered
  BY DEF MarkInv
<1> QED BY <1>1, <1>2, <1>3, Invariance, PTL DEF Spec

-----------------------------------------------------------------------------
(* Refinement.                                                             *)

LEMMA CancelIsEdge ==
  ASSUME NEW t \in Task, row[t] \in Row, row'[t] = Canceled(row[t]),
         row[t].status \in {"pending", "running", "paused", "failed"}
  PROVE  StateMachine!Edge(t)
<1>1. /\ StateOf(row'[t]) = "canceled" /\ row'[t].attempts = row[t].attempts
      /\ ~row'[t].cancel
  BY DEF Canceled, Unleased, Row, StateOf
<1>2. StateMachine!Cancel(t)
  BY <1>1 DEF StateMachine!Cancel, StateMachine!Go, StateOf
<1> QED BY <1>2 DEF StateMachine!Edge

LEMMA FailIsEdge ==
  ASSUME NEW t \in Task, row[t] \in Row, row'[t] = Failed(row[t]),
         row[t].status = "running", ~row[t].cancel,
         ~(row[t].attempts < MaxAttempts)
  PROVE  StateMachine!Edge(t)
<1>1. /\ StateOf(row'[t]) = "failed" /\ row'[t].attempts = row[t].attempts
      /\ ~row'[t].cancel
  BY DEF Failed, Unleased, Row, StateOf
<1>2. row[t].attempts = MaxAttempts
  BY DEF Row
<1>3. StateMachine!Fail(t)
  BY <1>1, <1>2
     DEF StateMachine!Fail, StateMachine!Running, StateMachine!Go, StateOf
<1> QED BY <1>3 DEF StateMachine!Edge

LEMMA ClaimIsEdge ==
  ASSUME NEW t \in Task, row[t] \in Row, Claims(t)
  PROVE  StateMachine!Edge(t)
<1> USE DEF StateMachine!Edge
<1>1. CASE Abandoned(row[t])
  <2>1. Finalized(row[t]) = Canceled(row[t])
    BY <1>1 DEF Finalized
  <2>2. ~Claimable(Canceled(row[t]))
    BY DEF Canceled, Unleased, Claimable, Row
  <2> QED BY <1>1, <2>1, <2>2, CancelIsEdge DEF Claims, Abandoned
<1>2. CASE ~Abandoned(row[t]) /\ Exhausted(row[t])
  <2>1. Finalized(row[t]) = Failed(row[t])
    BY <1>2 DEF Finalized
  <2>2. ~Claimable(Failed(row[t]))
    BY DEF Failed, Unleased, Claimable, Row
  <2>3. /\ row[t].status = "running" /\ ~row[t].cancel
        /\ ~(row[t].attempts < MaxAttempts)
    BY <1>2 DEF Exhausted, Abandoned, Row
  <2> QED BY <2>1, <2>2, <2>3, FailIsEdge DEF Claims
<1>3. CASE ~Abandoned(row[t]) /\ ~Exhausted(row[t])
  <2>1. Finalized(row[t]) = row[t]
    BY <1>3 DEF Finalized
  <2>2. CASE row'[t] = row[t]
    BY <2>2 DEF StateMachine!Stay
  <2>3. CASE \E k \in Worker : Claimable(row[t]) /\ row'[t] = Claimed(row[t], k)
    <3>1. /\ StateOf(row'[t]) = "running"
          /\ row'[t].attempts = row[t].attempts + 1 /\ ~row'[t].cancel
      BY <2>3 DEF Claimable, Claimed, Row, StateOf
    <3>2. /\ row[t].attempts < MaxAttempts /\ ~row[t].cancel
          /\ row[t].status \in {"pending", "running"}
      BY <2>3 DEF Claimable
    <3>3. StateMachine!Start(t)
      BY <3>1, <3>2
         DEF StateMachine!Start, StateMachine!Running, StateMachine!Go, StateOf
    <3> QED BY <3>3
  <2> QED BY <2>1, <2>2, <2>3 DEF Claims
<1> QED BY <1>1, <1>2, <1>3

LEMMA EndIsEdge ==
  ASSUME NEW t \in Task, Sound(row[t]), NEW k \in Worker, Ends(k, t)
  PROVE  StateMachine!Edge(t)
<1> USE DEF StateMachine!Edge
<1>1. row[t] \in Row /\ row[t].status = "running" /\ row[t].attempts > 0
  BY DEF Sound, RowConsistent, Ends, OwnedBy
<1>2. CASE row'[t] = Canceled(row[t])
  BY <1>1, <1>2, CancelIsEdge
<1>3. CASE ~row[t].cancel /\ row'[t] = AfterFailure(row[t])
  <2>1. CASE row[t].attempts < MaxAttempts
    <3>1. /\ StateOf(row'[t]) = "pending" /\ row'[t].attempts = row[t].attempts
          /\ ~row'[t].cancel
      BY <1>3, <2>1 DEF AfterFailure, Retried, Unleased, Row, StateOf
    <3>2. StateMachine!Retry(t)
      BY <1>1, <1>3, <2>1, <3>1
         DEF StateMachine!Retry, StateMachine!Running, StateMachine!Go, StateOf
    <3> QED BY <3>2
  <2>2. CASE ~(row[t].attempts < MaxAttempts)
    BY <1>1, <1>3, <2>2, FailIsEdge DEF AfterFailure
  <2> QED BY <2>1, <2>2
<1>4. CASE ~row[t].cancel /\ row'[t] = Released(row[t])
  <2>1. /\ StateOf(row'[t]) = "pending" /\ ~row'[t].cancel
        /\ row'[t].attempts = row[t].attempts - 1
    BY <1>1, <1>4 DEF Released, Unleased, Row, StateOf
  <2>2. StateMachine!GiveBack(t)
    BY <1>1, <1>4, <2>1
       DEF StateMachine!GiveBack, StateMachine!Running, StateMachine!Go, StateOf
  <2> QED BY <2>2
<1>5. CASE /\ ~row[t].cancel /\ row[t].key \in delivered
           /\ row'[t] = Succeeded(row[t])
  <2>1. /\ StateOf(row'[t]) = "success" /\ row'[t].attempts = row[t].attempts
        /\ ~row'[t].cancel
    BY <1>5 DEF Succeeded, Unleased, Row, StateOf
  <2>2. StateMachine!Succeed(t)
    BY <1>1, <1>5, <2>1
       DEF StateMachine!Succeed, StateMachine!Running, StateMachine!Go, StateOf
  <2> QED BY <2>2
<1>6. row'[t] = AfterFailure(row[t]) /\ row[t].cancel
        => row'[t] = Canceled(row[t])
  BY DEF AfterFailure
<1> QED BY <1>2, <1>3, <1>4, <1>5, <1>6 DEF Ends

LEMMA ControlIsEdge ==
  ASSUME NEW t \in Task, Sound(row[t]), Controls(t)
  PROVE  StateMachine!Edge(t)
<1> USE DEF StateMachine!Edge, StateMachine!Go, StateOf
<1>1. row[t] \in Row
  BY DEF Sound
<1>2. CASE row'[t] = CancelRequested(row[t])
  <2>1. CASE row[t].status = "running"
    <3>1. /\ row'[t].status = "running" /\ row'[t].cancel
          /\ row'[t].attempts = row[t].attempts
      BY <1>1, <1>2, <2>1 DEF CancelRequested, Row
    <3>2. StateMachine!AskToStop(t)
      BY <2>1, <3>1 DEF StateMachine!AskToStop
    <3> QED BY <3>2
  <2>2. CASE row[t].status \in {"pending", "paused", "failed"}
    BY <1>1, <1>2, <2>2, CancelIsEdge DEF CancelRequested
  <2>3. CASE row[t].status \notin {"running", "pending", "paused", "failed"}
    BY <1>2, <2>3 DEF CancelRequested, StateMachine!Stay
  <2> QED BY <2>1, <2>2, <2>3
<1>3. CASE Resettable(row[t]) /\ row'[t] = Reset(row[t])
  <2>1. row'[t].status = "pending" /\ row'[t].attempts = 0 /\ ~row'[t].cancel
    BY <1>1, <1>3 DEF Reset, Unleased, Row
  <2>2. StateMachine!Resubmit(t)
    BY <1>3, <2>1 DEF Resettable, StateMachine!Resubmit
  <2> QED BY <2>2
<1>4. CASE Pausable(row[t]) /\ row'[t] = Paused(row[t])
  <2>1. /\ row[t].status \in {"pending", "failed", "canceled", "paused"}
        /\ ~row[t].cancel
    BY <1>4 DEF Pausable, Exists, Status, Sound, RowConsistent
  <2>2. /\ row'[t].status = "paused" /\ row'[t].attempts = row[t].attempts
        /\ ~row'[t].cancel
    BY <1>1, <1>4, <2>1 DEF Paused, Row
  <2>3. StateMachine!Pause(t)
    BY <2>1, <2>2 DEF StateMachine!Pause
  <2> QED BY <2>3
<1>5. CASE (Deletable(row[t]) \/ Expendable(row[t])) /\ row'[t] = Removed(row[t])
  <2>1. row[t].status \in {"pending", "success", "failed", "paused", "canceled"}
    BY <1>5 DEF Deletable, Expendable, Exists, Status
  <2>2. row'[t].status = "deleted" /\ row'[t].attempts = 0 /\ ~row'[t].cancel
    BY <1>5 DEF Removed, UnusedRow
  <2>3. StateMachine!Remove(t)
    BY <2>1, <2>2 DEF StateMachine!Remove
  <2> QED BY <2>3
<1> QED BY <1>2, <1>3, <1>4, <1>5 DEF Controls

LEMMA MoveIsEdge ==
  ASSUME IndInv, NEW t \in Task, Moves(t)
  PROVE  StateMachine!Edge(t)
<1>1. Sound(row[t]) /\ row[t] \in Row
  BY RowsSound DEF Sound
<1>2. CASE /\ row'[t].status = row[t].status
           /\ row'[t].attempts = row[t].attempts
           /\ row'[t].cancel = row[t].cancel
  BY <1>2 DEF StateMachine!Edge, StateMachine!Stay, StateOf
<1>3. CASE Ticks(t) \/ row'[t] = Renewed(row[t])
  BY <1>1, <1>2, <1>3 DEF Ticks, Renewed, Row
<1>4. CASE \E c \in Client : Inserts(c, t)
  <2>1. /\ row[t].status = "unused"
        /\ row'[t].status = "pending" /\ row'[t].attempts = 0 /\ ~row'[t].cancel
    BY <1>4 DEF Inserts, Inserted, UnusedRow, IndInv, TypeOK
  <2>2. StateMachine!Submit(t)
    BY <2>1 DEF StateMachine!Submit, StateMachine!Go, StateOf
  <2> QED BY <2>2 DEF StateMachine!Edge
<1> QED
  BY <1>1, <1>2, <1>3, <1>4, ClaimIsEdge, EndIsEdge, ControlIsEdge DEF Moves

(* Every step of the queue is a step of the task state machine.            *)
THEOREM Refinement == Spec => ImplementsLifecycle
<1>1. Init => StateMachine!Init
  <2> SUFFICES ASSUME Init PROVE StateMachine!Init
    OBVIOUS
  <2>1. \A t \in Task : row[t] = UnusedRow
    BY DEF Init
  <2> QED
    BY <2>1 DEF Init, StateMachine!Init, StateOf, UnusedRow
<1>2. IndInv /\ [Next]_vars => [StateMachine!Next]_StateMachine!vars
  <2> SUFFICES ASSUME IndInv, [Next]_vars PROVE StateMachine!Next
    OBVIOUS
  <2>1. \A t \in Task : StateMachine!Edge(t)
    BY RowMoves, MoveIsEdge DEF AllMove
  <2>2. ASSUME NEW t \in Task, row[t].key \in delivered
        PROVE  row'[t].key \in delivered'
    <3>1. row[t].status # "unused"
      BY <2>2, NoKeyAssumption DEF IndInv, TypeOK, RowsConsistent, RowConsistent
    <3>2. row'[t].key = row[t].key
      BY <3>1, RowMoves, MoveSound DEF AllMove
    <3>3. delivered \subseteq delivered'
      BY Frames DEF CopyReturns
    <3> QED BY <2>2, <3>2, <3>3
  <2> QED BY <2>1, <2>2 DEF StateMachine!Next
<1> QED
  BY <1>1, <1>2, Invariance, PTL DEF Spec, ImplementsLifecycle, StateMachine!Spec
=============================================================================
