------------------------------ MODULE TaskRow ------------------------------
(***************************************************************************)
(* One row of the upload_tasks table and what each SQL statement of        *)
(* internal/repository/task_repository.go does to a row it matches.  The   *)
(* module has no variables: TaskQueue applies these operators to the rows  *)
(* inside its transactions.                                                *)
(*                                                                         *)
(* Data abstraction.  The persisted instants lease_expires_at and          *)
(* next_retry_at are kept only as far as a WHERE clause looks at them:     *)
(* a lease is "none" (NULL), "live" (in the future) or "lapsed" (passed),  *)
(* and "due" says whether next_retry_at is NULL or passed.  A file version *)
(* (size and mtime fingerprint) is a number, and a version number is never *)
(* used twice, as mtime has nanoseconds.  The idempotency key is the       *)
(* record it hashes.                                                       *)
(***************************************************************************)
EXTENDS Naturals

CONSTANTS
  Worker,       (* Worker goroutines of all instances: the lease owners.   *)
  NoWorker,     (* The empty lease_owner.                                  *)
  File,         (* Local files.                                            *)
  Target,       (* Remote destinations: remote_name and remote_path.       *)
  NoKey,        (* The key of an id no row has used yet.                   *)
  MaxVersion,   (* Bound: versions a file goes through.                    *)
  MaxAttempts   (* queue.maxAttempts, MaxRetry + 1.                        *)

ASSUME NoWorkerAssumption == NoWorker \notin Worker
ASSUME MaxVersionAssumption == MaxVersion \in Nat \ {0}
ASSUME MaxAttemptsAssumption == MaxAttempts \in Nat \ {0}

Version == 1 .. MaxVersion
Key     == [file : File, ver : Version, tgt : Target]

ASSUME NoKeyAssumption == NoKey \notin Key

(* "unused" and "deleted" are ids without a row: ids are AUTO_INCREMENT    *)
(* and never used again, so a worker that still holds the id of a deleted  *)
(* row can never hit another one with it.                                  *)
Status == {"pending", "running", "success", "failed", "paused", "canceled"}

Row ==
  [status   : Status \cup {"unused", "deleted"},
   owner    : Worker \cup {NoWorker},
   lease    : {"none", "live", "lapsed"},
   attempts : 0 .. MaxAttempts,
   cancel   : BOOLEAN,
   due      : BOOLEAN,
   key      : Key \cup {NoKey}]

UnusedRow ==
  [status |-> "unused", owner |-> NoWorker, lease |-> "none",
   attempts |-> 0, cancel |-> FALSE, due |-> TRUE, key |-> NoKey]

-----------------------------------------------------------------------------
(* WHERE clauses.                                                          *)

Exists(r) == r.status \in Status

(* lease_expires_at IS NULL OR lease_expires_at <= now *)
Lapsed(r) == r.lease # "live"

(* Slip: the owner is not compared. *)
OwnedByAnyone(r, k) == r.status = "running"

(* status = 'running' AND lease_owner = owner *)
OwnedBy(r, k) == r.status = "running" /\ r.owner = k

(* Slip: a success overtakes the cancel request. *)
OwnedIgnoringCancel(r, k) == OwnedBy(r, k)

(* ... AND cancel_requested_at IS NULL *)
OwnedUncanceled(r, k) == OwnedBy(r, k) /\ ~r.cancel

(* Rows ClaimNext may take. *)
Claimable(r) ==
  /\ ~r.cancel
  /\ r.attempts < MaxAttempts
  /\ \/ r.status = "pending" /\ r.due
     \/ r.status = "running" /\ Lapsed(r)

(* Slip: the last attempt is taken for one too many. *)
ExhaustedEarly(r) ==
  r.status = "running" /\ Lapsed(r) /\ r.attempts >= MaxAttempts - 1

(* Running rows that have no attempt left and whose lease has lapsed. *)
Exhausted(r) == r.status = "running" /\ Lapsed(r) /\ r.attempts >= MaxAttempts

-----------------------------------------------------------------------------
(* UPDATE statements.                                                      *)

Unleased(r) == [r EXCEPT !.owner = NoWorker, !.lease = "none"]

Canceled(r) ==
  [Unleased(r) EXCEPT !.status = "canceled", !.cancel = FALSE, !.due = TRUE]

Failed(r) == [Unleased(r) EXCEPT !.status = "failed", !.due = TRUE]

Succeeded(r) == [Unleased(r) EXCEPT !.status = "success", !.due = TRUE]

(* FailOrRetry: back to the queue with a retry time in the future. *)
Retried(r) == [Unleased(r) EXCEPT !.status = "pending", !.due = FALSE]

(* FailOrRetry chooses by the locked row, not by the worker's copy of it. *)
AfterFailure(r) ==
  IF r.cancel THEN Canceled(r)
  ELSE IF r.attempts < MaxAttempts THEN Retried(r) ELSE Failed(r)

(* The second statement of ReleaseLease gives the attempt back. *)
Released(r) ==
  [Unleased(r) EXCEPT !.status = "pending", !.due = TRUE,
                      !.attempts = IF @ > 0 THEN @ - 1 ELSE 0]

Claimed(r, k) ==
  [r EXCEPT !.status = "running", !.owner = k, !.lease = "live",
            !.due = TRUE, !.attempts = @ + 1]

Renewed(r) == [r EXCEPT !.lease = "live"]

(* The three UPDATEs with which ClaimNext starts, in their order: a queued *)
(* row with a cancel request, a cancelled run whose lease has lapsed, a    *)
(* lapsed run without an attempt left.                                     *)
Abandoned(r) ==
  /\ r.cancel
  /\ \/ r.status \in {"pending", "paused", "failed"}
     \/ r.status = "running" /\ Lapsed(r)

Finalized(r) ==
  CASE Abandoned(r)                 -> Canceled(r)
    [] ~Abandoned(r) /\ Exhausted(r) -> Failed(r)
    [] OTHER                        -> r

(* RequestCancel, and the statements with which an edit or a removal of a  *)
(* watch folder stops its tasks: a running row is only asked to stop, a    *)
(* queued one is cancelled on the spot, a finished one is left alone.      *)
CancelRequested(r) ==
  CASE r.status = "running" -> [r EXCEPT !.cancel = TRUE]
    [] r.status \in {"pending", "paused", "failed"} -> Canceled(r)
    [] OTHER -> r

(* ResetForRetry and PauseIfNotRunning, with the statuses they accept. *)
Resettable(r) == r.status \in {"failed", "canceled", "paused"}

Reset(r) ==
  [Unleased(r) EXCEPT !.status = "pending", !.cancel = FALSE,
                      !.due = TRUE, !.attempts = 0]

(* Slip: a running task is paused under its worker. *)
PausableRunning(r) == Exists(r) /\ r.status # "success"

Pausable(r) == Exists(r) /\ r.status \notin {"running", "success"}

Paused(r) == [r EXCEPT !.status = "paused", !.due = TRUE]

(* Delete and DeleteMany; MaintenanceService.Cleanup. *)
Deletable(r) == Exists(r) /\ r.status # "running"

Expendable(r) == r.status \in {"success", "failed", "canceled"}

Removed(r) == [UnusedRow EXCEPT !.status = "deleted", !.key = r.key]

Inserted(key) == [UnusedRow EXCEPT !.status = "pending", !.key = key]
=============================================================================
