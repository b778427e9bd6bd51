---------------------------- MODULE WorkerLease -----------------------------
(***************************************************************************)
(* Time and the lease of one upload task: how long a worker copies without *)
(* having renewed its lease, when another one may take the task over, and  *)
(* how a request to cancel reaches the worker (internal/worker/queue.go,   *)
(* heartbeat; internal/repository/task_repository.go, ClaimNext and        *)
(* RenewLease).  TaskQueue has the rest of a task and no clock.            *)
(*                                                                         *)
(* Times are what is left of them, in whole ticks.  All workers are of one *)
(* process, which is the harder case: they share the map of the cancel     *)
(* functions.  Their clocks and that of other processes are the same.      *)
(***************************************************************************)
EXTENDS Integers

CONSTANTS
  Worker,
  NoWorker,
  Lease,            (* LeaseDuration                                       *)
  Heartbeat,        (* HeartbeatInterval                                   *)
  Attempt,          (* What a renewal may take, at most a heartbeat.       *)
  Setup             (* What the claim and the checks before the copy take. *)

ASSUME WorkerAssumption == NoWorker \notin Worker

(* Validate of internal/config, NewQueue and the timeout of a renewal.     *)
ValidTiming ==
  /\ Heartbeat > 0 /\ Heartbeat * 2 < Lease
  /\ Attempt > 0 /\ Attempt <= Heartbeat

(* The checks are quick: nobody renews the lease meanwhile. *)
QuickSetup == Setup + Heartbeat + Attempt < Lease

ASSUME TimingAssumption ==
  /\ Lease \in Nat /\ Heartbeat \in Nat /\ Attempt \in Nat /\ Setup \in Nat
  /\ ValidTiming
  /\ QuickSetup

VARIABLES
  task,         (* The row.                                                *)
  active,       (* The worker whose cancel function is in the map.         *)
  signal,       (* Is a call of Cancel under way?                          *)
  wk            (* Local state of the workers.                             *)

vars == <<task, active, signal, wk>>

(* asked is cancel_requested_at, since counts the ticks from then on.      *)
Row ==
  [status : {"pending", "running", "over"}, owner : Worker \cup {NoWorker},
   left : 0 .. Lease, asked : BOOLEAN, since : 0 .. Lease + 1]

(* left is what is left until leaseDeadline; timer until the copy begins   *)
(* or the ticker fires; calling a renewal under way, spent what it has     *)
(* taken and reply what the database has decided.                          *)
WorkerState ==
  [pc : {"idle", "check", "copy", "finish", "lost"}, left : 0 .. Lease,
   timer : 0 .. Lease, calling : BOOLEAN, spent : 0 .. Attempt,
   reply : {"none", "active", "inactive"}]

TypeOK ==
  /\ task \in Row
  /\ active \in Worker \cup {NoWorker}
  /\ signal \in BOOLEAN
  /\ wk \in [Worker -> WorkerState]

Idle ==
  [pc |-> "idle", left |-> 0, timer |-> 0, calling |-> FALSE, spent |-> 0,
   reply |-> "none"]

NewRow ==
  [status |-> "pending", owner |-> NoWorker, left |-> 0, asked |-> FALSE,
   since |-> 0]

Init ==
  /\ task = NewRow
  /\ active = NoWorker
  /\ signal = FALSE
  /\ wk = [k \in Worker |-> Idle]

-----------------------------------------------------------------------------
(* A worker.                                                               *)

Claimable ==
  \/ task.status = "pending"
  \/ task.status = "running" /\ task.left = 0 /\ ~task.asked

Claim(k) ==
  /\ wk[k].pc = "idle" /\ Claimable
  /\ task' = [NewRow EXCEPT !.status = "running", !.owner = k, !.left = Lease]
  /\ wk' = [wk EXCEPT ![k] = [Idle EXCEPT !.pc = "check", !.left = Lease,
                                          !.timer = Setup]]
  /\ UNCHANGED <<active, signal>>

(* The file and the destination are in order. *)
BeginCopy(k) ==
  /\ wk[k].pc = "check"
  /\ active' = k
  /\ wk' = [wk EXCEPT ![k] = [wk[k] EXCEPT !.pc = "copy", !.timer = Heartbeat]]
  /\ UNCHANGED <<task, signal>>

(* They are not, or the copy has ended or failed. *)
EndWork(k) ==
  /\ wk[k].pc \in {"check", "copy"}
  /\ wk' = [wk EXCEPT ![k] = [Idle EXCEPT !.pc = "finish"]]
  /\ UNCHANGED <<task, active, signal>>

(* The result, for the owner of a running task; or the worker finds the    *)
(* task to be another's, or the database does not answer.  Without a lease *)
(* a worker only confirms that the task was canceled.  The entry in the    *)
(* map is deleted, whoever put it there.                                   *)
Finish(k) ==
  /\ wk[k].pc \in {"finish", "lost"}
  /\ \/ /\ task.status = "running" /\ task.owner = k
        /\ wk[k].pc = "lost" => task.asked
        /\ \E status \in {"pending", "over"} :
             task' = [NewRow EXCEPT !.status = IF task.asked THEN "over"
                                               ELSE status]
     \/ UNCHANGED task
  /\ active' = NoWorker
  /\ wk' = [wk EXCEPT ![k] = Idle]
  /\ UNCHANGED signal

-----------------------------------------------------------------------------
(* Its heartbeat.                                                          *)

Ticks(k) == wk[k].pc = "copy" /\ ~wk[k].calling /\ wk[k].timer = 0

CallRenew(k) ==
  /\ Ticks(k)
  /\ wk' = [wk EXCEPT ![k] = [wk[k] EXCEPT !.calling = TRUE, !.spent = 0,
                                !.reply = "none", !.timer = Heartbeat]]
  /\ UNCHANGED <<task, active, signal>>

(* Slip: a task that is to be canceled is renewed as well. *)
RenewableAsked(k) == task.status = "running" /\ task.owner = k

Renewable(k) == task.status = "running" /\ task.owner = k /\ ~task.asked

(* The statement of RenewLease, whose now is that of its call. *)
Renew(k) ==
  /\ wk[k].calling /\ wk[k].reply = "none"
  /\ IF Renewable(k)
       THEN /\ task' = [task EXCEPT !.left = Lease - wk[k].spent]
            /\ wk' = [wk EXCEPT ![k] = [wk[k] EXCEPT !.reply = "active"]]
       ELSE /\ wk' = [wk EXCEPT ![k] = [wk[k] EXCEPT !.reply = "inactive"]]
            /\ UNCHANGED task
  /\ UNCHANGED <<active, signal>>

(* The copy is killed, and its result will be discarded. *)
LeaseLost(k) == wk' = [wk EXCEPT ![k] = [Idle EXCEPT !.pc = "lost"]]

KeepCopying(k, left) ==
  wk' = [wk EXCEPT ![k] = [wk[k] EXCEPT !.calling = FALSE, !.left = left]]

RenewReturns(k) ==
  /\ wk[k].calling
  /\ \/ wk[k].reply = "active" /\ KeepCopying(k, Lease - wk[k].spent)
     \/ wk[k].reply = "inactive" /\ LeaseLost(k)
  /\ UNCHANGED <<task, active, signal>>

(* Slip: what the next renewal takes is forgotten. *)
NextTickTooLate(k) == Heartbeat >= wk[k].left

(* renewalRetryWouldExceedLease *)
RetryTooLate(k) == Heartbeat + Attempt >= wk[k].left

(* An error, whether or not the statement took effect. *)
RenewFails(k) ==
  /\ wk[k].calling
  /\ IF RetryTooLate(k) THEN LeaseLost(k) ELSE KeepCopying(k, wk[k].left)
  /\ UNCHANGED <<task, active, signal>>

-----------------------------------------------------------------------------
(* Cancel and retry, for the user.                                         *)

(* RequestCancel and CancelTask: a task that nobody runs is canceled at    *)
(* once, for one that is running the queue is told as well.                *)
RequestCancel ==
  /\ \/ /\ task.status = "pending"
        /\ task' = [NewRow EXCEPT !.status = "over"]
        /\ UNCHANGED signal
     \/ /\ task.status = "running"
        /\ task' = [task EXCEPT !.asked = TRUE]
        /\ signal' = TRUE
  /\ UNCHANGED <<active, wk>>

(* Cancel of the queue: whoever has an entry in the map is stopped.        *)
Signal ==
  /\ signal
  /\ signal' = FALSE
  /\ wk' = IF active \in Worker /\ wk[active].pc = "copy"
             THEN [wk EXCEPT ![active] = [Idle EXCEPT !.pc = "finish"]]
             ELSE wk
  /\ UNCHANGED <<task, active>>

(* The process that was asked is another one, or dies. *)
SignalLost ==
  /\ signal
  /\ signal' = FALSE
  /\ UNCHANGED <<task, active, wk>>

(* ClaimNext cancels what was to be canceled by a worker that is gone.     *)
CancelExpired ==
  /\ task.status = "running" /\ task.left = 0 /\ task.asked
  /\ task' = [NewRow EXCEPT !.status = "over"]
  /\ UNCHANGED <<active, signal, wk>>

Retry ==
  /\ task.status = "over"
  /\ task' = NewRow
  /\ UNCHANGED <<active, signal, wk>>

-----------------------------------------------------------------------------
(* Time passes as long as nobody is late.                                  *)

OnTime(k) ==
  /\ wk[k].pc = "check" => wk[k].timer > 0
  /\ ~Ticks(k)
  /\ wk[k].calling => wk[k].spent < Attempt

Less(time) == IF time = 0 THEN 0 ELSE time - 1

Older(k) ==
  [wk[k] EXCEPT !.left = Less(@), !.timer = Less(@),
                !.spent = IF wk[k].calling THEN @ + 1 ELSE @]

TimePasses ==
  /\ \A k \in Worker : OnTime(k)
  /\ wk' = [k \in Worker |-> Older(k)]
  /\ task' = [task EXCEPT !.left = Less(@),
                !.since = IF task.asked /\ @ <= Lease THEN @ + 1 ELSE @]
  /\ UNCHANGED <<active, signal>>

-----------------------------------------------------------------------------
WorkerStep(k) ==
  \/ Claim(k) \/ BeginCopy(k) \/ EndWork(k) \/ Finish(k)
  \/ CallRenew(k) \/ Renew(k) \/ RenewReturns(k) \/ RenewFails(k)

UserStep == RequestCancel \/ Signal \/ SignalLost \/ Retry

Next ==
  \/ \E k \in Worker : WorkerStep(k)
  \/ UserStep
  \/ CancelExpired
  \/ TimePasses

Spec == Init /\ [][Next]_vars

-----------------------------------------------------------------------------
(* Whoever copies holds the task under a lease that has not run out: after *)
(* failed renewals a worker has stopped before anybody else may claim the  *)
(* task, so that no two copy it at the same time.                          *)
CopierHoldsLease ==
  \A k \in Worker : wk[k].pc = "copy" =>
    task.status = "running" /\ task.owner = k /\ task.left > 0

(* A request to cancel ends the copy within the time of a lease, even when *)
(* the signal is lost, the entry in the map was another worker's, and the  *)
(* database does not answer.                                               *)
CancelHeeded ==
  \A k \in Worker : wk[k].pc = "copy" /\ task.asked => task.since < Lease

=============================================================================
