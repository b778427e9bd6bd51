--------------------------- MODULE TaskLifecycle ---------------------------
(***************************************************************************)
(* What the queue promises about a task, without leases, workers and       *)
(* files: the edges of the task state machine, the budget of attempts, and *)
(* that a request to stop a running task is binding.  One step of the      *)
(* database may move several tasks, each along one edge.                   *)
(***************************************************************************)
EXTENDS Naturals

CONSTANTS
  Task,
  MaxAttempts

VARIABLES
  state,        (* state[t], with "unborn" and "removed" for no row.       *)
  attempts,     (* attempts[t]: attempts used since the last submission.   *)
  stopping,     (* Running tasks that somebody has asked to stop.          *)
  arrived       (* Tasks whose file has arrived at its destination.        *)

vars == <<state, attempts, stopping, arrived>>

Init ==
  /\ state = [t \in Task |-> "unborn"]
  /\ attempts = [t \in Task |-> 0]
  /\ stopping = {}
  /\ arrived = {}

Go(t, s, n) == state'[t] = s /\ attempts'[t] = n /\ t \notin stopping'

Running(t) == state[t] = "running" /\ t \notin stopping

Stay(t) ==
  /\ state'[t] = state[t] /\ attempts'[t] = attempts[t]
  /\ t \in stopping' <=> t \in stopping

Submit(t) == state[t] = "unborn" /\ Go(t, "pending", 0)

(* A claim of a queued task, or the takeover of one whose worker is gone. *)
Start(t) ==
  /\ state[t] = "pending" \/ Running(t)
  /\ attempts[t] < MaxAttempts
  /\ Go(t, "running", attempts[t] + 1)

Succeed(t) == Running(t) /\ t \in arrived /\ Go(t, "success", attempts[t])

Retry(t) ==
  Running(t) /\ attempts[t] < MaxAttempts /\ Go(t, "pending", attempts[t])

(* A shutdown interrupts the attempt, which then does not count. *)
GiveBack(t) == Running(t) /\ Go(t, "pending", attempts[t] - 1)

(* Only the last attempt fails a task. *)
Fail(t) ==
  Running(t) /\ attempts[t] = MaxAttempts /\ Go(t, "failed", attempts[t])

AskToStop(t) ==
  /\ state[t] = "running" /\ t \in stopping'
  /\ state'[t] = "running" /\ attempts'[t] = attempts[t]

Cancel(t) ==
  /\ state[t] \in {"pending", "running", "paused", "failed"}
  /\ Go(t, "canceled", attempts[t])

Resubmit(t) ==
  state[t] \in {"failed", "canceled", "paused"} /\ Go(t, "pending", 0)

Pause(t) ==
  /\ state[t] \in {"pending", "failed", "canceled", "paused"}
  /\ Go(t, "paused", attempts[t])

Remove(t) ==
  /\ state[t] \in {"pending", "success", "failed", "paused", "canceled"}
  /\ Go(t, "removed", 0)

Edge(t) ==
  \/ Stay(t) \/ Submit(t) \/ Start(t) \/ Succeed(t) \/ Retry(t)
  \/ GiveBack(t) \/ Fail(t) \/ AskToStop(t) \/ Cancel(t) \/ Resubmit(t)
  \/ Pause(t) \/ Remove(t)

Next ==
  /\ \A t \in Task : Edge(t)
  /\ arrived \subseteq arrived'

Spec == Init /\ [][Next]_vars
=============================================================================
