-------------------------- MODULE WorkerLeaseProofs --------------------------
(***************************************************************************)
(* Theorems about WorkerLease, for any number of workers and any durations *)
(* that the configuration accepts.                                         *)
(***************************************************************************)
EXTENDS WorkerLease, TLAPS

(* A row t as worker k with the local state w may find it: as long as k    *)
(* works on the task, w.left is not more than what is left of the lease,   *)
(* enough of it is left for the next renewal, and it has run since the     *)
(* task was to be canceled.                                                *)
WorkerOK(w, t, k) ==
  /\ w.pc \in {"check", "copy"} =>
       /\ t.status = "running" /\ t.owner = k
       /\ w.left <= t.left
       /\ t.asked => w.left + t.since <= Lease
  /\ w.pc = "check" => ~w.calling /\ w.left > w.timer + Heartbeat + Attempt
  /\ w.pc = "copy" /\ ~w.calling =>
       w.timer <= Heartbeat /\ w.left > w.timer + Attempt
  /\ w.calling =>
       /\ w.pc = "copy"
       /\ w.timer + w.spent = Heartbeat
       /\ w.left + w.spent > Attempt /\ w.left + w.spent <= Lease
       /\ w.reply = "active" =>
            t.left + w.spent >= Lease /\ (t.asked => t.since <= w.spent)

RowOK(t) == ~t.asked => t.since = 0

Inv ==
  /\ TypeOK
  /\ RowOK(task)
  /\ \A k \in Worker : WorkerOK(wk[k], task, k)

(* The durations as numbers, without the names of what is assumed of them. *)
LEMMA Timing ==
  /\ Lease \in Nat /\ Heartbeat \in Nat /\ Attempt \in Nat /\ Setup \in Nat
  /\ Heartbeat > 0 /\ Heartbeat * 2 < Lease
  /\ Attempt > 0 /\ Attempt <= Heartbeat
  /\ Setup + Heartbeat + Attempt < Lease
BY TimingAssumption DEF ValidTiming, QuickSetup

(* They are in the ranges of the variables. *)
LEMMA Ranges ==
  /\ 0 \in 0 .. Lease /\ Lease \in 0 .. Lease /\ 0 \in 0 .. Attempt
  /\ Heartbeat \in 0 .. Lease /\ Setup \in 0 .. Lease /\ 0 \in 0 .. Lease + 1
  /\ \A n \in 0 .. Attempt : Lease - n \in 0 .. Lease
BY Timing

(* A worker that works on the task has time left. *)
LEMMA TimeLeft ==
  ASSUME NEW k \in Worker, NEW w \in WorkerState, NEW t \in Row,
         WorkerOK(w, t, k), w.pc \in {"check", "copy"}
  PROVE  w.left > 0 /\ t.left > 0
BY Timing DEF WorkerOK, WorkerState, Row

-----------------------------------------------------------------------------
(* One step of a worker: its own state, and that of the others when the    *)
(* row is not changed.                                                     *)

LEMMA OneWorker ==
  ASSUME TypeOK, NEW k \in Worker, NEW w \in WorkerState,
         wk' = [wk EXCEPT ![k] = w],
         NEW t \in Row, task' = t, RowOK(t),
         WorkerOK(w, t, k),
         \A j \in Worker \ {k} : WorkerOK(wk[j], t, j),
         active' \in Worker \cup {NoWorker}, signal' \in BOOLEAN
  PROVE  Inv'
<1>1. wk' \in [Worker -> WorkerState]
  BY DEF TypeOK
<1>2. wk'[k] = w /\ \A j \in Worker \ {k} : wk'[j] = wk[j]
  BY DEF TypeOK
<1>3. TypeOK'
  BY <1>1 DEF TypeOK
<1>4. ASSUME NEW j \in Worker PROVE WorkerOK(wk'[j], task', j)
  BY <1>2
<1>5. QED
  BY <1>3, <1>4 DEF Inv

LEMMA WorkerStepKeeps ==
  ASSUME Inv, NEW k \in Worker, WorkerStep(k)
  PROVE  Inv'
<1> DEFINE w == wk[k]
<1>a. /\ TypeOK /\ task \in Row /\ w \in WorkerState /\ RowOK(task)
      /\ WorkerOK(w, task, k) /\ NewRow \in Row /\ Idle \in WorkerState
      /\ active \in Worker \cup {NoWorker} /\ signal \in BOOLEAN
  BY Timing DEF Inv, TypeOK, NewRow, Row, Idle, WorkerState
<1>b. \A j \in Worker : WorkerOK(wk[j], task, j) /\ wk[j] \in WorkerState
  BY DEF Inv, TypeOK
<1>1. CASE Claim(k)
  <2> DEFINE t == [NewRow EXCEPT !.status = "running", !.owner = k,
                                 !.left = Lease]
             v == [Idle EXCEPT !.pc = "check", !.left = Lease, !.timer = Setup]
  <2>1. /\ t \in Row /\ RowOK(t) /\ t.status = "running" /\ t.owner = k
        /\ t.left = Lease /\ ~t.asked
    BY Ranges DEF NewRow, Row, RowOK
  <2>2. /\ v \in WorkerState /\ v.pc = "check" /\ v.left = Lease
        /\ v.timer = Setup /\ ~v.calling
    BY Ranges DEF Idle, WorkerState
  <2>3. ASSUME NEW j \in Worker \ {k} PROVE WorkerOK(wk[j], t, j)
    <3>1. wk[j].pc \notin {"check", "copy"}
      BY <1>a, <1>b, <1>1, TimeLeft DEF Claim, Claimable, WorkerOK
    <3>2. ~wk[j].calling
      BY <1>b, <3>1 DEF WorkerOK
    <3>3. QED
      BY <3>1, <3>2 DEF WorkerOK
  <2>4. wk' = [wk EXCEPT ![k] = v] /\ task' = t /\ active' = active
        /\ signal' = signal
    BY <1>1 DEF Claim
  <2> HIDE DEF t, v
  <2>5. WorkerOK(v, t, k)
    BY <2>1, <2>2, Timing DEF WorkerOK
  <2>6. QED
    BY <1>a, <2>1, <2>2, <2>3, <2>4, <2>5, OneWorker
<1>2. CASE BeginCopy(k)
  <2> DEFINE v == [wk[k] EXCEPT !.pc = "copy", !.timer = Heartbeat]
  <2>1. v \in WorkerState /\ WorkerOK(v, task, k)
    <3>1. /\ v \in WorkerState /\ v.pc = "copy" /\ v.timer = Heartbeat
          /\ v.left = w.left /\ v.calling = w.calling
      BY <1>a, Ranges DEF WorkerState
    <3>2. w.timer \in Nat /\ w.left \in Nat /\ w.pc = "check"
      BY <1>a, <1>2, Timing DEF WorkerState, BeginCopy
    <3> HIDE DEF v, w
    <3>3. WorkerOK(v, task, k)
      BY <1>a, <3>1, <3>2, Timing DEF WorkerOK
    <3>4. QED
      BY <3>1, <3>3
  <2>2. wk' = [wk EXCEPT ![k] = v] /\ task' = task /\ active' = k
        /\ signal' = signal
    BY <1>2 DEF BeginCopy
  <2> HIDE DEF v
  <2>3. QED
    BY <1>a, <1>b, <2>1, <2>2, OneWorker
<1>3. CASE EndWork(k)
  <2> DEFINE v == [Idle EXCEPT !.pc = "finish"]
  <2>1. v \in WorkerState /\ WorkerOK(v, task, k)
    BY <1>a DEF Idle, WorkerState, WorkerOK
  <2>2. wk' = [wk EXCEPT ![k] = v] /\ task' = task /\ active' = active
        /\ signal' = signal
    BY <1>3 DEF EndWork
  <2> HIDE DEF v
  <2>3. QED
    BY <1>a, <1>b, <2>1, <2>2, OneWorker
<1>4. CASE Finish(k)
  <2>1. WorkerOK(Idle, task', k)
    BY DEF Idle, WorkerOK
  <2>2. task' \in Row /\ RowOK(task')
        /\ \A j \in Worker \ {k} : WorkerOK(wk[j], task', j)
    <3>1. CASE task' = task
      BY <1>a, <1>b, <3>1
    <3>2. CASE task' # task
      <4>1. PICK status \in {"pending", "over"} :
              /\ task.status = "running" /\ task.owner = k
              /\ task' = [NewRow EXCEPT !.status = IF task.asked THEN "over"
                                                   ELSE status]
        BY <1>4, <3>2 DEF Finish
      <4>2. task' \in Row /\ RowOK(task')
        BY <1>a, <4>1 DEF NewRow, Row, RowOK
      <4>3. ASSUME NEW j \in Worker \ {k} PROVE WorkerOK(wk[j], task', j)
        <5>1. wk[j].pc \notin {"check", "copy"}
          BY <1>b, <4>1 DEF WorkerOK
        <5>2. ~wk[j].calling
          BY <1>b, <5>1 DEF WorkerOK
        <5>3. QED
          BY <5>1, <5>2 DEF WorkerOK
      <4>4. QED
        BY <4>2, <4>3
    <3>3. QED
      BY <3>1, <3>2
  <2>3. wk' = [wk EXCEPT ![k] = Idle] /\ active' = NoWorker /\ signal' = signal
    BY <1>4 DEF Finish
  <2>4. QED
    BY <1>a, <2>1, <2>2, <2>3, OneWorker
<1>5. CASE CallRenew(k)
  <2> DEFINE v == [wk[k] EXCEPT !.calling = TRUE, !.spent = 0,
                     !.reply = "none", !.timer = Heartbeat]
  <2>1. v \in WorkerState /\ WorkerOK(v, task, k)
    <3>1. /\ v \in WorkerState /\ v.pc = w.pc /\ v.timer = Heartbeat
          /\ v.left = w.left /\ v.calling /\ v.spent = 0
          /\ v.reply = "none"
      BY <1>a, Ranges DEF WorkerState
    <3>2. /\ w.timer = 0 /\ w.left \in 0 .. Lease /\ w.pc = "copy"
          /\ ~w.calling
      BY <1>a, <1>5, Timing DEF WorkerState, CallRenew, Ticks
    <3> HIDE DEF v, w
    <3>3. WorkerOK(v, task, k)
      BY <1>a, <3>1, <3>2, Timing DEF WorkerOK
    <3>4. QED
      BY <3>1, <3>3
  <2>2. wk' = [wk EXCEPT ![k] = v] /\ task' = task /\ active' = active
        /\ signal' = signal
    BY <1>5 DEF CallRenew
  <2> HIDE DEF v
  <2>3. QED
    BY <1>a, <1>b, <2>1, <2>2, OneWorker
<1>6. CASE Renew(k)
  <2>1. CASE Renewable(k)
    <3> DEFINE t == [task EXCEPT !.left = Lease - wk[k].spent]
               v == [wk[k] EXCEPT !.reply = "active"]
    <3>1. t \in Row /\ RowOK(t)
      BY <1>a, Timing DEF Row, RowOK, WorkerState
    <3>2. v \in WorkerState /\ WorkerOK(v, t, k)
      BY <1>a, <1>6, <2>1, Timing
         DEF Renew, Renewable, WorkerState, WorkerOK, Row, RowOK
    <3>3. ASSUME NEW j \in Worker \ {k} PROVE WorkerOK(wk[j], t, j)
      <4>1. wk[j].pc \notin {"check", "copy"}
        BY <1>b, <2>1 DEF WorkerOK, Renewable
      <4>2. ~wk[j].calling
        BY <1>b, <4>1 DEF WorkerOK
      <4>3. QED
        BY <4>1, <4>2 DEF WorkerOK
    <3>4. wk' = [wk EXCEPT ![k] = v] /\ task' = t /\ active' = active
          /\ signal' = signal
      BY <1>6, <2>1 DEF Renew
    <3> HIDE DEF t, v
    <3>5. QED
      BY <1>a, <3>1, <3>2, <3>3, <3>4, OneWorker
  <2>2. CASE ~Renewable(k)
    <3> DEFINE v == [wk[k] EXCEPT !.reply = "inactive"]
    <3>1. v \in WorkerState /\ WorkerOK(v, task, k)
      BY <1>a DEF WorkerState, WorkerOK
    <3>2. wk' = [wk EXCEPT ![k] = v] /\ task' = task /\ active' = active
          /\ signal' = signal
      BY <1>6, <2>2 DEF Renew
    <3> HIDE DEF v
    <3>3. QED
      BY <1>a, <1>b, <3>1, <3>2, OneWorker
  <2>3. QED
    BY <2>1, <2>2
<1>7. ASSUME LeaseLost(k), task' = task, active' = active, signal' = signal
      PROVE  Inv'
  <2> DEFINE v == [Idle EXCEPT !.pc = "lost"]
  <2>1. v \in WorkerState /\ WorkerOK(v, task, k)
    BY <1>a DEF Idle, WorkerState, WorkerOK
  <2>2. wk' = [wk EXCEPT ![k] = v]
    BY <1>7 DEF LeaseLost
  <2> HIDE DEF v
  <2>3. QED
    BY <1>a, <1>b, <1>7, <2>1, <2>2, OneWorker
<1>8. CASE RenewReturns(k)
  <2>1. CASE wk[k].reply = "active" /\ KeepCopying(k, Lease - wk[k].spent)
    <3> DEFINE v == [wk[k] EXCEPT !.calling = FALSE,
                                  !.left = Lease - wk[k].spent]
    <3>1. v \in WorkerState /\ WorkerOK(v, task, k)
      <4>1. /\ v \in WorkerState /\ v.pc = w.pc /\ v.timer = w.timer
            /\ v.left = Lease - w.spent /\ ~v.calling
        BY <1>a, Ranges DEF WorkerState
      <4>2. /\ w.timer \in Nat /\ w.spent \in 0 .. Attempt /\ w.calling
            /\ task.left \in Nat /\ task.since \in Nat /\ w.reply = "active"
        BY <1>a, <1>8, <2>1, Timing DEF WorkerState, RenewReturns, Row
      <4> HIDE DEF v, w
      <4>3. WorkerOK(v, task, k)
        BY <1>a, <4>1, <4>2, Timing DEF WorkerOK
      <4>4. QED
        BY <4>1, <4>3
    <3>2. wk' = [wk EXCEPT ![k] = v] /\ task' = task /\ active' = active
          /\ signal' = signal
      BY <1>8, <2>1 DEF RenewReturns, KeepCopying
    <3> HIDE DEF v
    <3>3. QED
      BY <1>a, <1>b, <3>1, <3>2, OneWorker
  <2>2. QED
    BY <1>7, <1>8, <2>1 DEF RenewReturns
<1>9. CASE RenewFails(k)
  <2>1. CASE RetryTooLate(k)
    BY <1>7, <1>9, <2>1 DEF RenewFails
  <2>2. CASE ~RetryTooLate(k)
    <3> DEFINE v == [wk[k] EXCEPT !.calling = FALSE, !.left = wk[k].left]
    <3>1. v \in WorkerState /\ WorkerOK(v, task, k)
      <4>1. /\ v \in WorkerState /\ v.pc = w.pc /\ v.timer = w.timer
            /\ v.left = w.left /\ ~v.calling
        BY <1>a, Ranges DEF WorkerState
      <4>2. /\ w.timer \in Nat /\ w.spent \in Nat /\ w.left \in Nat
            /\ w.calling /\ Heartbeat + Attempt < w.left
        BY <1>a, <1>9, <2>2, Timing
           DEF WorkerState, RenewFails, RetryTooLate
      <4> HIDE DEF v, w
      <4>3. WorkerOK(v, task, k)
        BY <1>a, <4>1, <4>2, Timing DEF WorkerOK
      <4>4. QED
        BY <4>1, <4>3
    <3>2. wk' = [wk EXCEPT ![k] = v] /\ task' = task /\ active' = active
          /\ signal' = signal
      BY <1>9, <2>2 DEF RenewFails, KeepCopying
    <3> HIDE DEF v
    <3>3. QED
      BY <1>a, <1>b, <3>1, <3>2, OneWorker
  <2>3. QED
    BY <2>1, <2>2
<1>10. QED
  BY <1>1, <1>2, <1>3, <1>4, <1>5, <1>6, <1>8, <1>9 DEF WorkerStep

-----------------------------------------------------------------------------
(* The other steps.                                                        *)

(* The row changes and no worker works on it. *)
LEMMA RowReplaced ==
  ASSUME Inv, task' \in Row, RowOK(task'), UNCHANGED <<active, wk>>,
         signal' \in BOOLEAN,
         \A k \in Worker : wk[k].pc \notin {"check", "copy"}
  PROVE  Inv'
<1>1. ASSUME NEW k \in Worker PROVE WorkerOK(wk[k], task', k)
  <2>1. ~wk[k].calling /\ wk[k].pc \notin {"check", "copy"}
    BY DEF Inv, WorkerOK
  <2>2. QED
    BY <2>1 DEF WorkerOK
<1>2. QED
  BY <1>1 DEF Inv, TypeOK

LEMMA UserStepKeeps ==
  ASSUME Inv, UserStep \/ CancelExpired
  PROVE  Inv'
<1>a. /\ TypeOK /\ task \in Row /\ RowOK(task)
      /\ NewRow \in Row /\ Idle \in WorkerState
      /\ active \in Worker \cup {NoWorker} /\ signal \in BOOLEAN
  BY Timing DEF Inv, TypeOK, NewRow, Row, Idle, WorkerState
<1>b. \A j \in Worker : WorkerOK(wk[j], task, j) /\ wk[j] \in WorkerState
  BY DEF Inv, TypeOK
<1>c. /\ NewRow \in Row /\ RowOK(NewRow)
      /\ [NewRow EXCEPT !.status = "over"] \in Row
      /\ RowOK([NewRow EXCEPT !.status = "over"])
  BY <1>a DEF NewRow, Row, RowOK
<1>1. CASE RequestCancel
  <2>1. CASE task.status = "running"
    <3>1. task' = [task EXCEPT !.asked = TRUE] /\ signal' = TRUE
      BY <1>1, <2>1 DEF RequestCancel
    <3>a. task' \in Row /\ task'.status = "running"
          /\ task'.owner = task.owner /\ task'.left = task.left
          /\ task'.since = task.since /\ task'.asked
      BY <1>a, <2>1, <3>1 DEF Row
    <3>2. task' \in Row /\ RowOK(task')
      BY <1>a, <2>1, <3>a DEF Row, RowOK
    <3>3. ASSUME NEW j \in Worker PROVE WorkerOK(wk[j], task', j)
      <4>1. CASE task.asked
        BY <1>a, <1>b, <2>1, <3>a, <4>1 DEF WorkerOK
      <4>2. CASE ~task.asked
        <5>1. task'.since = 0
          BY <1>a, <3>a, <4>2 DEF RowOK
        <5>2. QED
          BY <1>a, <1>b, <2>1, <3>a, <5>1, Timing
          DEF WorkerOK, WorkerState, Row
      <4>3. QED
        BY <4>1, <4>2
    <3>4. QED
      BY <1>a, <1>1, <3>2, <3>3 DEF RequestCancel, Inv, TypeOK
  <2>2. CASE task.status # "running"
    <3>1. \A j \in Worker : wk[j].pc \notin {"check", "copy"}
      BY <1>b, <2>2 DEF WorkerOK
    <3>2. task' = [NewRow EXCEPT !.status = "over"]
          /\ UNCHANGED <<active, signal, wk>>
      BY <1>1, <2>2 DEF RequestCancel
    <3>3. QED
      BY <1>a, <1>c, <3>1, <3>2, RowReplaced
  <2>3. QED
    BY <2>1, <2>2
<1>2. CASE Signal
  <2>1. CASE active \in Worker /\ wk[active].pc = "copy"
    <3> DEFINE v == [Idle EXCEPT !.pc = "finish"]
    <3>1. v \in WorkerState /\ WorkerOK(v, task, active)
      BY <1>a DEF Idle, WorkerState, WorkerOK
    <3>2. wk' = [wk EXCEPT ![active] = v] /\ task' = task
          /\ active' = active /\ signal' = FALSE
      BY <1>2, <2>1 DEF Signal
    <3> HIDE DEF v
    <3>3. QED
      BY <1>a, <1>b, <2>1, <3>1, <3>2, OneWorker
  <2>2. CASE ~(active \in Worker /\ wk[active].pc = "copy")
    BY <1>a, <1>b, <1>2, <2>2 DEF Signal, Inv, TypeOK
  <2>3. QED
    BY <2>1, <2>2
<1>3. CASE SignalLost
  BY <1>a, <1>b, <1>3 DEF SignalLost, Inv, TypeOK
<1>4. CASE CancelExpired
  <2>1. \A j \in Worker : wk[j].pc \notin {"check", "copy"}
    BY <1>a, <1>b, <1>4, TimeLeft DEF CancelExpired
  <2>2. QED
    BY <1>a, <1>c, <1>4, <2>1, RowReplaced DEF CancelExpired
<1>5. CASE Retry
  <2>1. \A j \in Worker : wk[j].pc \notin {"check", "copy"}
    BY <1>b, <1>5 DEF Retry, WorkerOK
  <2>2. QED
    BY <1>a, <1>c, <1>5, <2>1, RowReplaced DEF Retry
<1>6. QED
  BY <1>1, <1>2, <1>3, <1>4, <1>5 DEF UserStep

LEMMA TimePassesKeeps ==
  ASSUME Inv, TimePasses
  PROVE  Inv'
<1> DEFINE t == [task EXCEPT !.left = Less(task.left),
                   !.since = IF task.asked /\ task.since <= Lease
                               THEN task.since + 1 ELSE task.since]
<1>1. task \in Row /\ RowOK(task) /\ TypeOK
  BY DEF Inv, TypeOK
<1>2. task' = t
  BY DEF TimePasses
<1>3. t \in Row /\ RowOK(t)
  <2>1. Less(task.left) \in 0 .. Lease
    BY <1>1, Timing DEF Row, Less
  <2>2. t.since \in 0 .. Lease + 1
    BY <1>1, Timing DEF Row
  <2>3. t \in Row
    BY <1>1, <2>1, <2>2 DEF Row
  <2>4. RowOK(t)
    BY <1>1 DEF Row, RowOK
  <2>5. QED
    BY <2>3, <2>4
<1>4. ASSUME NEW k \in Worker
      PROVE  Older(k) \in WorkerState /\ WorkerOK(Older(k), t, k)
  <2> DEFINE w == wk[k]
             v == Older(k)
  <2>1. w \in WorkerState /\ WorkerOK(w, task, k) /\ OnTime(k)
    BY DEF Inv, TypeOK, TimePasses
  <2>2. /\ v.pc = w.pc /\ v.left = Less(w.left) /\ v.timer = Less(w.timer)
        /\ v.calling = w.calling /\ v.reply = w.reply
        /\ v.spent = IF w.calling THEN w.spent + 1 ELSE w.spent
    BY <2>1 DEF Older, WorkerState
  <2>3. /\ t.status = task.status /\ t.owner = task.owner
        /\ t.left = Less(task.left) /\ t.asked = task.asked
        /\ t.since = IF task.asked /\ task.since <= Lease
                       THEN task.since + 1 ELSE task.since
    BY <1>1 DEF Row
  <2>4. v \in WorkerState
    <3>1. Less(w.left) \in 0 .. Lease /\ Less(w.timer) \in 0 .. Lease
      BY <2>1, Timing DEF WorkerState, Less
    <3>2. (IF w.calling THEN w.spent + 1 ELSE w.spent) \in 0 .. Attempt
      BY <2>1, Timing DEF WorkerState, OnTime
    <3>3. QED
      BY <2>1, <3>1, <3>2 DEF Older, WorkerState
  <2> HIDE DEF v, t
  <2>5. CASE w.pc \notin {"check", "copy"}
    <3>1. ~w.calling
      BY <2>1, <2>5 DEF WorkerOK
    <3> HIDE DEF w, v
    <3>2. ~v.calling /\ v.pc \notin {"check", "copy"}
      BY <2>2, <2>5, <3>1
    <3>3. WorkerOK(v, t, k)
      BY <3>2 DEF WorkerOK
    <3>4. QED
      BY <2>4, <3>3 DEF v
  <2>6. CASE w.pc \in {"check", "copy"}
    <3>1. w.left > 0 /\ task.left > 0
      BY <1>1, <2>1, <2>6, TimeLeft
    <3>2. v.left = w.left - 1 /\ t.left = task.left - 1
      BY <1>1, <2>1, <2>2, <2>3, <3>1 DEF Less
    <3>3. /\ t.status = "running" /\ t.owner = k /\ v.left <= t.left
          /\ t.asked => v.left + t.since <= Lease
      BY <1>1, <2>1, <2>3, <2>6, <3>1, <3>2, Timing
         DEF WorkerOK, WorkerState, Row
    <3>4. CASE w.calling
      <4>1. /\ v.calling /\ v.pc = "copy"
            /\ v.timer + v.spent = Heartbeat
        BY <2>1, <2>2, <3>4, Timing DEF WorkerOK, WorkerState, OnTime, Less
      <4>2. v.left + v.spent > Attempt /\ v.left + v.spent <= Lease
        BY <2>1, <2>2, <3>2, <3>4, Timing DEF WorkerOK, WorkerState
      <4>3. v.reply = "active" =>
              t.left + v.spent >= Lease /\ (t.asked => t.since <= v.spent)
        BY <1>1, <2>1, <2>2, <2>3, <3>2, <3>4, Timing
           DEF WorkerOK, WorkerState, Row
      <4> HIDE DEF v
      <4>4. v.calling /\ v.pc # "check"
        BY <4>1
      <4>5. WorkerOK(v, t, k)
        BY <3>3, <4>1, <4>2, <4>3, <4>4 DEF WorkerOK
      <4>6. QED
        BY <2>4, <4>5 DEF v
    <3>5. CASE ~w.calling
      <4>1. w.timer > 0 /\ v.timer = w.timer - 1 /\ ~v.calling
        BY <2>1, <2>2, <2>6, <3>5 DEF OnTime, Ticks, WorkerState, Less
      <4>2. v.pc = "check" => v.left > v.timer + Heartbeat + Attempt
        BY <2>1, <2>2, <3>2, <4>1, Timing DEF WorkerOK, WorkerState
      <4>3. v.pc = "copy" => v.timer <= Heartbeat /\ v.left > v.timer + Attempt
        BY <2>1, <2>2, <3>2, <3>5, <4>1, Timing DEF WorkerOK, WorkerState
      <4> HIDE DEF v
      <4>4. WorkerOK(v, t, k)
        BY <3>3, <4>1, <4>2, <4>3 DEF WorkerOK
      <4>5. QED
        BY <2>4, <4>4 DEF v
    <3>6. QED
      BY <3>4, <3>5
  <2>7. QED
    BY <2>4, <2>5, <2>6
<1>5. wk' = [k \in Worker |-> Older(k)] /\ active' = active /\ signal' = signal
  BY DEF TimePasses
<1> HIDE DEF t
<1>6. TypeOK'
  BY <1>1, <1>2, <1>3, <1>4, <1>5 DEF TypeOK
<1>7. QED
  BY <1>2, <1>3, <1>4, <1>5, <1>6 DEF Inv

-----------------------------------------------------------------------------
LEMMA InvHolds == Spec => []Inv
<1>1. Init => Inv
  <2> SUFFICES ASSUME Init PROVE Inv
    OBVIOUS
  <2>1. TypeOK /\ RowOK(task)
    <3>1. NewRow \in Row /\ Idle \in WorkerState /\ RowOK(NewRow)
      BY Ranges DEF NewRow, Row, Idle, WorkerState, RowOK
    <3>2. QED
      BY <3>1 DEF Init, TypeOK
  <2>2. \A k \in Worker : WorkerOK(wk[k], task, k)
    BY DEF Init, Idle, WorkerOK
  <2>3. QED
    BY <2>1, <2>2 DEF Inv
<1>2. Inv /\ [Next]_vars => Inv'
  <2> SUFFICES ASSUME Inv, [Next]_vars PROVE Inv'
    OBVIOUS
  <2>1. CASE UNCHANGED vars
    BY <2>1 DEF vars, Inv, TypeOK
  <2>2. QED
    BY <2>1, WorkerStepKeeps, UserStepKeeps, TimePassesKeeps DEF Next
<1>3. QED
  BY <1>1, <1>2, PTL DEF Spec

(* The type invariant. *)
THEOREM TypeCorrect == Spec => []TypeOK
<1>1. Inv => TypeOK
  BY DEF Inv
<1>2. QED
  BY <1>1, InvHolds, PTL

(* A worker that copies holds the task under a lease that has not run out, *)
(* whatever renewals fail, so that no two workers copy the task at once    *)
(* (heartbeat and renewalRetryWouldExceedLease of internal/worker).        *)
THEOREM CopierSafe == Spec => []CopierHoldsLease
<1>1. Inv => CopierHoldsLease
  <2> SUFFICES ASSUME Inv, NEW k \in Worker, wk[k].pc = "copy"
               PROVE  task.status = "running" /\ task.owner = k
                      /\ task.left > 0
    BY DEF CopierHoldsLease
  <2>1. WorkerOK(wk[k], task, k) /\ wk[k] \in WorkerState /\ task \in Row
    BY DEF Inv, TypeOK
  <2>2. QED
    BY <2>1, TimeLeft DEF WorkerOK
<1>2. QED
  BY <1>1, InvHolds, PTL

(* A copy ends within the time of a lease after the request to cancel it,  *)
(* although the database may not answer and the signal may be lost         *)
(* (RequestCancel and RenewLease of the task repository).                  *)
THEOREM CancelInTime == Spec => []CancelHeeded
<1>1. Inv => CancelHeeded
  <2> SUFFICES ASSUME Inv, NEW k \in Worker, wk[k].pc = "copy", task.asked
               PROVE  task.since < Lease
    BY DEF CancelHeeded
  <2>1. WorkerOK(wk[k], task, k) /\ wk[k] \in WorkerState /\ task \in Row
    BY DEF Inv, TypeOK
  <2>2. wk[k].left > 0
    BY <2>1, TimeLeft
  <2>3. QED
    BY <2>1, <2>2, Timing DEF WorkerOK, WorkerState, Row
<1>2. QED
  BY <1>1, InvHolds, PTL

=============================================================================
