-------------------------- MODULE RemoteMoveProofs --------------------------
(***************************************************************************)
(* Proofs about RemoteMove: for any number of processes, operations, files *)
(* and paths, an instance holds the route as long as an operation is under *)
(* way, reports advance and add up; and no file is lost when one process   *)
(* serves.                                                                 *)
(***************************************************************************)
EXTENDS RemoteMove, FiniteSetTheorems, SequenceTheorems, TLAPS

-----------------------------------------------------------------------------
(* The batch at hand.                                                      *)

Done(j) == {j.sources[k] : k \in 1 .. j.next - 1}

(* Unless the batch was refused, every source up to the one at hand is in  *)
(* exactly one place: moved, failed, or once among those that are still to *)
(* be moved.                                                               *)
Counted(j) == ~j.err =>
  /\ IsFiniteSet(j.moved) /\ IsFiniteSet(j.failed) /\ j.moved \cap j.failed = {}
  /\ j.moved \subseteq Done(j) /\ j.failed \subseteq Done(j)
  /\ \A k \in 1 .. Len(j.ready) :
       /\ j.ready[k] \in Done(j)
       /\ j.ready[k] \notin j.moved /\ j.ready[k] \notin j.failed
       /\ \A l \in 1 .. Len(j.ready) : j.ready[k] = j.ready[l] => k = l
  /\ j.next - 1 <= Len(j.sources)
  /\ Cardinality(j.moved) + Cardinality(j.failed) + Len(j.ready) = j.next - 1

(* Where a goroutine is, and what is then true. *)
Staged(j) ==
  /\ j.err => j.pc = "finish"
  /\ j.pc # "none" => j.at \in Instance /\ j.target \in Folder
  /\ j.pc \in {"move", "command", "verify", "finish"} /\ ~j.err =>
       j.next = Len(j.sources) + 1
  /\ j.pc \in {"command", "verify"} => j.ready # <<>>
  /\ j.pc = "finish" /\ ~j.err => j.ready = <<>>

(* What the instance says of an operation is what its goroutine has last   *)
(* reported.                                                               *)
Reports(e, j) ==
  /\ (e.status \in {"queued", "running"}) <=> j.pc # "none"
  /\ j.pc # "none" => /\ e.at = j.at /\ e.total = Len(j.sources)
                      /\ e.moved = j.moved /\ e.failed = j.failed

(* An instance is marked as busy for the operation whose goroutine it has. *)
Marked(i, o) == active[i] = o <=> job[o].pc # "none" /\ job[o].at = i

(* A result adds up. *)
AddsUp(e) == e.status = "completed" =>
  /\ e.moved \cap e.failed = {}
  /\ Cardinality(e.moved) + Cardinality(e.failed) = e.total

(* The inductive invariant. *)
IInv ==
  /\ TypeOK
  /\ \A o \in Operation :
       /\ Counted(job[o]) /\ Staged(job[o])
       /\ Reports(entry[o], job[o]) /\ AddsUp(entry[o])
       /\ \A i \in Instance : Marked(i, o)

-----------------------------------------------------------------------------
(* Lists.                                                                  *)

LEMMA ListIsSeq ==
  ASSUME NEW n \in Nat, NEW s
  PROVE  s \in Lists(n) <=> s \in Seq(Path) /\ Len(s) <= n
<1>1. ASSUME s \in Lists(n) PROVE s \in Seq(Path) /\ Len(s) <= n
  <2>1. PICK k \in 0 .. n : s \in [1 .. k -> Path]
    BY <1>1 DEF Lists
  <2>2. s \in Seq(Path) /\ Len(s) = k
    BY <2>1
  <2>3. QED
    BY <2>1, <2>2
<1>2. ASSUME s \in Seq(Path), Len(s) <= n PROVE s \in Lists(n)
  <2>1. Len(s) \in 0 .. n /\ s \in [1 .. Len(s) -> Path]
    BY <1>2, LenProperties
  <2>2. QED
    BY <2>1 DEF Lists
<1>3. QED
  BY <1>1, <1>2

LEMMA JobLists ==
  ASSUME NEW j
  PROVE  j \in Job =>
           /\ j.sources \in Seq(Path) /\ Len(j.sources) <= MaxSources
           /\ j.ready \in Seq(Path) /\ Len(j.ready) <= MaxSources
           /\ j.next \in Nat \ {0}
BY ListIsSeq, SourcesAssumption DEF Job

LEMMA NoJobType ==
  NoJob \in Job /\ Counted(NoJob) /\ Staged(NoJob)
<1>1. <<>> \in Lists(MaxSources)
  <2>1. <<>> \in Seq(Path) /\ Len(<<>>) <= MaxSources
    BY SourcesAssumption
  <2>2. QED
    BY <2>1, ListIsSeq, SourcesAssumption
<1>2. NoJob \in Job
  BY <1>1, SourcesAssumption DEF NoJob, Job
<1>3. Counted(NoJob)
  BY FS_EmptySet DEF NoJob, Counted, Done
<1>4. QED
  BY <1>2, <1>3 DEF NoJob, Staged

LEMMA NoEntryType == NoEntry \in Entry /\ AddsUp(NoEntry)
BY SourcesAssumption DEF NoEntry, Entry, AddsUp

-----------------------------------------------------------------------------
(* The turns of the two loops.                                             *)

(* The first loop takes up a source that it has not had, and puts it with  *)
(* those that failed, or last among those to be moved.                     *)
LEMMA ValidatedStep ==
  ASSUME NEW o \in Operation, job[o] \in Job, Counted(job[o]), Staged(job[o]),
         job[o].pc = "validate", job[o].next <= Len(job[o].sources),
         Source(o) \notin Before(o)
  PROVE  /\ Validated(o) \in Job
         /\ Counted(Validated(o)) /\ Staged(Validated(o))
         /\ Validated(o).pc = "validate" /\ Validated(o).at = job[o].at
         /\ Validated(o).sources = job[o].sources
         /\ job[o].moved \subseteq Validated(o).moved
         /\ job[o].failed \subseteq Validated(o).failed
<1> DEFINE j == job[o]
           p == Source(o)
           v == Validated(o)
<1>1. /\ j.sources \in Seq(Path) /\ Len(j.sources) \in Nat
      /\ j.ready \in Seq(Path) /\ Len(j.ready) \in Nat
      /\ Len(j.sources) <= MaxSources /\ j.next \in Nat \ {0}
      /\ j.moved \in SUBSET Path /\ j.failed \in SUBSET Path
      /\ MaxSources \in Nat
  BY JobLists, SourcesAssumption DEF Job
<1>2. p \in Path /\ p \notin Done(j) /\ ~j.err
  BY <1>1, ElementOfSeq DEF Source, Before, Done, Staged
<1>3. /\ IsFiniteSet(j.moved) /\ Cardinality(j.moved) \in Nat
      /\ IsFiniteSet(j.failed) /\ Cardinality(j.failed) \in Nat
  BY <1>2, FS_CardinalityType DEF Counted
<1>4. Cardinality(j.moved) + Cardinality(j.failed) + Len(j.ready) = j.next - 1
  BY <1>2 DEF Counted
<1>5. \A w : w.sources = j.sources /\ w.next = j.next + 1
        => Done(w) = Done(j) \cup {p}
  BY <1>1 DEF Done, Source
<1>6. /\ j.next + 1 \in 1 .. MaxSources + 1
      /\ j.failed \cup {p} \in SUBSET Path
  BY <1>1, <1>2
<1>7. /\ p \notin j.failed /\ p \notin j.moved
      /\ IsFiniteSet(j.failed \cup {p})
      /\ Cardinality(j.failed \cup {p}) = Cardinality(j.failed) + 1
  <2>1. p \notin j.failed /\ p \notin j.moved
    BY <1>2 DEF Counted
  <2>2. QED
    BY <1>3, <2>1, FS_AddElement
<1> HIDE DEF p
<1>8. CASE Refused(o)
  <2>1. v = [j EXCEPT !.next = @ + 1, !.failed = @ \cup {p}]
    BY <1>8 DEF Validated, p
  <2>2. /\ v \in Job /\ v.next = j.next + 1 /\ v.failed = j.failed \cup {p}
        /\ v.moved = j.moved /\ v.ready = j.ready /\ v.sources = j.sources
        /\ v.pc = j.pc /\ v.at = j.at /\ v.target = j.target /\ v.err = j.err
    BY <1>6, <2>1 DEF Job
  <2>3. /\ IsFiniteSet(v.failed)
        /\ Cardinality(v.failed) = Cardinality(j.failed) + 1
    BY <1>7, <2>2
  <2>4. Done(v) = Done(j) \cup {p}
    BY <1>5, <2>2
  <2>5. Cardinality(v.moved) + Cardinality(v.failed) + Len(v.ready) = v.next - 1
    <3>1. /\ Cardinality(v.moved) = Cardinality(j.moved)
          /\ Len(v.ready) = Len(j.ready) /\ v.next = j.next + 1
      BY <1>1, <2>2
    <3>2. (j.next + 1) - 1 = (j.next - 1) + 1
      BY <1>1
    <3>3. QED
      BY <1>1, <1>3, <1>4, <2>3, <3>1, <3>2
  <2>6. v.next - 1 <= Len(v.sources)
    BY <1>1, <2>2
  <2>7. \A k \in 1 .. Len(j.ready) :
          /\ j.ready[k] \in Done(v)
          /\ j.ready[k] \notin v.moved /\ j.ready[k] \notin v.failed
          /\ \A l \in 1 .. Len(j.ready) : j.ready[k] = j.ready[l] => k = l
    BY <1>2, <2>2, <2>4 DEF Counted
  <2>8. /\ v.moved \cap v.failed = {}
        /\ v.moved \subseteq Done(v) /\ v.failed \subseteq Done(v)
    BY <1>2, <1>7, <2>2, <2>4 DEF Counted
  <2>9. Counted(v)
    BY <1>3, <2>2, <2>3, <2>5, <2>6, <2>7, <2>8 DEF Counted
  <2>10. QED
    BY <1>2, <2>2, <2>9 DEF Staged
<1>9. CASE ~Refused(o)
  <2>1. v = [j EXCEPT !.next = @ + 1, !.ready = Append(@, p)]
    BY <1>9 DEF Validated, p
  <2> DEFINE ready == Append(j.ready, p)
  <2>2. /\ ready \in Seq(Path) /\ Len(ready) = Len(j.ready) + 1
        /\ \A k \in 1 .. Len(j.ready) : ready[k] = j.ready[k]
        /\ ready[Len(j.ready) + 1] = p
    BY <1>1, <1>2
  <2>3. Len(j.ready) <= j.next - 1
    BY <1>1, <1>2, <1>3 DEF Counted
  <2>4. ready \in Lists(MaxSources)
    <3> HIDE DEF ready
    <3>1. Len(ready) <= MaxSources
      BY <1>1, <2>2, <2>3
    <3>2. QED
      BY <1>1, <2>2, <3>1, ListIsSeq
  <2> HIDE DEF ready
  <2>5. /\ v \in Job /\ v.next = j.next + 1 /\ v.failed = j.failed
        /\ v.moved = j.moved /\ v.ready = ready /\ v.sources = j.sources
        /\ v.pc = j.pc /\ v.at = j.at /\ v.target = j.target /\ v.err = j.err
    BY <1>6, <2>1, <2>4 DEF Job, ready
  <2>6. Done(v) = Done(j) \cup {p}
    BY <1>5, <2>5
  <2>7. \A k \in 1 .. Len(ready) : k \in 1 .. Len(j.ready) \/ k = Len(j.ready) + 1
    BY <1>1, <2>2
  <2>8. Counted(v)
    <3>1. \A k \in 1 .. Len(j.ready) : ready[k] \in Done(j) /\ ready[k] # p
      BY <1>2, <2>2 DEF Counted
    <3>2. \A k, l \in 1 .. Len(ready) : ready[k] = ready[l] => k = l
      BY <1>1, <1>2, <2>2, <2>7, <3>1 DEF Counted
    <3>3. \A k \in 1 .. Len(ready) :
            /\ ready[k] \in Done(v)
            /\ ready[k] \notin j.moved /\ ready[k] \notin j.failed
      BY <1>2, <1>7, <2>2, <2>6, <2>7 DEF Counted
    <3>4. Cardinality(v.moved) + Cardinality(v.failed) + Len(v.ready) = v.next - 1
      <4>1. /\ Cardinality(v.moved) = Cardinality(j.moved)
            /\ Cardinality(v.failed) = Cardinality(j.failed)
            /\ Len(v.ready) = Len(j.ready) + 1 /\ v.next = j.next + 1
        BY <1>1, <2>2, <2>5
      <4>2. (j.next + 1) - 1 = (j.next - 1) + 1
        BY <1>1
      <4>3. QED
        BY <1>1, <1>3, <1>4, <4>1, <4>2
    <3>5. QED
      BY <1>1, <1>2, <2>5, <2>6, <3>2, <3>3, <3>4 DEF Counted
  <2>9. QED
    BY <1>2, <2>5, <2>8 DEF Staged
<1>10. QED
  BY <1>8, <1>9

(* The second loop takes the first of those to be moved away, and puts it  *)
(* with those that failed or those that were moved.                        *)
LEMMA MovedStep ==
  ASSUME NEW o \in Operation, job[o] \in Job, Counted(job[o]), Staged(job[o]),
         job[o].pc \in {"command", "verify"},
         NEW next, next \in {Failing(o), Succeeding(o)}
  PROVE  /\ next \in Job /\ Counted(next) /\ Staged(next)
         /\ next.pc = "move" /\ next.at = job[o].at
         /\ next.sources = job[o].sources
         /\ job[o].moved \subseteq next.moved
         /\ job[o].failed \subseteq next.failed
<1> DEFINE j == job[o]
           p == Head(j.ready)
           tail == Tail(j.ready)
<1>1. /\ j.sources \in Seq(Path) /\ Len(j.sources) \in Nat
      /\ j.ready \in Seq(Path) /\ Len(j.ready) \in Nat
      /\ Len(j.ready) <= MaxSources /\ j.next \in Nat \ {0}
      /\ j.moved \in SUBSET Path /\ j.failed \in SUBSET Path
      /\ MaxSources \in Nat
  BY JobLists, SourcesAssumption DEF Job
<1>2. j.ready # <<>> /\ ~j.err
  BY DEF Staged
<1>3. /\ p \in Path /\ tail \in Seq(Path) /\ Len(tail) = Len(j.ready) - 1
      /\ \A k \in 1 .. Len(tail) : tail[k] = j.ready[k + 1]
      /\ p = j.ready[1] /\ Len(j.ready) >= 1
  BY <1>1, <1>2, HeadTailProperties, EmptySeq
<1>4. /\ p \in Done(j) /\ p \notin j.moved /\ p \notin j.failed
      /\ \A k \in 1 .. Len(tail) :
           /\ tail[k] \in Done(j) /\ tail[k] # p
           /\ tail[k] \notin j.moved /\ tail[k] \notin j.failed
           /\ \A l \in 1 .. Len(tail) : tail[k] = tail[l] => k = l
  <2>1. 1 \in 1 .. Len(j.ready)
        /\ \A k \in 1 .. Len(tail) : k + 1 \in 1 .. Len(j.ready)
    BY <1>1, <1>3
  <2>2. \A k, l \in 1 .. Len(j.ready) : j.ready[k] = j.ready[l] => k = l
    BY <1>2 DEF Counted
  <2>3. \A k \in 1 .. Len(tail) : tail[k] # p
    BY <1>1, <1>3, <2>1, <2>2
  <2>4. \A k, l \in 1 .. Len(tail) : tail[k] = tail[l] => k = l
    BY <1>1, <1>3, <2>1, <2>2
  <2>5. QED
    BY <1>2, <1>3, <2>1, <2>3, <2>4 DEF Counted
<1>5. tail \in Lists(MaxSources)
  <2> HIDE DEF tail
  <2>1. Len(tail) <= MaxSources
    BY <1>1, <1>3
  <2>2. QED
    BY <1>1, <1>3, <2>1, ListIsSeq
<1>6. /\ IsFiniteSet(j.moved) /\ Cardinality(j.moved) \in Nat
      /\ IsFiniteSet(j.failed) /\ Cardinality(j.failed) \in Nat
  BY <1>2, FS_CardinalityType DEF Counted
<1>7. Cardinality(j.moved) + Cardinality(j.failed) + Len(j.ready) = j.next - 1
  BY <1>2 DEF Counted
<1> HIDE DEF p, tail
<1>8. /\ IsFiniteSet(j.moved \cup {p})
      /\ Cardinality(j.moved \cup {p}) = Cardinality(j.moved) + 1
      /\ IsFiniteSet(j.failed \cup {p})
      /\ Cardinality(j.failed \cup {p}) = Cardinality(j.failed) + 1
  BY <1>4, <1>6, FS_AddElement
<1>9. CASE next = Failing(o)
  <2>1. /\ next \in Job /\ next.next = j.next /\ next.failed = j.failed \cup {p}
        /\ next.moved = j.moved /\ next.ready = tail
        /\ next.sources = j.sources /\ next.pc = "move" /\ next.at = j.at
        /\ next.target = j.target /\ next.err = j.err
    BY <1>1, <1>3, <1>5, <1>9 DEF Job, Failing, p, tail
  <2>2. /\ IsFiniteSet(next.failed)
        /\ Cardinality(next.failed) = Cardinality(j.failed) + 1
    BY <1>8, <2>1
  <2>3. Done(next) = Done(j)
    BY <2>1 DEF Done
  <2>4. Cardinality(next.moved) + Cardinality(next.failed) + Len(next.ready)
          = next.next - 1
    BY <1>1, <1>3, <1>6, <1>7, <2>1, <2>2
  <2>5. /\ next.moved \cap next.failed = {}
        /\ next.moved \subseteq Done(next) /\ next.failed \subseteq Done(next)
        /\ next.next - 1 <= Len(next.sources)
    BY <1>2, <1>4, <2>1, <2>3 DEF Counted
  <2>6. Counted(next)
    BY <1>4, <1>6, <2>1, <2>2, <2>3, <2>4, <2>5 DEF Counted
  <2>7. QED
    BY <1>2, <2>1, <2>6 DEF Staged
<1>10. CASE next = Succeeding(o)
  <2>1. /\ next \in Job /\ next.next = j.next /\ next.moved = j.moved \cup {p}
        /\ next.failed = j.failed /\ next.ready = tail
        /\ next.sources = j.sources /\ next.pc = "move" /\ next.at = j.at
        /\ next.target = j.target /\ next.err = j.err
    BY <1>1, <1>3, <1>5, <1>10 DEF Job, Succeeding, p, tail
  <2>2. /\ IsFiniteSet(next.moved)
        /\ Cardinality(next.moved) = Cardinality(j.moved) + 1
    BY <1>8, <2>1
  <2>3. Done(next) = Done(j)
    BY <2>1 DEF Done
  <2>4. Cardinality(next.moved) + Cardinality(next.failed) + Len(next.ready)
          = next.next - 1
    BY <1>1, <1>3, <1>6, <1>7, <2>1, <2>2
  <2>5. /\ next.moved \cap next.failed = {}
        /\ next.moved \subseteq Done(next) /\ next.failed \subseteq Done(next)
        /\ next.next - 1 <= Len(next.sources)
    BY <1>2, <1>4, <2>1, <2>3 DEF Counted
  <2>6. Counted(next)
    BY <1>4, <1>6, <2>1, <2>2, <2>3, <2>4, <2>5 DEF Counted
  <2>7. QED
    BY <1>2, <2>1, <2>6 DEF Staged
<1>11. QED
  BY <1>9, <1>10

-----------------------------------------------------------------------------
(* The steps preserve the invariant.                                       *)

(* The goroutine of an operation goes on, and says what it has done. *)
LEMMA GoesOn ==
  ASSUME IInv, NEW o \in Operation, NEW next \in Job, NEW e \in Entry,
         Counted(next), Staged(next),
         job[o].pc # "none", next.pc # "none", next.at = job[o].at,
         Reports(e, next), AddsUp(e),
         job' = [job EXCEPT ![o] = next], entry' = [entry EXCEPT ![o] = e],
         active' = active, remote' \in [Path -> File \cup {NoFile}]
  PROVE  IInv'
<1>1. /\ job \in [Operation -> Job] /\ entry \in [Operation -> Entry]
      /\ active \in [Instance -> Operation \cup {NoOperation}]
  BY DEF IInv, TypeOK
<1>2. TypeOK'
  BY <1>1 DEF TypeOK
<1>3. \A p \in Operation : /\ job'[p] = IF p = o THEN next ELSE job[p]
                           /\ entry'[p] = IF p = o THEN e ELSE entry[p]
  BY <1>1
<1>4. \A p \in Operation : Counted(job'[p]) /\ Staged(job'[p])
                           /\ Reports(entry'[p], job'[p]) /\ AddsUp(entry'[p])
  BY <1>3 DEF IInv
<1>5. \A p \in Operation, i \in Instance : Marked(i, p)'
  BY <1>3 DEF IInv, Marked
<1>6. QED
  BY <1>2, <1>4, <1>5 DEF IInv

(* It does so without a word. *)
LEMMA GoesOnSilently ==
  ASSUME IInv, NEW o \in Operation, NEW next \in Job,
         Counted(next), Staged(next),
         job[o].pc # "none", next.pc # "none", next.at = job[o].at,
         next.sources = job[o].sources, next.moved = job[o].moved,
         next.failed = job[o].failed,
         job' = [job EXCEPT ![o] = next], entry' = entry,
         active' = active, remote' \in [Path -> File \cup {NoFile}]
  PROVE  IInv'
<1>1. entry \in [Operation -> Entry]
  BY DEF IInv, TypeOK
<1>2. entry' = [entry EXCEPT ![o] = entry[o]]
  BY <1>1
<1>3. Reports(entry[o], next) /\ AddsUp(entry[o])
  BY DEF IInv, Reports
<1>4. QED
  BY <1>1, <1>2, <1>3, GoesOn

(* It reports what it has done. *)
LEMMA GoesOnAloud ==
  ASSUME IInv, NEW o \in Operation, NEW next \in Job,
         Counted(next), Staged(next),
         job[o].pc # "none", next.pc # "none", next.at = job[o].at,
         next.sources = job[o].sources, Reported(o, next),
         active' = active, remote' \in [Path -> File \cup {NoFile}]
  PROVE  IInv'
<1> DEFINE e == [entry[o] EXCEPT !.moved = next.moved, !.failed = next.failed]
<1>1. entry \in [Operation -> Entry] /\ entry[o] \in Entry
  BY DEF IInv, TypeOK
<1>2. next.moved \in SUBSET Path /\ next.failed \in SUBSET Path
  BY DEF Job
<1>3. /\ e \in Entry /\ e.at = entry[o].at /\ e.status = entry[o].status
      /\ e.total = entry[o].total /\ e.moved = next.moved
      /\ e.failed = next.failed
  BY <1>1, <1>2 DEF Entry
<1>4. entry' = [entry EXCEPT ![o] = e] /\ job' = [job EXCEPT ![o] = next]
  BY <1>1 DEF Reported
<1> HIDE DEF e
<1>5. Reports(e, next) /\ AddsUp(e)
  BY <1>3 DEF IInv, Reports, AddsUp
<1>6. QED
  BY <1>3, <1>4, <1>5, GoesOn

(* What is at the paths after a command, or after half of it. *)
LEMMA RemoteType ==
  ASSUME IInv, NEW o \in Operation, job[o].pc = "command"
  PROVE  /\ remote \in [Path -> File \cup {NoFile}]
         /\ Head(job[o].ready) \in Path
         /\ AfterMove(o) \in [Path -> File \cup {NoFile}]
         /\ HalfMoved(o) \in [Path -> File \cup {NoFile}]
<1>1. remote \in [Path -> File \cup {NoFile}]
  BY DEF IInv, TypeOK
<1>2. Head(job[o].ready) \in Path
  BY JobLists, HeadTailProperties DEF IInv, TypeOK, Staged
<1>3. QED
  BY <1>1, <1>2 DEF AfterMove, HalfMoved

(* Every step of a goroutine. *)
LEMMA JobStepInv ==
  ASSUME IInv, NEW o \in Operation, JobStep(o)
  PROVE  IInv'
<1> DEFINE j == job[o]
<1>1. /\ j \in Job /\ Counted(j) /\ Staged(j)
      /\ Reports(entry[o], j) /\ AddsUp(entry[o]) /\ entry[o] \in Entry
      /\ remote \in [Path -> File \cup {NoFile}]
      /\ job \in [Operation -> Job] /\ entry \in [Operation -> Entry]
      /\ active \in [Instance -> Operation \cup {NoOperation}]
  BY DEF IInv, TypeOK
<1>2. CASE Run(o)
  <2> DEFINE next == [j EXCEPT !.pc = "prepare"]
             e == [entry[o] EXCEPT !.status = "running"]
  <2>1. /\ next \in Job /\ next.pc = "prepare" /\ next.at = j.at
        /\ next.target = j.target /\ next.next = j.next
        /\ next.sources = j.sources /\ next.ready = j.ready
        /\ next.moved = j.moved /\ next.failed = j.failed /\ next.err = j.err
    BY <1>1 DEF Job
  <2>2. /\ e \in Entry /\ e.status = "running" /\ e.at = entry[o].at
        /\ e.total = entry[o].total /\ e.moved = entry[o].moved
        /\ e.failed = entry[o].failed
    BY <1>1 DEF Entry
  <2>3. /\ job' = [job EXCEPT ![o] = next] /\ entry' = [entry EXCEPT ![o] = e]
        /\ active' = active /\ remote' = remote /\ j.pc = "queued"
    BY <1>1, <1>2 DEF Run
  <2> HIDE DEF next, e
  <2>4. Counted(next)
    BY <1>1, <2>1 DEF Counted, Done
  <2>5. Staged(next) /\ Reports(e, next) /\ AddsUp(e)
    BY <1>1, <2>1, <2>2, <2>3 DEF Staged, Reports, AddsUp
  <2>6. QED
    BY <1>1, <2>1, <2>2, <2>3, <2>4, <2>5, GoesOn
<1>3. ASSUME Reported(o, Stop(o)), j.pc # "none", UNCHANGED <<remote, active>>
      PROVE  IInv'
  <2> DEFINE next == Stop(o)
  <2>1. /\ next \in Job /\ next.pc = "finish" /\ next.err
        /\ next.at = j.at /\ next.target = j.target
        /\ next.sources = j.sources
    BY <1>1 DEF Job, Stop
  <2>2. Counted(next) /\ Staged(next)
    BY <1>1, <1>3, <2>1 DEF Counted, Staged
  <2>3. QED
    BY <1>1, <1>3, <2>1, <2>2, GoesOnAloud
<1>4. CASE Prepare(o)
  <2> DEFINE next == [j EXCEPT !.pc = "validate"]
  <2>1. CASE Reported(o, next)
    <3>1. /\ next \in Job /\ next.pc = "validate" /\ next.at = j.at
          /\ next.target = j.target /\ next.next = j.next
          /\ next.sources = j.sources /\ next.ready = j.ready
          /\ next.moved = j.moved /\ next.failed = j.failed
          /\ next.err = j.err
      BY <1>1 DEF Job
    <3>2. j.pc = "prepare" /\ active' = active /\ remote' = remote
      BY <1>4 DEF Prepare
    <3> HIDE DEF next
    <3>3. Counted(next) /\ Staged(next)
      BY <1>1, <3>1, <3>2 DEF Counted, Done, Staged
    <3>4. QED
      BY <1>1, <2>1, <3>1, <3>2, <3>3, GoesOnAloud
  <2>2. CASE Reported(o, Stop(o))
    BY <1>3, <1>4, <2>2 DEF Prepare
  <2>3. QED
    BY <1>4, <2>1, <2>2 DEF Prepare
<1>5. CASE Validate(o)
  <2>1. CASE Source(o) \notin Before(o) /\ Reported(o, Validated(o))
    BY <1>1, <1>5, <2>1, ValidatedStep, GoesOnAloud DEF Validate
  <2>2. CASE Reported(o, Stop(o))
    BY <1>3, <1>5, <2>2 DEF Validate
  <2>3. QED
    BY <1>5, <2>1, <2>2 DEF Validate
<1>6. ASSUME NEW pc \in {"move", "command", "verify", "finish"},
             job' = [job EXCEPT ![o] = [j EXCEPT !.pc = pc]],
             j.pc \in {"validate", "move", "command"}, entry' = entry,
             active' = active, remote' \in [Path -> File \cup {NoFile}],
             j.next = Len(j.sources) + 1,
             pc \in {"command", "verify"} => j.ready # <<>>,
             pc = "finish" => j.ready = <<>>
      PROVE  IInv'
  <2> DEFINE next == [j EXCEPT !.pc = pc]
  <2>1. /\ next \in Job /\ next.pc = pc /\ next.at = j.at
        /\ next.target = j.target /\ next.next = j.next
        /\ next.sources = j.sources /\ next.ready = j.ready
        /\ next.moved = j.moved /\ next.failed = j.failed /\ next.err = j.err
    BY <1>1 DEF Job
  <2>2. job' = [job EXCEPT ![o] = next]
    BY <1>6
  <2> HIDE DEF next
  <2>3. Counted(next)
    BY <1>1, <2>1 DEF Counted, Done
  <2>4. Staged(next)
    BY <1>1, <1>6, <2>1 DEF Staged
  <2>5. QED
    BY <1>1, <1>6, <2>1, <2>2, <2>3, <2>4, GoesOnSilently
<1>7. CASE EndValidate(o)
  <2>1. ~j.err /\ j.next \in Nat /\ Len(j.sources) \in Nat
        /\ j.next - 1 <= Len(j.sources) /\ j.next > Len(j.sources)
    BY <1>1, <1>7, JobLists DEF EndValidate, Staged, Counted
  <2>2. j.next = Len(j.sources) + 1
    BY <2>1
  <2>3. QED
    BY <1>1, <1>6, <1>7, <2>2 DEF EndValidate
<1>8. CASE BeginCommand(o)
  <2> DEFINE next == [j EXCEPT !.pc = "command", !.free = FreeDest(o)]
  <2>1. FreeDest(o) \in BOOLEAN
    BY DEF FreeDest
  <2>2. /\ next \in Job /\ next.pc = "command" /\ next.at = j.at
        /\ next.target = j.target /\ next.next = j.next
        /\ next.sources = j.sources /\ next.ready = j.ready
        /\ next.moved = j.moved /\ next.failed = j.failed /\ next.err = j.err
    BY <1>1, <2>1 DEF Job
  <2>3. /\ job' = [job EXCEPT ![o] = next] /\ j.pc = "move" /\ j.ready # <<>>
        /\ entry' = entry /\ active' = active /\ remote' = remote
    BY <1>8 DEF BeginCommand
  <2> HIDE DEF next
  <2>4. Counted(next)
    BY <1>1, <2>2 DEF Counted, Done
  <2>5. Staged(next)
    BY <1>1, <2>2, <2>3 DEF Staged
  <2>6. QED
    BY <1>1, <2>2, <2>3, <2>4, <2>5, GoesOnSilently
<1>9. CASE EndCommand(o)
  <2>1. j.pc = "command" /\ ~j.err /\ j.ready # <<>>
        /\ j.next = Len(j.sources) + 1
    BY <1>1, <1>9 DEF EndCommand, Staged
  <2>2. /\ job' = [job EXCEPT ![o] = [j EXCEPT !.pc = "verify"]]
        /\ entry' = entry /\ active' = active
        /\ remote' \in [Path -> File \cup {NoFile}]
    BY <1>9, RemoteType DEF EndCommand
  <2>3. QED
    BY <1>6, <2>1, <2>2
<1>10. CASE CommandFails(o)
  <2>1. /\ j.pc = "command" /\ Reported(o, Failing(o)) /\ active' = active
        /\ remote' \in [Path -> File \cup {NoFile}]
    BY <1>10, RemoteType DEF CommandFails
  <2>2. QED
    BY <1>1, <2>1, MovedStep, GoesOnAloud
<1>11. CASE Verify(o)
  <2>1. /\ j.pc = "verify" /\ active' = active /\ remote' = remote
        /\ Reported(o, Failing(o)) \/ Reported(o, Succeeding(o))
    BY <1>11 DEF Verify
  <2>2. QED
    BY <1>1, <2>1, MovedStep, GoesOnAloud
<1>12. CASE EndMoves(o)
  <2>1. ~j.err /\ j.next = Len(j.sources) + 1
    BY <1>1, <1>12 DEF EndMoves, Staged
  <2>2. QED
    BY <1>1, <1>6, <1>12, <2>1 DEF EndMoves
<1>13. CASE Finish(o)
  <2> DEFINE i == j.at
             e == [entry[o] EXCEPT
                     !.status = IF j.err THEN "failed" ELSE "completed",
                     !.moved = j.moved, !.failed = j.failed]
  <2>1. j.pc = "finish" /\ i \in Instance
    BY <1>1, <1>13 DEF Finish, Staged
  <2>2. /\ entry' = [entry EXCEPT ![o] = e] /\ remote' = remote
        /\ job' = [job EXCEPT ![o] = NoJob]
        /\ active' = [active EXCEPT ![i] = Unmarked(i, o)]
    BY <1>13 DEF Finish
  <2>3. /\ e \in Entry /\ e.moved = j.moved /\ e.failed = j.failed
        /\ e.status = IF j.err THEN "failed" ELSE "completed"
        /\ e.total = entry[o].total
    BY <1>1 DEF Entry, Job
  <2>4. ~j.err => /\ j.moved \cap j.failed = {}
                  /\ Cardinality(j.moved) + Cardinality(j.failed)
                       = Len(j.sources)
    <3> SUFFICES ASSUME ~j.err
                 PROVE  /\ j.moved \cap j.failed = {}
                        /\ Cardinality(j.moved) + Cardinality(j.failed)
                             = Len(j.sources)
      OBVIOUS
    <3>1. j.ready = <<>> /\ j.next = Len(j.sources) + 1 /\ Len(j.sources) \in Nat
      BY <1>1, <2>1, JobLists DEF Staged
    <3>2. /\ j.moved \cap j.failed = {}
          /\ Cardinality(j.moved) \in Nat /\ Cardinality(j.failed) \in Nat
      BY <1>1, FS_CardinalityType DEF Counted
    <3>3. Cardinality(j.moved) + Cardinality(j.failed) + Len(j.ready)
            = j.next - 1
      BY <1>1 DEF Counted
    <3>4. Len(j.ready) = 0
      BY <3>1
    <3>5. QED
      BY <3>1, <3>2, <3>3, <3>4
  <2>5. AddsUp(e)
    BY <1>1, <2>1, <2>3, <2>4 DEF AddsUp, Reports
  <2> HIDE DEF e, i
  <2>6. Reports(e, NoJob)
    BY <2>3 DEF Reports, NoJob
  <2>7. \A p \in Operation : /\ job'[p] = IF p = o THEN NoJob ELSE job[p]
                             /\ entry'[p] = IF p = o THEN e ELSE entry[p]
    BY <1>1, <2>2
  <2>8. TypeOK'
    BY <1>1, <2>2, <2>3, NoJobType DEF TypeOK, Unmarked
  <2>9. \A p \in Operation : Counted(job'[p]) /\ Staged(job'[p])
                             /\ Reports(entry'[p], job'[p]) /\ AddsUp(entry'[p])
    BY <2>5, <2>6, <2>7, NoJobType DEF IInv
  <2>10. \A p \in Operation, k \in Instance : Marked(k, p)'
    <3>1. active[i] = o
      BY <2>1 DEF IInv, Marked, i
    <3>2. \A k \in Instance :
            active'[k] = IF k = i THEN NoOperation ELSE active[k]
      BY <1>1, <2>2, <3>1 DEF Unmarked
    <3> SUFFICES ASSUME NEW p \in Operation, NEW k \in Instance
                 PROVE  Marked(k, p)'
      OBVIOUS
    <3>3. Marked(k, p)
      BY DEF IInv
    <3>4. NoOperation # p
      BY OperationAssumption
    <3>5. CASE p = o
      BY <2>7, <3>2, <3>3, <3>4, <3>5 DEF Marked, NoJob, i
    <3>6. CASE p # o
      BY <2>7, <3>1, <3>2, <3>3, <3>4, <3>6 DEF Marked
    <3>7. QED
      BY <3>5, <3>6
  <2>11. QED
    BY <2>8, <2>9, <2>10 DEF IInv
<1>14. QED
  BY <1>2, <1>4, <1>5, <1>7, <1>8, <1>9, <1>10, <1>11, <1>12, <1>13 DEF JobStep

(* The results that are dropped are those of operations that are over. *)
LEMMA CleanedSound ==
  ASSUME IInv, NEW i \in Instance, NEW o \in Operation
  PROVE  /\ Cleaned(i)[o] \in Entry
         /\ Reports(Cleaned(i)[o], job[o]) /\ AddsUp(Cleaned(i)[o])
<1>1. entry[o] \in Entry /\ Reports(entry[o], job[o]) /\ AddsUp(entry[o])
  BY DEF IInv, TypeOK
<1>2. CASE Expired(i, o)
  <2>1. job[o].pc = "none" /\ Cleaned(i)[o] = NoEntry
    BY <1>1, <1>2 DEF Cleaned, Expired, Finished, Reports
  <2>2. QED
    BY <2>1, NoEntryType DEF Reports, NoEntry
<1>3. CASE ~Expired(i, o)
  BY <1>1, <1>3 DEF Cleaned
<1>4. QED
  BY <1>2, <1>3

LEMMA RequestInv ==
  ASSUME IInv, NEW i \in Instance, Request(i)
  PROVE  IInv'
<1>1. /\ remote \in [Path -> File \cup {NoFile}]
      /\ job \in [Operation -> Job] /\ entry \in [Operation -> Entry]
      /\ active \in [Instance -> Operation \cup {NoOperation}]
      /\ Cleaned(i) \in [Operation -> Entry]
  BY CleanedSound DEF IInv, TypeOK, Cleaned
<1>2. CASE Poll(i)
  <2>1. /\ entry' = Cleaned(i) /\ job' = job /\ active' = active
        /\ remote' = remote
    BY <1>2 DEF Poll
  <2>2. \A o \in Operation : Reports(entry'[o], job[o]) /\ AddsUp(entry'[o])
    BY <2>1, CleanedSound
  <2>3. QED
    BY <1>1, <2>1, <2>2 DEF IInv, TypeOK, Marked
<1>3. ASSUME NEW o \in Operation, NEW sources \in Lists(MaxSources + 1),
             NEW target \in Folder, Start(i, o, sources, target)
      PROVE  IInv'
  <2> DEFINE e == [NoEntry EXCEPT !.at = i, !.status = "queued",
                                  !.total = Len(sources)]
             j == [NoJob EXCEPT !.pc = "queued", !.at = i,
                                !.sources = sources, !.target = target]
  <2>1. /\ entry' = [Cleaned(i) EXCEPT ![o] = e] /\ job' = [job EXCEPT ![o] = j]
        /\ active' = [active EXCEPT ![i] = o] /\ remote' = remote
        /\ active[i] = NoOperation /\ job[o] = NoJob
        /\ Len(sources) \in 1 .. MaxSources
    BY <1>3 DEF Start, RouteFree, Acceptable
  <2>2. sources \in Lists(MaxSources)
    BY <2>1, ListIsSeq, SourcesAssumption
  <2>3. /\ e \in Entry /\ e.status = "queued" /\ e.at = i /\ e.moved = {}
        /\ e.failed = {} /\ e.total = Len(sources)
    <3>1. Len(sources) \in 0 .. MaxSources
      BY <2>1, SourcesAssumption
    <3>2. NoEntry \in Entry /\ NoEntry.moved = {} /\ NoEntry.failed = {}
      BY NoEntryType DEF NoEntry
    <3>3. QED
      BY <3>1, <3>2 DEF Entry
  <2>4. /\ j \in Job /\ j.pc = "queued" /\ j.at = i /\ j.sources = sources
        /\ j.target = target /\ j.moved = {} /\ j.failed = {} /\ ~j.err
        /\ j.ready = <<>> /\ j.next = 1
    BY <2>2, NoJobType DEF Job, NoJob
  <2> HIDE DEF e, j
  <2>5. Counted(j)
    <3>1. Len(j.ready) = 0 /\ Len(sources) \in Nat /\ j.next - 1 = 0
      BY <2>1, <2>4
    <3>2. QED
      BY <2>4, <3>1, FS_EmptySet DEF Counted
  <2>6. Staged(j) /\ Reports(e, j) /\ AddsUp(e)
    BY <2>3, <2>4 DEF Staged, Reports, AddsUp
  <2>7. \A p \in Operation :
          /\ job'[p] = IF p = o THEN j ELSE job[p]
          /\ entry'[p] = IF p = o THEN e ELSE Cleaned(i)[p]
    BY <1>1, <2>1
  <2>8. TypeOK'
    BY <1>1, <2>1, <2>3, <2>4 DEF TypeOK
  <2>9. \A p \in Operation : Counted(job'[p]) /\ Staged(job'[p])
                             /\ Reports(entry'[p], job'[p]) /\ AddsUp(entry'[p])
    BY <2>5, <2>6, <2>7, CleanedSound DEF IInv
  <2>10. \A p \in Operation, k \in Instance : Marked(k, p)'
    <3> SUFFICES ASSUME NEW p \in Operation, NEW k \in Instance
                 PROVE  Marked(k, p)'
      OBVIOUS
    <3>1. active'[k] = IF k = i THEN o ELSE active[k]
      BY <1>1, <2>1
    <3>2. Marked(k, p) /\ NoOperation # p
      BY OperationAssumption DEF IInv
    <3>3. CASE p = o
      BY <2>1, <2>4, <2>7, <3>1, <3>2, <3>3 DEF Marked, NoJob
    <3>4. CASE p # o
      BY <2>1, <2>7, <3>1, <3>2, <3>4 DEF Marked
    <3>5. QED
      BY <3>3, <3>4
  <2>11. QED
    BY <2>8, <2>9, <2>10 DEF IInv
<1>4. QED
  BY <1>2, <1>3 DEF Request

(* A process takes its operations and its marks with it. *)
LEMMA DiesInv ==
  ASSUME IInv, NEW i \in Instance, InstanceDies(i)
  PROVE  IInv'
<1>1. /\ remote \in [Path -> File \cup {NoFile}]
      /\ job \in [Operation -> Job] /\ entry \in [Operation -> Entry]
      /\ active \in [Instance -> Operation \cup {NoOperation}]
  BY DEF IInv, TypeOK
<1>2. remote' \in [Path -> File \cup {NoFile}]
  BY <1>1, RemoteType DEF InstanceDies
<1>3. /\ active' = [active EXCEPT ![i] = NoOperation]
      /\ \A o \in Operation :
           /\ job'[o] = IF job[o].at = i THEN NoJob ELSE job[o]
           /\ entry'[o] = IF entry[o].at = i THEN NoEntry ELSE entry[o]
      /\ job' \in [Operation -> Job] /\ entry' \in [Operation -> Entry]
  BY <1>1, NoJobType, NoEntryType DEF InstanceDies
<1>4. TypeOK'
  BY <1>1, <1>2, <1>3 DEF TypeOK
<1>5. \A o \in Operation : Counted(job'[o]) /\ Staged(job'[o])
                           /\ Reports(entry'[o], job'[o]) /\ AddsUp(entry'[o])
  <2> SUFFICES ASSUME NEW o \in Operation
               PROVE  /\ Counted(job'[o]) /\ Staged(job'[o])
                      /\ Reports(entry'[o], job'[o]) /\ AddsUp(entry'[o])
    OBVIOUS
  <2>1. /\ Counted(job[o]) /\ Staged(job[o])
        /\ Reports(entry[o], job[o]) /\ AddsUp(entry[o])
    BY DEF IInv
  <2>2. Reports(entry'[o], job'[o])
    BY <1>3, <2>1 DEF Reports, NoJob, NoEntry
  <2>3. QED
    BY <1>3, <2>1, <2>2, NoJobType, NoEntryType
<1>6. \A o \in Operation, k \in Instance : Marked(k, o)'
  <2> SUFFICES ASSUME NEW o \in Operation, NEW k \in Instance
               PROVE  Marked(k, o)'
    OBVIOUS
  <2>1. Marked(k, o) /\ NoOperation # o
    BY OperationAssumption DEF IInv
  <2>2. active'[k] = IF k = i THEN NoOperation ELSE active[k]
    BY <1>1, <1>3
  <2>3. QED
    BY <1>3, <2>1, <2>2 DEF Marked, NoJob
<1>7. QED
  BY <1>4, <1>5, <1>6 DEF IInv

LEMMA RetentionInv ==
  ASSUME IInv, NEW o \in Operation, RetentionEnds(o)
  PROVE  IInv'
<1> DEFINE e == [entry[o] EXCEPT !.stale = TRUE]
<1>1. entry \in [Operation -> Entry] /\ entry[o] \in Entry
  BY DEF IInv, TypeOK
<1>2. /\ e \in Entry /\ e.at = entry[o].at /\ e.status = entry[o].status
      /\ e.total = entry[o].total /\ e.moved = entry[o].moved
      /\ e.failed = entry[o].failed
  BY <1>1 DEF Entry
<1>3. /\ entry' = [entry EXCEPT ![o] = e] /\ job' = job /\ active' = active
      /\ remote' = remote
  BY DEF RetentionEnds
<1> HIDE DEF e
<1>4. \A p \in Operation : entry'[p] = IF p = o THEN e ELSE entry[p]
  BY <1>1, <1>3
<1>5. \A p \in Operation : Reports(entry'[p], job[p]) /\ AddsUp(entry'[p])
  BY <1>2, <1>4 DEF IInv, Reports, AddsUp
<1>6. QED
  BY <1>1, <1>2, <1>3, <1>5 DEF IInv, TypeOK, Marked

LEMMA InvInit == Init => IInv
<1> SUFFICES ASSUME Init PROVE IInv
  OBVIOUS
<1>1. TypeOK
  BY NoJobType, NoEntryType DEF Init, TypeOK, Placement
<1>2. \A o \in Operation : job[o] = NoJob /\ entry[o] = NoEntry
  BY DEF Init
<1>3. \A o \in Operation, i \in Instance : Marked(i, o)
  BY <1>2, OperationAssumption DEF Init, Marked, NoJob
<1>4. Reports(NoEntry, NoJob)
  BY DEF Reports, NoEntry, NoJob
<1>5. QED
  BY <1>1, <1>2, <1>3, <1>4, NoJobType, NoEntryType DEF IInv

LEMMA InvNext == IInv /\ [Next]_vars => IInv'
<1> SUFFICES ASSUME IInv, [Next]_vars PROVE IInv'
  OBVIOUS
<1>1. CASE UNCHANGED vars
  BY <1>1 DEF vars, IInv, TypeOK, Marked
<1>2. ASSUME NEW i \in Instance, Request(i) \/ InstanceDies(i) PROVE IInv'
  BY <1>2, RequestInv, DiesInv
<1>3. ASSUME NEW o \in Operation, JobStep(o) \/ RetentionEnds(o) PROVE IInv'
  BY <1>3, JobStepInv, RetentionInv
<1>4. ASSUME NEW p \in Path, NEW d \in Path, OutsideMove(p, d) PROVE IInv'
  BY <1>4 DEF OutsideMove, IInv, TypeOK, Marked
<1>5. QED
  BY <1>1, <1>2, <1>3, <1>4 DEF Next

LEMMA Inv == Spec => []IInv
BY InvInit, InvNext, PTL DEF Spec

-----------------------------------------------------------------------------
(* The properties.                                                         *)

(* Every variable has its type. *)
THEOREM TypeCorrect == Spec => []TypeOK
<1>1. IInv => TypeOK
  BY DEF IInv
<1>2. QED
  BY <1>1, Inv, PTL

(* start marks the instance as busy, and run takes the mark away on every  *)
(* way out of the batch: it is there exactly as long as the operation has  *)
(* not finished, so that the route is never left blocked and a second      *)
(* operation of this process never gets in.                                *)
THEOREM RouteIsHeld == Spec => []RouteHeld
<1>1. IInv => RouteHeld
  BY DEF IInv, Marked, Reports, RouteHeld, Unfinished
<1>2. QED
  BY <1>1, Inv, PTL

(* What a batch that completed reports adds up to what it was asked for:   *)
(* the two loops of MoveFilesWithProgress put every source in exactly one  *)
(* of the two lists, whatever fails on the way.                            *)
THEOREM ResultsAddUp == Spec => []Accounted
<1>1. IInv => Accounted
  BY DEF IInv, AddsUp, Accounted
<1>2. QED
  BY <1>1, Inv, PTL

-----------------------------------------------------------------------------
(* Progress.                                                               *)

(* What ReportsAdvance allows a step to do to the entry of o. *)
Advances(o) ==
  \/ /\ entry'[o].status # "none"
     /\ entry[o].moved \subseteq entry'[o].moved
     /\ entry[o].failed \subseteq entry'[o].failed
     /\ Finished(o) => entry'[o] = [entry[o] EXCEPT !.stale = entry'[o].stale]
  \/ Finished(o) /\ entry[o].stale
  \/ InstanceDies(entry[o].at)

LEMMA SameAdvances ==
  ASSUME IInv, NEW o \in Operation, entry[o].status # "none",
         entry'[o] = entry[o]
  PROVE  Advances(o)
<1>1. entry[o] \in Entry
  BY DEF IInv, TypeOK
<1>2. entry[o] = [entry[o] EXCEPT !.stale = entry[o].stale]
  BY <1>1 DEF Entry
<1>3. QED
  BY <1>2 DEF Advances

(* A goroutine only ever adds to what it has reported, until it is over. *)
LEMMA JobAdvances ==
  ASSUME IInv, NEW o \in Operation, JobStep(o),
         NEW p \in Operation, entry[p].status # "none"
  PROVE  Advances(p)
<1> DEFINE j == job[o]
<1>1. /\ j \in Job /\ Counted(j) /\ Staged(j) /\ Reports(entry[o], j)
      /\ entry \in [Operation -> Entry] /\ entry[o] \in Entry
  BY DEF IInv, TypeOK
<1>2. j.pc # "none"
  BY DEF JobStep, Run, Prepare, Validate, EndValidate, BeginCommand,
     EndCommand, CommandFails, Verify, EndMoves, Finish
<1>3. entry[o].status \in {"queued", "running"} /\ ~Finished(o)
      /\ entry[o].moved = j.moved /\ entry[o].failed = j.failed
  BY <1>1, <1>2 DEF Reports, Finished
<1>4. ASSUME entry' = entry PROVE Advances(p)
  BY <1>4, SameAdvances
<1>5. ASSUME NEW e, entry' = [entry EXCEPT ![o] = e], e.status # "none",
             j.moved \subseteq e.moved, j.failed \subseteq e.failed
      PROVE  Advances(p)
  <2>1. CASE p = o
    BY <1>1, <1>3, <1>5, <2>1 DEF Advances
  <2>2. CASE p # o
    BY <1>1, <1>5, <2>2, SameAdvances
  <2>3. QED
    BY <2>1, <2>2
<1>6. ASSUME NEW next, Reported(o, next),
             j.moved \subseteq next.moved, j.failed \subseteq next.failed
      PROVE  Advances(p)
  <2> DEFINE e == [entry[o] EXCEPT !.moved = next.moved,
                                   !.failed = next.failed]
  <2>1. entry' = [entry EXCEPT ![o] = e]
    BY <1>1, <1>6 DEF Reported
  <2>2. e.status = entry[o].status /\ e.moved = next.moved
        /\ e.failed = next.failed
    BY <1>1 DEF Entry
  <2> HIDE DEF e
  <2>3. QED
    BY <1>3, <1>5, <1>6, <2>1, <2>2
<1>7. CASE Run(o)
  <2> DEFINE e == [entry[o] EXCEPT !.status = "running"]
  <2>1. entry' = [entry EXCEPT ![o] = e]
    BY <1>1, <1>7 DEF Run
  <2>2. e.status = "running" /\ e.moved = entry[o].moved
        /\ e.failed = entry[o].failed
    BY <1>1 DEF Entry
  <2> HIDE DEF e
  <2>3. QED
    BY <1>3, <1>5, <2>1, <2>2
<1>8. ASSUME Reported(o, Stop(o)) PROVE Advances(p)
  <2>1. Stop(o).moved = j.moved /\ Stop(o).failed = j.failed
    BY <1>1 DEF Stop, Job
  <2>2. QED
    BY <1>6, <1>8, <2>1
<1>9. CASE Prepare(o)
  <2> DEFINE next == [j EXCEPT !.pc = "validate"]
  <2>1. next.moved = j.moved /\ next.failed = j.failed
    BY <1>1 DEF Job
  <2>2. Reported(o, next) \/ Reported(o, Stop(o))
    BY <1>9 DEF Prepare
  <2> HIDE DEF next
  <2>3. QED
    BY <1>6, <1>8, <2>1, <2>2
<1>10. CASE Validate(o)
  <2>1. CASE Source(o) \notin Before(o) /\ Reported(o, Validated(o))
    BY <1>1, <1>6, <1>10, <2>1, ValidatedStep DEF Validate
  <2>2. QED
    BY <1>8, <1>10, <2>1 DEF Validate
<1>11. CASE CommandFails(o) \/ Verify(o)
  <2>1. j.pc \in {"command", "verify"}
    BY <1>11 DEF CommandFails, Verify
  <2>2. PICK next \in {Failing(o), Succeeding(o)} : Reported(o, next)
    BY <1>11 DEF CommandFails, Verify
  <2>3. QED
    BY <1>1, <1>6, <2>1, <2>2, MovedStep
<1>12. CASE EndValidate(o) \/ BeginCommand(o) \/ EndCommand(o) \/ EndMoves(o)
  BY <1>4, <1>12 DEF EndValidate, BeginCommand, EndCommand, EndMoves
<1>13. CASE Finish(o)
  <2> DEFINE e == [entry[o] EXCEPT
                     !.status = IF j.err THEN "failed" ELSE "completed",
                     !.moved = j.moved, !.failed = j.failed]
  <2>1. entry' = [entry EXCEPT ![o] = e]
    BY <1>13 DEF Finish
  <2>2. e.status # "none" /\ e.moved = j.moved /\ e.failed = j.failed
    BY <1>1 DEF Entry
  <2> HIDE DEF e
  <2>3. QED
    BY <1>5, <2>1, <2>2
<1>14. QED
  BY <1>7, <1>9, <1>10, <1>11, <1>12, <1>13 DEF JobStep

(* Get reports what updateProgress has last written: a step of the         *)
(* goroutine adds to it, a result is written once, and cleanupLocked drops *)
(* nothing but results whose retention is over.                            *)
THEOREM ReportsGrow == Spec => ReportsAdvance
<1>1. ASSUME IInv, [Next]_vars, NEW o \in Operation, entry[o].status # "none"
      PROVE  Advances(o)
  <2>1. entry[o] \in Entry /\ entry \in [Operation -> Entry]
    BY <1>1 DEF IInv, TypeOK
  <2>2. entry'[o] = entry[o] => Advances(o)
    BY <1>1, SameAdvances
  <2>3. ASSUME NEW i \in Instance, Request(i) PROVE Advances(o)
    <3>1. ASSUME entry'[o] = Cleaned(i)[o] PROVE Advances(o)
      BY <2>2, <3>1 DEF Cleaned, Expired, Advances
    <3>2. CASE Poll(i)
      BY <3>1, <3>2 DEF Poll
    <3>3. ASSUME NEW p \in Operation, NEW sources, NEW target,
                 Start(i, p, sources, target)
          PROVE  Advances(o)
      <4>1. o # p
        BY <1>1, <3>3 DEF Start, NoEntry
      <4>2. entry'[o] = Cleaned(i)[o]
        BY <3>3, <4>1 DEF Start, Cleaned
      <4>3. QED
        BY <3>1, <4>2
    <3>4. QED
      BY <2>3, <3>2, <3>3 DEF Request
  <2>4. ASSUME NEW i \in Instance, InstanceDies(i) PROVE Advances(o)
    <3>1. CASE entry[o].at = i
      BY <2>4, <3>1 DEF Advances
    <3>2. CASE entry[o].at # i
      BY <2>2, <2>4, <3>2 DEF InstanceDies
    <3>3. QED
      BY <3>1, <3>2
  <2>5. ASSUME NEW p \in Operation, JobStep(p) PROVE Advances(o)
    BY <1>1, <2>5, JobAdvances
  <2>6. ASSUME NEW p \in Operation, RetentionEnds(p) PROVE Advances(o)
    <3>1. entry' = [entry EXCEPT ![p] = [entry[p] EXCEPT !.stale = TRUE]]
      BY <2>6 DEF RetentionEnds
    <3>2. CASE p = o
      <4>1. entry'[o] = [entry[o] EXCEPT !.stale = TRUE]
        BY <2>1, <3>1, <3>2
      <4>2. /\ entry'[o].status = entry[o].status /\ entry'[o].stale = TRUE
            /\ entry'[o].moved = entry[o].moved
            /\ entry'[o].failed = entry[o].failed
        BY <2>1, <4>1 DEF Entry
      <4>3. QED
        BY <1>1, <4>1, <4>2 DEF Advances
    <3>3. CASE p # o
      BY <2>1, <2>2, <3>1, <3>3
    <3>4. QED
      BY <3>2, <3>3
  <2>7. ASSUME NEW p \in Path, NEW d \in Path, OutsideMove(p, d)
        PROVE  Advances(o)
    BY <2>2, <2>7 DEF OutsideMove
  <2>8. CASE UNCHANGED vars
    BY <2>2, <2>8 DEF vars
  <2>9. QED
    BY <1>1, <2>3, <2>4, <2>5, <2>6, <2>7, <2>8 DEF Next
<1>2. IInv /\ [Next]_vars
        => [\A o \in Operation : entry[o].status # "none" =>
             \/ /\ entry'[o].status # "none"
                /\ entry[o].moved \subseteq entry'[o].moved
                /\ entry[o].failed \subseteq entry'[o].failed
                /\ Finished(o) =>
                     entry'[o] = [entry[o] EXCEPT !.stale = entry'[o].stale]
             \/ Finished(o) /\ entry[o].stale
             \/ InstanceDies(entry[o].at)]_vars
  BY <1>1 DEF Advances
<1>3. QED
  BY <1>2, Inv, PTL DEF Spec, ReportsAdvance

-----------------------------------------------------------------------------
(* Files.                                                                  *)

(* Operations of two processes do not exclude each other. *)
OneProcess == \A i, k \in Instance : i = k

(* Where rclone has found nothing there is nothing: nobody else is at it.  *)
FreeIsFree ==
  \A o \in Operation :
    job[o].pc = "command" /\ job[o].free => remote[Dest(o)] = NoFile

FileInv == NoFileLost /\ FreeIsFree

LEMMA OneAtATime ==
  ASSUME OneProcess, IInv, NEW o \in Operation, NEW p \in Operation,
         job[o].pc # "none", job[p].pc # "none"
  PROVE  o = p
<1>1. job[o].at \in Instance /\ job[p].at \in Instance
  BY DEF IInv, Staged
<1>2. job[o].at = job[p].at
  BY <1>1 DEF OneProcess
<1>3. active[job[o].at] = o /\ active[job[o].at] = p
  BY <1>1, <1>2 DEF IInv, Marked
<1>4. QED
  BY <1>3

(* A command that is done, or cut off half way, leaves every file where it *)
(* was or where it goes to.                                                *)
LEMMA CommandKeeps ==
  ASSUME IInv, FileInv, NEW o \in Operation, job[o].pc = "command",
         remote' \in {remote, HalfMoved(o), AfterMove(o)}
  PROVE  NoFileLost'
<1> DEFINE p == Head(job[o].ready)
           d == Dest(o)
<1>1. remote \in [Path -> File \cup {NoFile}] /\ p \in Path
  BY RemoteType
<1>2. job[o].target \in Folder /\ d \in Path
  BY <1>1 DEF IInv, Staged, Dest, Into, Path
<1>3. CASE ~Moves(o)
  BY <1>3 DEF HalfMoved, AfterMove, FileInv, NoFileLost
<1>4. CASE Moves(o)
  <2>1. remote[d] = NoFile /\ remote[p] # NoFile
    BY <1>4 DEF Moves, FileInv, FreeIsFree
  <2> HIDE DEF p, d
  <2>2. remote' \in {remote, [remote EXCEPT ![d] = remote[p]],
                     [remote EXCEPT ![d] = remote[p], ![p] = NoFile]}
    BY <1>4 DEF HalfMoved, AfterMove, p, d
  <2>3. ASSUME NEW f \in File PROVE \E q \in Path : remote'[q] = f
    <3>1. PICK q \in Path : remote[q] = f
      BY DEF FileInv, NoFileLost
    <3>2. q # d
      BY <2>1, <3>1, FileAssumption
    <3>3. CASE q # p
      BY <1>1, <1>2, <2>2, <3>1, <3>2, <3>3
    <3>4. CASE q = p
      BY <1>1, <1>2, <2>1, <2>2, <3>1, <3>2, <3>4
    <3>5. QED
      BY <3>3, <3>4
  <2>4. QED
    BY <2>3 DEF NoFileLost
<1>5. QED
  BY <1>3, <1>4

LEMMA FileInit == Init => FileInv
<1> SUFFICES ASSUME Init PROVE FileInv
  OBVIOUS
<1>1. ASSUME NEW f \in File PROVE \E p \in Path : remote[p] = f
  <2>1. Cardinality({p \in Path : remote[p] = f}) = 1
    BY DEF Init, Placement
  <2>2. {p \in Path : remote[p] = f} # {}
    BY <2>1, FS_EmptySet
  <2>3. QED
    BY <2>2
<1>2. \A o \in Operation : job[o].pc # "command"
  BY DEF Init, NoJob
<1>3. QED
  BY <1>1, <1>2 DEF FileInv, NoFileLost, FreeIsFree

LEMMA FileNext ==
  ASSUME OneProcess, IInv, FileInv, [Next]_vars
  PROVE  FileInv'
<1>1. job \in [Operation -> Job]
  BY DEF IInv, TypeOK
(* A step of the goroutine of o: there is no other one. *)
<1>2. ASSUME NEW o \in Operation, JobStep(o) PROVE FileInv'
  <2>1. job[o].pc # "none"
    BY <1>2 DEF JobStep, Run, Prepare, Validate, EndValidate, BeginCommand,
       EndCommand, CommandFails, Verify, EndMoves, Finish
  <2>2. \A p \in Operation \ {o} : job'[p] = job[p] /\ job[p].pc = "none"
    <3>1. \A p \in Operation \ {o} : job[p].pc = "none"
      BY <2>1, OneAtATime
    <3>2. \A p \in Operation \ {o} : job'[p] = job[p]
      BY <1>1, <1>2 DEF JobStep, Run, Prepare, Validate, EndValidate,
         BeginCommand, EndCommand, CommandFails, Verify, EndMoves, Finish,
         Reported
    <3>3. QED
      BY <3>1, <3>2
  <2>3. CASE BeginCommand(o)
    <3> DEFINE next == [job[o] EXCEPT !.pc = "command", !.free = FreeDest(o)]
    <3>1. job' = [job EXCEPT ![o] = next] /\ remote' = remote
      BY <2>3 DEF BeginCommand
    <3>2. next.free = FreeDest(o) /\ next.ready = job[o].ready
          /\ next.target = job[o].target
      BY <1>1 DEF Job
    <3>3. job'[o] = next
      BY <1>1, <3>1
    <3> HIDE DEF next
    <3>4. Dest(o)' = Dest(o)
      BY <3>2, <3>3 DEF Dest
    <3>5. FreeIsFree'
      BY <2>2, <3>1, <3>2, <3>3, <3>4 DEF FreeIsFree, FreeDest
    <3>6. QED
      BY <3>1, <3>5 DEF FileInv, NoFileLost
  <2>4. CASE EndCommand(o) \/ CommandFails(o)
    <3>1. NoFileLost'
      BY <2>4, CommandKeeps DEF EndCommand, CommandFails
    <3>2. CASE EndCommand(o)
      BY <1>1, <2>2, <3>1, <3>2 DEF EndCommand, Job, FileInv, FreeIsFree
    <3>3. CASE CommandFails(o)
      <4>1. job'[o] = Failing(o) /\ Failing(o).pc = "move"
        BY <1>1, <3>3 DEF CommandFails, Reported, Failing, Job
      <4>2. QED
        BY <2>2, <3>1, <4>1 DEF FileInv, FreeIsFree
    <3>4. QED
      BY <2>4, <3>2, <3>3
  <2>5. CASE ~(BeginCommand(o) \/ EndCommand(o) \/ CommandFails(o))
    <3>1. remote' = remote
      BY <1>2, <2>5 DEF JobStep, Run, Prepare, Validate, EndValidate, Verify,
         EndMoves, Finish
    <3>2. job'[o].pc # "command"
      <4>1. job[o] \in Job
        BY <1>1
      <4>2. CASE Run(o) \/ EndValidate(o) \/ EndMoves(o)
        BY <1>1, <4>1, <4>2 DEF Run, EndValidate, EndMoves, Job
      <4>3. CASE Prepare(o)
        <5>1. \/ job'[o] = [job[o] EXCEPT !.pc = "validate"]
              \/ job'[o] = Stop(o)
          BY <1>1, <4>3 DEF Prepare, Reported
        <5>2. /\ [job[o] EXCEPT !.pc = "validate"].pc = "validate"
              /\ Stop(o).pc = "finish"
          BY <4>1 DEF Stop, Job
        <5>3. QED
          BY <5>1, <5>2
      <4>4. CASE Validate(o)
        <5>1. job[o].pc = "validate" /\ job'[o] \in {Validated(o), Stop(o)}
          BY <1>1, <4>4 DEF Validate, Reported
        <5>2. Validated(o).pc = job[o].pc /\ Stop(o).pc = "finish"
          BY <4>1 DEF Validated, Stop, Job
        <5>3. QED
          BY <5>1, <5>2
      <4>5. CASE Verify(o)
        <5>1. job'[o] \in {Succeeding(o), Failing(o)}
          BY <1>1, <4>5 DEF Verify, Reported
        <5>2. Succeeding(o).pc = "move" /\ Failing(o).pc = "move"
          BY <4>1 DEF Succeeding, Failing, Job
        <5>3. QED
          BY <5>1, <5>2
      <4>6. CASE Finish(o)
        BY <1>1, <4>6 DEF Finish, NoJob
      <4>7. QED
        BY <1>2, <2>5, <4>2, <4>3, <4>4, <4>5, <4>6 DEF JobStep
    <3>3. QED
      BY <2>2, <3>1, <3>2 DEF FileInv, NoFileLost, FreeIsFree
  <2>6. QED
    BY <2>3, <2>4, <2>5
<1>3. ASSUME NEW i \in Instance, Request(i) PROVE FileInv'
  <2>1. remote' = remote
    BY <1>3 DEF Request, Start, Poll
  <2>2. \A o \in Operation : job'[o] = job[o] \/ job'[o].pc = "queued"
    <3>1. CASE Poll(i)
      BY <3>1 DEF Poll
    <3>2. ASSUME NEW p \in Operation, NEW sources, NEW target,
                 Start(i, p, sources, target)
          PROVE  \A o \in Operation : job'[o] = job[o] \/ job'[o].pc = "queued"
      <4> DEFINE j == [NoJob EXCEPT !.pc = "queued", !.at = i,
                                    !.sources = sources, !.target = target]
      <4>1. job' = [job EXCEPT ![p] = j]
        BY <3>2 DEF Start
      <4>2. j.pc = "queued"
        BY NoJobType DEF Job
      <4> HIDE DEF j
      <4>3. QED
        BY <1>1, <4>1, <4>2
    <3>3. QED
      BY <1>3, <3>1, <3>2 DEF Request
  <2>3. QED
    BY <2>1, <2>2 DEF FileInv, NoFileLost, FreeIsFree, Dest
<1>4. ASSUME NEW i \in Instance, InstanceDies(i) PROVE FileInv'
  <2>1. NoFileLost'
    BY <1>4, CommandKeeps DEF InstanceDies, FileInv, NoFileLost
  <2>2. \A o \in Operation : job'[o].pc # "command"
    <3>1. \A o \in Operation : job[o].pc # "none" => job[o].at = i
      BY DEF IInv, Staged, OneProcess
    <3>2. QED
      BY <1>4, <3>1 DEF InstanceDies, NoJob
  <2>3. QED
    BY <2>1, <2>2 DEF FileInv, FreeIsFree
<1>5. ASSUME NEW o \in Operation, RetentionEnds(o) PROVE FileInv'
  BY <1>5 DEF RetentionEnds, FileInv, NoFileLost, FreeIsFree, Dest
<1>6. ASSUME NEW p \in Path, NEW d \in Path, OutsideMove(p, d) PROVE FileInv'
  <2>1. /\ remote \in [Path -> File \cup {NoFile}] /\ remote[d] = NoFile
        /\ remote' = [remote EXCEPT ![d] = remote[p], ![p] = NoFile]
        /\ job' = job /\ \A o \in Operation : job[o].pc # "command"
        /\ remote[p] # NoFile
    BY <1>6 DEF OutsideMove, IInv, TypeOK
  <2>2. ASSUME NEW f \in File PROVE \E q \in Path : remote'[q] = f
    <3>1. PICK q \in Path : remote[q] = f
      BY DEF FileInv, NoFileLost
    <3>2. q # d
      BY <2>1, <3>1, FileAssumption
    <3>3. CASE q # p
      BY <2>1, <3>1, <3>2, <3>3
    <3>4. CASE q = p
      BY <2>1, <3>1, <3>2, <3>4
    <3>5. QED
      BY <3>3, <3>4
  <2>3. QED
    BY <2>1, <2>2 DEF FileInv, NoFileLost, FreeIsFree
<1>7. CASE UNCHANGED vars
  BY <1>7 DEF vars, FileInv, NoFileLost, FreeIsFree, Dest
<1>8. QED
  BY <1>2, <1>3, <1>4, <1>5, <1>6, <1>7 DEF Next

(* --ignore-existing, the check of the destination and the mark on the     *)
(* route together keep a file from being overwritten by another one, and   *)
(* rclone deletes a source only after its copy is there: whatever is cut   *)
(* off or fails, every file is somewhere.  One process serves.             *)
THEOREM FilesKept ==
  ASSUME OneProcess
  PROVE  Spec => []NoFileLost
<1>1. IInv /\ FileInv /\ [Next]_vars => FileInv'
  BY FileNext
<1>2. FileInv => NoFileLost
  BY DEF FileInv
<1>3. QED
  BY <1>1, <1>2, FileInit, Inv, PTL DEF Spec

=============================================================================
