------------------------- MODULE RemoteRouteProofs -------------------------
(***************************************************************************)
(* Theorems about RemoteRoute for any number of instances, destinations    *)
(* and paths and any size of batch, and their proofs.                      *)
(***************************************************************************)
EXTENDS RemoteRoute, FiniteSetTheorems, TLAPS

-----------------------------------------------------------------------------
(* Types.                                                                  *)

LEMMA IdleScanType ==
  /\ IdleScan \in Scan
  /\ IdleScan.pc = "idle" /\ IdleScan.batch = {} /\ IdleScan.later = {}
BY DestAssumption DEF IdleScan, Scan

LEMMA NoChangeType == NoChange \in Change
BY DestAssumption DEF NoChange, Change

(* What the steps of a scan write to its local state. *)
LEMMA ScanFields ==
  ASSUME NEW sc \in Scan, NEW pc \in {"idle", "walk", "flush", "sweep", "finish"},
         NEW todo \in SUBSET Object, NEW batch \in SUBSET Object,
         NEW counted \in SUBSET Object, NEW later \in SUBSET Scanner,
         NEW result \in {"ready", "error", "canceled"}
  PROVE  /\ [sc EXCEPT !.pc = pc] \in Scan
         /\ [sc EXCEPT !.later = later] \in Scan
         /\ [sc EXCEPT !.todo = todo] \in Scan
         /\ [sc EXCEPT !.batch = batch, !.pc = pc] \in Scan
         /\ [sc EXCEPT !.todo = todo, !.batch = batch, !.counted = counted] \in Scan
         /\ [sc EXCEPT !.pc = pc, !.todo = todo, !.batch = batch,
                       !.result = result] \in Scan
BY DEF Scan

LEMMA StartedType ==
  ASSUME TypeOK, NEW s \in Scanner
  PROVE  /\ StartedScan(s) \in [Scanner -> Scan]
         /\ StartedScan(s)[s].batch = {} /\ StartedScan(s)[s].later = {}
         /\ StartedScan(s)[s].pc = "walk" /\ StartedScan(s)[s].counted = {}
         /\ StartedScan(s)[s].dest = route.dest
         /\ \A t \in Scanner \ {s} :
              /\ StartedScan(s)[t].later = scan[t].later \cup {s}
              /\ \A f \in {"pc", "dest", "todo", "batch", "counted", "result"} :
                   StartedScan(s)[t][f] = scan[t][f]
<1> DEFINE begun == [IdleScan EXCEPT !.pc = "walk", !.dest = route.dest, !.todo = Object]
           Older(t) == [scan[t] EXCEPT !.later = @ \cup {s}]
<1>1. /\ begun \in Scan /\ begun.batch = {} /\ begun.later = {}
      /\ begun.pc = "walk" /\ begun.counted = {} /\ begun.dest = route.dest
  BY DEF TypeOK, Route, IdleScan, Scan
<1>2. ASSUME NEW t \in Scanner
      PROVE  /\ Older(t) \in Scan
             /\ Older(t).later = scan[t].later \cup {s}
             /\ Older(t).pc = scan[t].pc /\ Older(t).dest = scan[t].dest
             /\ Older(t).todo = scan[t].todo /\ Older(t).batch = scan[t].batch
             /\ Older(t).counted = scan[t].counted
             /\ Older(t).result = scan[t].result
  BY DEF TypeOK, Scan
<1>3. StartedScan(s) = [t \in Scanner |-> IF t = s THEN begun ELSE Older(t)]
  BY DEF StartedScan
<1> HIDE DEF begun, Older
<1>4. StartedScan(s) \in [Scanner -> Scan]
  BY <1>1, <1>2, <1>3
<1>5. StartedScan(s)[s] = begun
  BY <1>3
<1>6. ASSUME NEW t \in Scanner \ {s}
      PROVE  StartedScan(s)[t] = Older(t)
  BY <1>3
<1>7. QED
  BY <1>1, <1>2, <1>4, <1>5, <1>6

(* The local states the steps of a scan leave. *)
LEMMA ScanType ==
  ASSUME TypeOK, NEW s \in Scanner,
         ScanStep(s) \/ AbortScan(s) \/ ScanDies(s)
  PROVE  scan' \in [Scanner -> Scan]
<1> USE DEF TypeOK
<1> DEFINE sc == scan[s]
<1>0. sc \in Scan
  OBVIOUS
<1>x. sc.todo \in SUBSET Object /\ sc.batch \in SUBSET Object /\ sc.counted \in SUBSET Object
  BY <1>0 DEF Scan
<1> HIDE DEF sc
<1>1. CASE ClaimForScan(s)
  BY <1>1, StartedType DEF ClaimForScan
<1>2. ASSUME NEW p \in Object, Visit(s, p) PROVE scan' \in [Scanner -> Scan]
  <2>1. /\ [sc EXCEPT !.todo = sc.todo \ {p}, !.batch = sc.batch \cup {p},
                      !.counted = sc.counted \cup {p}] \in Scan
        /\ [sc EXCEPT !.todo = sc.todo \ {p}] \in Scan
    <3>1. /\ sc.todo \ {p} \in SUBSET Object /\ sc.batch \cup {p} \in SUBSET Object
          /\ sc.counted \cup {p} \in SUBSET Object
      BY <1>x
    <3>2. QED
      BY <1>0, <3>1 DEF Scan
  <2>2. \/ scan' = [scan EXCEPT ![s] = [sc EXCEPT !.todo = sc.todo \ {p},
                      !.batch = sc.batch \cup {p}, !.counted = sc.counted \cup {p}]]
        \/ scan' = [scan EXCEPT ![s] = [sc EXCEPT !.todo = sc.todo \ {p}]]
    BY <1>2 DEF Visit, sc
  <2>3. QED
    BY <2>1, <2>2
<1>3. CASE EndWalk(s)
  <2>1. [sc EXCEPT !.pc = "flush"] \in Scan
    BY <1>0, ScanFields
  <2>2. scan' = [scan EXCEPT ![s] = [sc EXCEPT !.pc = "flush"]]
    BY <1>3 DEF EndWalk, sc
  <2>3. QED
    BY <2>1, <2>2
<1>4. CASE Flush(s)
  <2>1. \A pc \in {"walk", "sweep"} : [sc EXCEPT !.batch = {}, !.pc = pc] \in Scan
    BY <1>0, ScanFields
  <2>2. \E pc \in {"walk", "sweep"} :
          scan' = [scan EXCEPT ![s] = [sc EXCEPT !.batch = {}, !.pc = pc]]
    BY <1>4 DEF Flush, sc, At
  <2>3. QED
    BY <2>1, <2>2
<1>5. CASE Sweep(s)
  <2>1. [sc EXCEPT !.pc = "finish"] \in Scan
    BY <1>0, ScanFields
  <2>2. scan' = [scan EXCEPT ![s] = [sc EXCEPT !.pc = "finish"]]
    BY <1>5 DEF Sweep, sc
  <2>3. QED
    BY <2>1, <2>2
<1>6. CASE FinishScan(s) \/ ScanDies(s)
  BY <1>6, IdleScanType DEF FinishScan, ScanDies
<1>7. CASE AbortScan(s)
  <2>1. PICK result \in {"error", "canceled"} :
          scan' = [scan EXCEPT ![s] = [sc EXCEPT !.pc = "finish", !.todo = {},
                                         !.batch = {}, !.result = result]]
    BY <1>7 DEF AbortScan, sc
  <2>2. [sc EXCEPT !.pc = "finish", !.todo = {}, !.batch = {}, !.result = result] \in Scan
    BY <1>0, ScanFields
  <2>3. QED
    BY <2>1, <2>2
<1>8. QED
  BY <1>1, <1>2, <1>3, <1>4, <1>5, <1>6, <1>7 DEF ScanStep

LEMMA BatchStep ==
  ASSUME TypeOK, NEW s \in Scanner,
         ScanStep(s) \/ AbortScan(s) \/ ScanDies(s)
  PROVE  BatchBounded'
<1>1. SUFFICES ASSUME NEW t \in Scanner
              PROVE  IsFiniteSet(scan'[t].batch) /\ Cardinality(scan'[t].batch) <= BatchSize
  BY DEF BatchBounded
<1>2. IsFiniteSet(scan[t].batch) /\ Cardinality(scan[t].batch) <= BatchSize
  BY DEF TypeOK, BatchBounded
<1>3. IsFiniteSet({}) /\ Cardinality({}) <= BatchSize
  BY FS_EmptySet, BatchAssumption
<1>4. scan \in [Scanner -> Scan]
  BY DEF TypeOK
<1>5. CASE ClaimForScan(s)
  <2>1. scan' = StartedScan(s)
    BY <1>5 DEF ClaimForScan
  <2>2. scan'[t].batch = {} \/ scan'[t].batch = scan[t].batch
    BY <2>1, StartedType
  <2>3. QED
    BY <2>2, <1>2, <1>3
<1>6. ASSUME NEW p \in Object, Visit(s, p)
      PROVE  IsFiniteSet(scan'[t].batch) /\ Cardinality(scan'[t].batch) <= BatchSize
  <2>1. scan'[t].batch = scan[t].batch \/ (t = s /\ scan'[t].batch = scan[t].batch \cup {p})
    BY <1>4, <1>6 DEF Visit, Scan
  <2>2. CASE t = s /\ scan'[t].batch = scan[t].batch \cup {p}
    <3>1. Cardinality(scan[t].batch) < BatchSize
      BY <1>6, <2>2 DEF Visit, HasRoom
    <3>2. /\ IsFiniteSet(scan[t].batch \cup {p})
          /\ \/ Cardinality(scan[t].batch \cup {p}) = Cardinality(scan[t].batch)
             \/ Cardinality(scan[t].batch \cup {p}) = Cardinality(scan[t].batch) + 1
      BY <1>2, FS_AddElement
    <3>3. Cardinality(scan[t].batch) \in Nat
      BY <1>2, FS_CardinalityType
    <3>4. QED
      BY <2>2, <3>1, <3>2, <3>3, BatchAssumption
  <2>3. QED
    BY <1>2, <2>1, <2>2
<1>7. CASE EndWalk(s) \/ Sweep(s)
  <2>1. scan'[t].batch = scan[t].batch
    BY <1>4, <1>7 DEF EndWalk, Sweep, Scan
  <2>2. QED
    BY <2>1, <1>2
<1>8. CASE Flush(s) \/ AbortScan(s)
  <2>1. scan'[t].batch = scan[t].batch \/ scan'[t].batch = {}
    <3>1. CASE Flush(s)
      <4>1. PICK pc \in {"walk", "flush", "sweep"} :
              scan' = [scan EXCEPT ![s] = [scan[s] EXCEPT !.batch = {}, !.pc = pc]]
        BY <3>1 DEF Flush, At
      <4>2. QED
        BY <1>4, <4>1 DEF Scan
    <3>2. CASE AbortScan(s)
      <4>1. PICK result \in {"error", "canceled"} :
              scan' = [scan EXCEPT ![s] = [scan[s] EXCEPT !.pc = "finish",
                         !.todo = {}, !.batch = {}, !.result = result]]
        BY <3>2 DEF AbortScan
      <4>2. QED
        BY <1>4, <4>1 DEF Scan
    <3>3. QED
      BY <1>8, <3>1, <3>2
  <2>2. QED
    BY <2>1, <1>2, <1>3
<1>9. CASE FinishScan(s) \/ ScanDies(s)
  <2>1. scan'[t].batch = scan[t].batch \/ scan'[t].batch = {}
    BY <1>4, <1>9, IdleScanType DEF FinishScan, ScanDies
  <2>2. QED
    BY <2>1, <1>2, <1>3
<1>10. QED
  BY <1>5, <1>6, <1>7, <1>8, <1>9 DEF ScanStep

-----------------------------------------------------------------------------
(* Type correctness.                                                       *)

LEMMA RouteType == ASSUME TypeOK, Next PROVE route' \in Route
<1> USE DEF TypeOK
<1>1. ASSUME NEW s \in Scanner, ScanStep(s) \/ RenewScanLease(s)
      PROVE  route' \in Route
  <2>1. Finished(s) \in Route
    BY DEF Finished, Route, Scan
  <2>2. CASE ClaimForScan(s) \/ RenewScanLease(s)
    BY <2>2 DEF ClaimForScan, RenewScanLease, Route
  <2>3. CASE FinishScan(s)
    BY <2>1, <2>3 DEF FinishScan
  <2>4. QED
    BY <1>1, <2>2, <2>3 DEF ScanStep, Visit, EndWalk, Flush, Sweep
<1>2. Scheduled \in Route
  BY DEF Scheduled, Route
<1>3. CASE Configure
  <2>1. ASSUME NEW dest \in Dest, NEW enabled \in BOOLEAN, UpdateRoute(dest, enabled)
        PROVE  route' \in Route
    <3>1. Updated(dest, enabled) \in Route
      BY DEF Updated, Route
    <3>2. QED
      BY <2>1, <3>1 DEF UpdateRoute
  <2>2. CASE DeleteRoute
    BY <2>2 DEF DeleteRoute, Route
  <2>3. QED
    BY <1>2, <1>3, <2>1, <2>2 DEF Configure, ScheduleScan
<1>4. CASE Clock
  BY <1>4 DEF Clock, LeaseLapses, NextScanDue, Route
<1>5. CASE ChangeStep
  BY <1>2, <1>5 DEF ChangeStep, Check, Apply, Answer
<1>6. QED
  BY <1>1, <1>3, <1>4, <1>5
     DEF Next, AbortScan, ScanDies, Admit, ChangeFails, RemoteChanges

LEMMA IndexType == ASSUME TypeOK, Next PROVE index' \in [Object -> Row]
<1> USE DEF TypeOK
<1>1. ASSUME NEW s \in Scanner, ScanStep(s) PROVE index' \in [Object -> Row]
  <2>1. CASE ClaimForScan(s)
    BY <2>1 DEF ClaimForScan, Row
  <2>2. CASE Flush(s)
    <3>1. \A p \in Object : Upserted(s, p) \in Row
      BY DEF Upserted, Row, Scan
    <3>2. QED
      BY <2>2, <3>1 DEF Flush
  <2>3. CASE Sweep(s)
    BY <2>3 DEF Sweep, NoRow, Row
  <2>4. QED
    BY <1>1, <2>1, <2>2, <2>3 DEF ScanStep, Visit, EndWalk, FinishScan
<1>2. CASE Configure
  <2>1. \A p \in Object : VoidedRow(p) \in Row
    BY DEF VoidedRow, Row
  <2>2. ASSUME NEW dest \in Dest, NEW enabled \in BOOLEAN, UpdateRoute(dest, enabled)
        PROVE  index' \in [Object -> Row]
    BY <2>1, <2>2 DEF UpdateRoute
  <2>3. CASE DeleteRoute
    BY <2>3 DEF DeleteRoute, NoRow, Row
  <2>4. QED
    BY <1>2, <2>2, <2>3 DEF Configure, ScheduleScan
<1>3. QED
  BY <1>1, <1>2
     DEF Next, RenewScanLease, AbortScan, ScanDies, Admit, ChangeStep, Check,
         Apply, Answer, ChangeFails, Clock, LeaseLapses, NextScanDue, RemoteChanges

(* A call that has passed the check names a path. *)
Named == change.pc \in {"admitted", "checked", "applied"} => change.to \in Object

LEMMA RemoteType ==
  ASSUME TypeOK, Named, Next PROVE remote' \in [Dest -> SUBSET Object]
<1> USE DEF TypeOK
<1>1. ASSUME change.pc = "checked"
      PROVE  [remote EXCEPT ![change.dest] = AfterCommand] \in [Dest -> SUBSET Object]
  <2>1. change.to \in Object /\ remote[change.dest] \in SUBSET Object
    BY <1>1 DEF Named, Change
  <2>2. AfterCommand \in SUBSET Object
    BY <2>1 DEF AfterCommand
  <2>3. QED
    BY <2>2
<1>2. CASE Apply \/ ChangeFails
  BY <1>1, <1>2 DEF Apply, ChangeFails
<1>3. ASSUME NEW d \in Dest, NEW p \in Object, RemoteChanges(d, p)
      PROVE  remote' \in [Dest -> SUBSET Object]
  <2>1. remote[d] \cup {p} \in SUBSET Object /\ remote[d] \ {p} \in SUBSET Object
    OBVIOUS
  <2>2. QED
    BY <1>3, <2>1 DEF RemoteChanges
<1>4. CASE UNCHANGED remote
  BY <1>4
<1>5. QED
  BY <1>2, <1>3, <1>4
     DEF Next, ScanStep, ClaimForScan, Visit, EndWalk, Flush, Sweep, FinishScan,
     RenewScanLease, AbortScan, ScanDies, Configure, UpdateRoute, DeleteRoute,
     ScheduleScan, Admit, ChangeStep, Check, Answer, Clock,
     LeaseLapses, NextScanDue

LEMMA ChangeType ==
  ASSUME TypeOK, Named, Next PROVE change' \in Change /\ Named'
<1> USE DEF TypeOK
<1>1. ASSUME NEW from \in Object \cup {NoObject}, NEW to \in Asked, Admit(from, to)
      PROVE  change' \in Change /\ Named'
  BY <1>1, AskedAssumption DEF Admit, Change, Route, Named
<1>2. NoChange \in Change /\ NoChange.pc = "idle"
  BY NoChangeType DEF NoChange
<1>3. CASE ChangeStep
  BY <1>2, <1>3 DEF ChangeStep, Check, Apply, Answer, Refreshed, CanSchedule,
                    LeaseFree, Change, Route, Named
<1>4. CASE ChangeFails
  BY <1>2, <1>4 DEF ChangeFails, Named
<1>5. CASE UNCHANGED change
  BY <1>5 DEF Named
<1>6. QED
  BY <1>1, <1>3, <1>4, <1>5
     DEF Next, ScanStep, ClaimForScan, Visit, EndWalk, Flush, Sweep, FinishScan,
     RenewScanLease, AbortScan, ScanDies, Configure, UpdateRoute, DeleteRoute,
     ScheduleScan, Clock, LeaseLapses, NextScanDue, RemoteChanges

LEMMA TypeInit == Init => TypeOK /\ Named
<1> SUFFICES ASSUME Init PROVE TypeOK /\ Named
  OBVIOUS
<1>1. route \in Route
  BY DestAssumption DEF Init, NewRoute, Route
<1>2. index \in [Object -> Row]
  BY DEF Init, NoRow, Row
<1>3. scan \in [Scanner -> Scan] /\ BatchBounded
  <2>1. scan \in [Scanner -> Scan] /\ \A s \in Scanner : scan[s].batch = {}
    BY IdleScanType DEF Init
  <2>2. QED
    BY <2>1, FS_EmptySet, BatchAssumption DEF BatchBounded
<1>4. QED
  BY <1>1, <1>2, <1>3, NoChangeType DEF Init, TypeOK, Named, NoChange

LEMMA TypeStep ==
  ASSUME TypeOK, Named, [Next]_vars PROVE TypeOK' /\ Named'
<1>1. CASE UNCHANGED vars
  BY <1>1 DEF vars, TypeOK, BatchBounded, Named
<1>2. CASE Next
  <2>1. scan' \in [Scanner -> Scan] /\ BatchBounded'
    <3>1. CASE UNCHANGED scan
      BY <3>1 DEF TypeOK, BatchBounded
    <3>2. QED
      BY <1>2, <3>1, ScanType, BatchStep
         DEF Next, RenewScanLease, Configure, UpdateRoute, DeleteRoute, ScheduleScan,
             Admit, ChangeStep, Check, Apply, Answer, ChangeFails, Clock,
             LeaseLapses, NextScanDue, RemoteChanges
  <2>2. QED
    BY <1>2, <2>1, RouteType, IndexType, RemoteType, ChangeType DEF TypeOK
<1>3. QED
  BY <1>1, <1>2

(* The state stays well formed, and no batch outgrows its size, with       *)
(* heartbeats in time or not.                                              *)
THEOREM TypeCorrect == Spec => []TypeOK
<1>1. TypeOK /\ Named /\ [Next]_vars => TypeOK' /\ Named'
  BY TypeStep
<1>2. QED
  BY <1>1, TypeInit, PTL DEF Spec

-----------------------------------------------------------------------------
(* Safety, when heartbeats are in time.                                    *)

Seen(s, p) == index[p].stored /\ ~index[p].missing /\ s \notin index[p].older

(* What a scan has found so far is what the index has of it, but for the   *)
(* batch that is still to be written; after the sweep nothing else is      *)
(* left.                                                                   *)
Found(s) ==
  /\ scan[s].batch \subseteq scan[s].counted
  /\ scan[s].todo \cap scan[s].counted = {}
  /\ Indexing(s) => \A p \in Object :
                      Seen(s, p) <=> p \in scan[s].counted \ scan[s].batch
  /\ At(s, "sweep") => scan[s].batch = {}
  /\ At(s, "finish") /\ scan[s].result = "ready" => Visible = scan[s].counted

FoundSoFar ==
  \A s \in Scanner : /\ s \notin scan[s].later
                     /\ scan[s].pc # "idle" => Found(s)

Safe == ScanOwnsRoute /\ FoundSoFar /\ ReadyExact /\ NoOrphans

Inv == TypeOK /\ Named /\ Safe

(* A scan that works on the index is alone. *)
LEMMA OthersIdle ==
  ASSUME ScanOwnsRoute, NEW s \in Scanner, scan[s].pc # "idle"
  PROVE  \A t \in Scanner \ {s} : scan[t].pc = "idle"
BY DEF ScanOwnsRoute

LEMMA AllIdle ==
  ASSUME ScanOwnsRoute, LeaseFree \/ NotScanning \/ ~route.exists
  PROVE  \A s \in Scanner : scan[s].pc = "idle"
BY DEF ScanOwnsRoute, LeaseFree, NotScanning

(* A step of a scan that is under way and stays so. *)
LEMMA ScanGoesOn ==
  ASSUME TypeOK, Safe, NEW s \in Scanner, scan[s].pc # "idle",
         NEW v \in Scan, scan' = [scan EXCEPT ![s] = v], route' = route,
         v.pc # "idle", v.dest = scan[s].dest, v.later = scan[s].later
  PROVE  /\ scan'[s] = v
         /\ ScanOwnsRoute' /\ ReadyExact' /\ NoOrphans'
         /\ Found(s)' => FoundSoFar'
<1>1. scan'[s] = v /\ \A t \in Scanner \ {s} : scan'[t] = scan[t]
  BY DEF TypeOK
<1>2. \A t \in Scanner \ {s} : scan'[t].pc = "idle"
  BY <1>1, OthersIdle DEF Safe
<1>3. ScanOwnsRoute'
  BY <1>1, <1>2 DEF Safe, ScanOwnsRoute
<1>4. route.exists /\ route.status = "scanning"
  BY DEF Safe, ScanOwnsRoute
<1>5. ReadyExact' /\ NoOrphans'
  BY <1>4 DEF ReadyExact, NoOrphans
<1>6. ASSUME Found(s)' PROVE FoundSoFar'
  <2>1. \A t \in Scanner : t \notin scan'[t].later
    BY <1>1 DEF Safe, FoundSoFar
  <2>2. \A t \in Scanner : scan'[t].pc # "idle" => Found(t)'
    BY <1>2, <1>6
  <2>3. QED
    BY <2>1, <2>2 DEF FoundSoFar
<1>7. QED
  BY <1>1, <1>3, <1>5, <1>6

(* A scan is over: the route is what FinishScan leaves or as it was. *)
LEMMA ScanEnds ==
  ASSUME TypeOK, Safe, NEW s \in Scanner, FinishScan(s) \/ ScanDies(s)
  PROVE  Safe'
<1>1. /\ scan[s].pc # "idle" /\ scan' = [scan EXCEPT ![s] = IdleScan]
      /\ index' = index
  BY DEF FinishScan, ScanDies, At
<1>2. scan'[s] = IdleScan /\ \A t \in Scanner \ {s} : scan'[t] = scan[t]
  BY <1>1 DEF TypeOK
<1>3. \A t \in Scanner : scan'[t].pc = "idle" /\ t \notin scan'[t].later
  BY <1>1, <1>2, OthersIdle, IdleScanType DEF Safe, FoundSoFar
<1>4. ScanOwnsRoute' /\ FoundSoFar'
  BY <1>3 DEF ScanOwnsRoute, FoundSoFar
<1>5. /\ route.exists /\ route.status = "scanning" /\ route.owner = s
      /\ Found(s)
  BY <1>1 DEF Safe, ScanOwnsRoute, FoundSoFar
<1>6. NoOrphans' /\ ReadyExact'
  <2>1. CASE FinishScan(s)
    <3>1. route' = Finished(s) /\ At(s, "finish")
      BY <1>5, <2>1 DEF FinishScan
    <3>2. /\ route'.exists = route.exists
          /\ route'.status = "ready" => /\ scan[s].result = "ready"
                                        /\ route'.total = scan[s].counted
      BY <3>1 DEF Finished, TypeOK, Route
    <3>3. Visible' = Visible
      BY <1>1 DEF Visible
    <3>4. QED
      BY <1>5, <3>1, <3>2, <3>3 DEF NoOrphans, ReadyExact, Found
  <2>2. CASE ScanDies(s)
    BY <1>5, <2>2 DEF ScanDies, NoOrphans, ReadyExact
  <2>3. QED
    BY <2>1, <2>2
<1>7. QED
  BY <1>4, <1>6 DEF Safe

LEMMA ClaimKeeps ==
  ASSUME TypeOK, Safe, NEW s \in Scanner, ClaimForScan(s)
  PROVE  Safe'
<1>1. \A t \in Scanner : scan[t].pc = "idle" /\ t \notin scan[t].later
  BY AllIdle DEF Safe, FoundSoFar, ClaimForScan, Claimable
<1>2. /\ scan' = StartedScan(s) /\ route.exists /\ route.enabled
      /\ route' = [route EXCEPT !.status = "scanning", !.owner = s,
                                !.lease = "live"]
      /\ index' = [p \in Object |->
                     [index[p] EXCEPT !.older = index[p].older \cup {s}]]
  BY DEF ClaimForScan, Claimable
<1>3. /\ route'.exists /\ route'.enabled /\ route'.status = "scanning"
      /\ route'.owner = s /\ route'.lease = "live" /\ route'.dest = route.dest
  BY <1>2 DEF TypeOK, Route
<1>4. /\ scan'[s].pc = "walk" /\ scan'[s].batch = {} /\ scan'[s].later = {}
      /\ scan'[s].counted = {} /\ scan'[s].dest = route.dest
      /\ \A t \in Scanner \ {s} : /\ scan'[t].pc = "idle"
                                  /\ scan'[t].later = scan[t].later \cup {s}
  BY <1>1, <1>2, StartedType
<1>5. ScanOwnsRoute'
  BY <1>3, <1>4 DEF ScanOwnsRoute
<1>6. \A p \in Object : ~Seen(s, p)'
  BY <1>2 DEF Seen, TypeOK, Row
<1>7. Found(s)'
  BY <1>4, <1>6 DEF Found, Indexing, At
<1>8. FoundSoFar'
  BY <1>1, <1>4, <1>7 DEF FoundSoFar
<1>9. ReadyExact' /\ NoOrphans'
  BY <1>3 DEF ReadyExact, NoOrphans
<1>10. QED
  BY <1>5, <1>8, <1>9 DEF Safe

(* The rows a scan has written. *)
LEMMA ScanKeeps ==
  ASSUME TypeOK, Safe, NEW s \in Scanner, ScanStep(s) \/ AbortScan(s)
  PROVE  Safe'
<1> DEFINE sc == scan[s]
<1>a. sc \in Scan
  BY DEF TypeOK
<1>b. scan[s].pc # "idle" => Found(s) /\ s \notin sc.later
  BY DEF Safe, FoundSoFar
<1>c. sc.todo \subseteq Object /\ sc.batch \subseteq Object
      /\ sc.counted \subseteq Object /\ sc.later \subseteq Scanner
  BY <1>a DEF Scan
<1>1. ASSUME NEW p \in Object, Visit(s, p) PROVE Safe'
  <2> DEFINE v == IF p \in remote[sc.dest]
                    THEN [sc EXCEPT !.todo = sc.todo \ {p},
                            !.batch = sc.batch \cup {p},
                            !.counted = sc.counted \cup {p}]
                    ELSE [sc EXCEPT !.todo = sc.todo \ {p}]
  <2>1. /\ scan' = [scan EXCEPT ![s] = v] /\ route' = route /\ index' = index
        /\ sc.pc = "walk" /\ p \in sc.todo
    BY <1>1 DEF Visit, At
  <2>2. /\ v \in Scan /\ v.pc = "walk" /\ v.dest = sc.dest
        /\ v.later = sc.later /\ v.todo = sc.todo \ {p}
        /\ \/ v.batch = sc.batch /\ v.counted = sc.counted
           \/ v.batch = sc.batch \cup {p} /\ v.counted = sc.counted \cup {p}
    <3>1. sc.todo \ {p} \in SUBSET Object /\ sc.batch \cup {p} \in SUBSET Object
          /\ sc.counted \cup {p} \in SUBSET Object
      BY <1>c
    <3>2. QED
      BY <1>a, <2>1, <3>1 DEF Scan
  <2> HIDE DEF v
  <2>3. /\ scan'[s] = v /\ ScanOwnsRoute' /\ ReadyExact' /\ NoOrphans'
        /\ Found(s)' => FoundSoFar'
    BY <2>1, <2>2, ScanGoesOn
  <2>4. p \notin sc.counted /\ p \notin sc.batch
    BY <1>b, <2>1 DEF Found
  <2>5. Found(s)'
    <3>1. v.batch \subseteq v.counted /\ v.todo \cap v.counted = {}
      BY <1>b, <2>1, <2>2 DEF Found
    <3>2. v.counted \ v.batch = sc.counted \ sc.batch
      BY <2>2, <2>4
    <3>3. \A q \in Object : Seen(s, q)' <=> Seen(s, q)
      BY <2>1 DEF Seen
    <3>4. \A q \in Object : Seen(s, q) <=> q \in sc.counted \ sc.batch
      BY <1>b, <2>1 DEF Found, Indexing
    <3>5. QED
      BY <2>2, <2>3, <3>1, <3>2, <3>3, <3>4 DEF Found, At
  <2>6. QED
    BY <2>3, <2>5 DEF Safe
<1>2. CASE EndWalk(s)
  <2> DEFINE v == [sc EXCEPT !.pc = "flush"]
  <2>1. /\ scan' = [scan EXCEPT ![s] = v] /\ route' = route /\ index' = index
        /\ sc.pc = "walk"
    BY <1>2 DEF EndWalk, At
  <2>2. /\ v \in Scan /\ v.pc = "flush" /\ v.dest = sc.dest
        /\ v.later = sc.later /\ v.todo = sc.todo
        /\ v.batch = sc.batch /\ v.counted = sc.counted
    BY <1>a DEF Scan
  <2> HIDE DEF v
  <2>3. /\ scan'[s] = v /\ ScanOwnsRoute' /\ ReadyExact' /\ NoOrphans'
        /\ Found(s)' => FoundSoFar'
    BY <2>1, <2>2, ScanGoesOn
  <2>4. \A q \in Object : Seen(s, q)' <=> q \in sc.counted \ sc.batch
    BY <1>b, <2>1 DEF Seen, Found, Indexing
  <2>5. Found(s)'
    BY <1>b, <2>1, <2>2, <2>3, <2>4 DEF Found, At
  <2>6. QED
    BY <2>3, <2>5 DEF Safe
<1>3. CASE Flush(s)
  <2> DEFINE v == [sc EXCEPT !.batch = {},
                     !.pc = IF At(s, "flush") THEN "sweep" ELSE sc.pc]
  <2>1. /\ scan' = [scan EXCEPT ![s] = v] /\ route' = route
        /\ sc.pc \in {"walk", "flush"}
        /\ index' = [p \in Object |-> IF p \in sc.batch THEN Upserted(s, p)
                                                        ELSE index[p]]
    BY <1>3 DEF Flush, At
  <2>2. /\ v \in Scan /\ v.pc \in {"walk", "sweep"} /\ v.dest = sc.dest
        /\ v.later = sc.later /\ v.todo = sc.todo
        /\ v.batch = {} /\ v.counted = sc.counted
    BY <1>a, <2>1 DEF Scan, At
  <2> HIDE DEF v
  <2>3. /\ scan'[s] = v /\ ScanOwnsRoute' /\ ReadyExact' /\ NoOrphans'
        /\ Found(s)' => FoundSoFar'
    BY <2>1, <2>2, ScanGoesOn
  <2>4. ASSUME NEW q \in Object PROVE Seen(s, q)' <=> q \in sc.counted
    <3>1. Found(s) /\ s \notin sc.later
      BY <1>b, <2>1
    <3>2. CASE q \in sc.batch
      <4>1. index'[q] = Upserted(s, q)
        BY <2>1, <3>2
      <4>2. Seen(s, q)' /\ q \in sc.counted
        BY <3>1, <3>2, <4>1 DEF Seen, Upserted, Found
      <4>3. QED
        BY <4>2
    <3>3. CASE q \notin sc.batch
      <4>1. Seen(s, q)' <=> Seen(s, q)
        BY <2>1, <3>3 DEF Seen
      <4>2. Seen(s, q) <=> q \in sc.counted \ sc.batch
        BY <2>1, <3>1 DEF Found, Indexing
      <4>3. QED
        BY <3>3, <4>1, <4>2
    <3>4. QED
      BY <3>2, <3>3
  <2>5. Found(s)'
    BY <1>b, <2>1, <2>2, <2>3, <2>4 DEF Found, At
  <2>6. QED
    BY <2>3, <2>5 DEF Safe
<1>4. CASE Sweep(s)
  <2> DEFINE v == [sc EXCEPT !.pc = "finish"]
  <2>1. /\ scan' = [scan EXCEPT ![s] = v] /\ route' = route /\ sc.pc = "sweep"
        /\ index' = [p \in Object |-> IF Unseen(s, p) THEN NoRow ELSE index[p]]
    BY <1>4 DEF Sweep, At
  <2>2. /\ v \in Scan /\ v.pc = "finish" /\ v.dest = sc.dest
        /\ v.later = sc.later /\ v.todo = sc.todo
        /\ v.batch = sc.batch /\ v.counted = sc.counted
    BY <1>a DEF Scan
  <2> HIDE DEF v
  <2>3. /\ scan'[s] = v /\ ScanOwnsRoute' /\ ReadyExact' /\ NoOrphans'
        /\ Found(s)' => FoundSoFar'
    BY <2>1, <2>2, ScanGoesOn
  <2>4. \A q \in Object : Seen(s, q) <=> q \in sc.counted
    BY <1>b, <2>1 DEF Found, Indexing, At
  <2>5. ASSUME NEW q \in Object
        PROVE  index'[q].stored /\ ~index'[q].missing <=> q \in sc.counted
    BY <2>1, <2>4 DEF Seen, Unseen, NoRow
  <2>6. Visible' = sc.counted
    BY <1>c, <2>5 DEF Visible
  <2>7. Found(s)'
    BY <1>b, <2>1, <2>2, <2>3, <2>6 DEF Found, At, Indexing
  <2>8. QED
    BY <2>3, <2>7 DEF Safe
<1>5. CASE AbortScan(s)
  <2>1. PICK result \in {"error", "canceled"} :
          scan' = [scan EXCEPT ![s] = [sc EXCEPT !.pc = "finish", !.todo = {},
                                         !.batch = {}, !.result = result]]
    BY <1>5 DEF AbortScan
  <2> DEFINE v == [sc EXCEPT !.pc = "finish", !.todo = {},
                             !.batch = {}, !.result = result]
  <2>2. scan' = [scan EXCEPT ![s] = v] /\ route' = route /\ sc.pc # "idle"
    BY <1>5, <2>1 DEF AbortScan, Indexing
  <2>3. /\ v \in Scan /\ v.pc = "finish" /\ v.dest = sc.dest
        /\ v.later = sc.later /\ v.todo = {} /\ v.batch = {}
        /\ v.result # "ready"
    BY <1>a DEF Scan
  <2> HIDE DEF v
  <2>4. /\ scan'[s] = v /\ ScanOwnsRoute' /\ ReadyExact' /\ NoOrphans'
        /\ Found(s)' => FoundSoFar'
    BY <2>2, <2>3, ScanGoesOn
  <2>5. Found(s)'
    BY <2>3, <2>4 DEF Found, At, Indexing
  <2>6. QED
    BY <2>4, <2>5 DEF Safe
<1>6. QED
  BY <1>1, <1>2, <1>3, <1>4, <1>5, ClaimKeeps, ScanEnds DEF ScanStep

(* Only the lease, the due date or the status of the route changes, the    *)
(* latter two as long as nobody scans it.                                  *)
LEMMA RouteKeeps ==
  ASSUME Prompt, TypeOK, Safe, UNCHANGED <<index, scan>>,
         \/ \E s \in Scanner : RenewScanLease(s)
         \/ Clock
         \/ CanSchedule /\ route' = Scheduled
  PROVE  Safe'
<1>1. /\ route'.exists = route.exists /\ route'.total = route.total
      /\ route'.status \in {route.status, "pending"}
      /\ route'.enabled = route.enabled /\ route'.owner = route.owner
      /\ route'.dest = route.dest
  BY DEF RenewScanLease, Clock, LeaseLapses, NextScanDue, Scheduled, TypeOK, Route
<1>2. ReadyExact' /\ NoOrphans'
  <2>1. Visible' = Visible
    BY DEF Visible
  <2>2. QED
    BY <1>1, <2>1 DEF Safe, ReadyExact, NoOrphans
<1>3. ASSUME NEW s \in Scanner, scan[s].pc # "idle"
      PROVE  route'.status = route.status /\ route'.lease = "live"
  <2>1. route.lease = "live" /\ route.owner = s /\ ~LeaseFree
    BY <1>3 DEF Safe, ScanOwnsRoute, LeaseFree
  <2>2. ~LeaseLapses /\ ~CanSchedule
    BY <1>3, <2>1 DEF LeaseLapses, At, CanSchedule
  <2>3. QED
    BY <2>1, <2>2 DEF RenewScanLease, Clock, NextScanDue, TypeOK, Route
<1>4. ScanOwnsRoute'
  BY <1>1, <1>3 DEF Safe, ScanOwnsRoute
<1>5. FoundSoFar'
  BY DEF Safe, FoundSoFar, Found, Indexing, At, Seen, Visible
<1>6. QED
  BY <1>2, <1>4, <1>5 DEF Safe

LEMMA EditKeeps ==
  ASSUME TypeOK, Safe,
         \/ \E dest \in Dest, enabled \in BOOLEAN : UpdateRoute(dest, enabled)
         \/ DeleteRoute
  PROVE  Safe'
<1>1. scan' = scan /\ \A s \in Scanner : scan[s].pc = "idle"
  BY AllIdle DEF Safe, UpdateRoute, DeleteRoute
<1>2. ScanOwnsRoute' /\ FoundSoFar'
  BY <1>1 DEF Safe, ScanOwnsRoute, FoundSoFar
<1>3. ReadyExact' /\ NoOrphans'
  <2>1. ASSUME NEW dest \in Dest, NEW enabled \in BOOLEAN,
               UpdateRoute(dest, enabled)
        PROVE  ReadyExact' /\ NoOrphans'
    <3>1. route' = Updated(dest, enabled) /\ route.exists
      BY <2>1 DEF UpdateRoute, NotScanning
    <3>2. /\ route'.exists /\ route'.total = route.total
          /\ route'.status = "ready" => route.status = "ready" /\ dest = route.dest
      BY <3>1 DEF Updated, TypeOK, Route
    <3>3. dest = route.dest => Visible' = Visible
      BY <2>1 DEF UpdateRoute, Visible
    <3>4. QED
      BY <3>1, <3>2, <3>3 DEF Safe, ReadyExact, NoOrphans
  <2>2. CASE DeleteRoute
    <3>1. ~route'.exists
      BY <2>2 DEF DeleteRoute, TypeOK, Route
    <3>2. QED
      BY <2>2, <3>1 DEF DeleteRoute, NoRow, ReadyExact, NoOrphans
  <2>3. QED
    BY <2>1, <2>2
<1>4. QED
  BY <1>2, <1>3 DEF Safe

LEMMA NothingKeeps ==
  ASSUME Safe, UNCHANGED <<route, index, scan>>
  PROVE  Safe'
BY DEF Safe, ScanOwnsRoute, FoundSoFar, Found, Indexing, At, Seen, Visible,
       ReadyExact, NoOrphans

LEMMA SafeStep ==
  ASSUME Prompt, Inv, [Next]_vars
  PROVE  Inv'
<1> USE DEF Inv
<1>1. CASE UNCHANGED vars
  BY <1>1, NothingKeeps, TypeStep DEF vars
<1>2. CASE Next
  <2>1. Safe'
    <3>1. ASSUME NEW s \in Scanner, ScanStep(s) \/ AbortScan(s) \/ ScanDies(s)
          PROVE  Safe'
      BY <3>1, ScanKeeps, ScanEnds
    <3>2. ASSUME NEW s \in Scanner, RenewScanLease(s) PROVE Safe'
      BY <3>2, RouteKeeps DEF RenewScanLease
    <3>3. CASE Clock
      BY <3>3, RouteKeeps DEF Clock, LeaseLapses, NextScanDue
    <3>4. CASE Configure
      BY <3>4, EditKeeps, RouteKeeps DEF Configure, ScheduleScan
    <3>5. CASE ChangeStep
      BY <3>5, RouteKeeps, NothingKeeps
         DEF ChangeStep, Check, Apply, Answer
    <3>6. QED
      BY <1>2, <3>1, <3>2, <3>3, <3>4, <3>5, NothingKeeps
         DEF Next, Admit, ChangeFails, RemoteChanges
  <2>2. QED
    BY <1>2, <2>1, TypeStep
<1>3. QED
  BY <1>1, <1>2

LEMMA SafeInit == Init => Inv
<1> SUFFICES ASSUME Init PROVE Inv
  OBVIOUS
<1>1. \A s \in Scanner : scan[s] = IdleScan
  BY DEF Init
<1>2. ScanOwnsRoute /\ FoundSoFar
  BY <1>1, IdleScanType DEF ScanOwnsRoute, FoundSoFar
<1>3. ReadyExact /\ NoOrphans
  BY DEF Init, NewRoute, NoRow, ReadyExact, NoOrphans
<1>4. QED
  BY <1>2, <1>3, TypeInit DEF Inv, Safe

LEMMA InvHolds == ASSUME Prompt PROVE Spec => []Inv
<1>1. Inv /\ [Next]_vars => Inv'
  BY SafeStep
<1>2. QED
  BY <1>1, SafeInit, PTL DEF Spec

(* The index of a ready route is what its last complete scan counted       *)
(* (FinishScan, UpsertFileRecords and DeleteUnseenFileRecords of the route *)
(* repository), however edits, scans that fail and others alternate.       *)
THEOREM IndexExact == ASSUME Prompt PROVE Spec => []ReadyExact
<1>1. Inv => ReadyExact
  BY DEF Inv, Safe
<1>2. QED
  BY <1>1, InvHolds, PTL

(* A scan at work has the route to itself: its instance holds the lease,   *)
(* and nobody has edited or deleted the route (ClaimForScan, Update and    *)
(* Delete of the route repository).                                        *)
THEOREM ScannersExclusive == ASSUME Prompt PROVE Spec => []ScanOwnsRoute
<1>1. Inv => ScanOwnsRoute
  BY DEF Inv, Safe
<1>2. QED
  BY <1>1, InvHolds, PTL

(* A deleted route has no rows, not even those of a scan that was at work  *)
(* (Delete of the route repository).                                       *)
THEOREM OrphanFree == ASSUME Prompt PROVE Spec => []NoOrphans
<1>1. Inv => NoOrphans
  BY DEF Inv, Safe
<1>2. QED
  BY <1>1, InvHolds, PTL

LEMMA LossStep ==
  ASSUME Inv, [Next]_vars, NEW p \in Visible, p \notin Visible'
  PROVE  \/ route'.dest # route.dest
         \/ ~route'.exists
         \/ \E s \in Scanner : Sweep(s) /\ p \notin scan[s].counted
<1>1. TypeOK /\ Safe /\ p \in Object /\ index[p].stored /\ ~index[p].missing
  BY DEF Inv, Visible
<1>2. ~(index'[p].stored /\ ~index'[p].missing)
  BY <1>1 DEF Visible
<1>3. ASSUME NEW s \in Scanner, Sweep(s) PROVE p \notin scan[s].counted
  <2>1. s \in index[p].older
    BY <1>1, <1>2, <1>3 DEF Sweep, Unseen
  <2>2. Found(s) /\ At(s, "sweep")
    BY <1>1, <1>3 DEF Sweep, At, Safe, FoundSoFar
  <2>3. QED
    BY <1>1, <2>1, <2>2 DEF Found, Seen, Indexing, At
<1>4. ASSUME NEW s \in Scanner PROVE ~ClaimForScan(s) /\ ~Flush(s)
  <2>1. ~ClaimForScan(s)
    BY <1>1, <1>2 DEF ClaimForScan, TypeOK, Row
  <2>2. ~Flush(s)
    BY <1>1, <1>2 DEF Flush, Upserted
  <2>3. QED
    BY <2>1, <2>2
<1>5. ASSUME NEW dest \in Dest, NEW enabled \in BOOLEAN, UpdateRoute(dest, enabled)
      PROVE  route'.dest # route.dest
  <2>1. dest # route.dest
    BY <1>1, <1>2, <1>5 DEF UpdateRoute
  <2>2. QED
    BY <1>1, <1>5, <2>1 DEF UpdateRoute, Updated, TypeOK, Route
<1>6. DeleteRoute => ~route'.exists
  BY <1>1 DEF DeleteRoute, TypeOK, Route
<1>7. index' # index
  BY <1>1, <1>2
<1>8. Next
  BY <1>7 DEF vars
<1>9. QED
  BY <1>3, <1>4, <1>5, <1>6, <1>7, <1>8
     DEF Next, ScanStep, Visit, EndWalk, FinishScan, RenewScanLease, AbortScan,
         ScanDies, Configure, ScheduleScan, Admit, ChangeStep, Check, Apply,
         Answer, ChangeFails, Clock, LeaseLapses, NextScanDue, RemoteChanges

(* No row is swept that the scan has found (DeleteUnseenFileRecords        *)
(* compares last_seen_at, which UpsertFileRecords has written).            *)
THEOREM LossesMeant == ASSUME Prompt PROVE Spec => RowsLostOnlyBySweep
<1>1. Inv /\ [Next]_vars =>
        [\A p \in Visible : p \notin Visible' =>
           \/ route'.dest # route.dest
           \/ ~route'.exists
           \/ \E s \in Scanner : Sweep(s) /\ p \notin scan[s].counted]_vars
  BY LossStep
<1>2. QED
  BY <1>1, InvHolds, PTL DEF Spec, RowsLostOnlyBySweep

LEMMA AnswerStep ==
  ASSUME Inv, [Next]_vars,
         change.pc = "applied", change'.pc = "answered", change'.refresh
  PROVE  route'.due /\ \A s \in Scanner : At(s, "idle")
<1>1. Answer
  <2>1. change' # change
    OBVIOUS
  <2>2. Next
    BY <2>1 DEF vars
  <2>3. ~ChangeFails /\ ~Check /\ ~Apply
    BY DEF ChangeFails, Check, Apply, NoChange
  <2>4. \A from \in Object \cup {NoObject}, to \in Asked : ~Admit(from, to)
    BY DEF Admit
  <2>5. QED
    BY <2>1, <2>2, <2>3, <2>4
       DEF Next, ScanStep, ClaimForScan, Visit, EndWalk, Flush, Sweep,
           FinishScan, RenewScanLease, AbortScan, ScanDies, Configure,
           UpdateRoute, DeleteRoute, ScheduleScan, ChangeStep, Clock,
           LeaseLapses, NextScanDue, RemoteChanges
<1>2. CanSchedule
  BY <1>1 DEF Answer, Refreshed, Inv, TypeOK, Change
<1>3. route'.due
  BY <1>1, <1>2 DEF Answer, Scheduled, Inv, TypeOK, Route
<1>4. \A s \in Scanner : At(s, "idle")
  BY <1>2, AllIdle DEF CanSchedule, Inv, Safe, At
<1>5. QED
  BY <1>3, <1>4

(* A promised refresh is a scan that begins after the change               *)
(* (scheduleMutationRefresh and ScheduleScan).                             *)
THEOREM RefreshPromised == ASSUME Prompt PROVE Spec => RefreshKept
<1>1. Inv /\ [Next]_vars =>
        [change.pc = "applied" /\ change'.pc = "answered" /\ change'.refresh =>
           route'.due /\ \A s \in Scanner : At(s, "idle")]_vars
  BY AnswerStep
<1>2. QED
  BY <1>1, InvHolds, PTL DEF Spec, RefreshKept

=============================================================================
