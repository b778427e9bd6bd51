---------------------------- MODULE RemoteRoute ----------------------------
(***************************************************************************)
(* One remote route: its row in remote_routes, the index of the remote     *)
(* that the scanners of all instances keep in remote_file_records          *)
(* (internal/scheduler/remote_route_scanner.go), the edits of the route    *)
(* (internal/repository/remote_route_repository.go) and the changes the    *)
(* API makes to the remote itself (internal/service/                       *)
(* remote_route_service.go), which nobody else is kept from changing.      *)
(*                                                                         *)
(* An index row carries a last_seen_at, the start of the scan that wrote   *)
(* it.  Only its order to the start of the running scans matters, so a row *)
(* has the set of scanners whose scan began later, and a scan the set of   *)
(* those that began after it.                                              *)
(***************************************************************************)
EXTENDS Naturals, FiniteSets

CONSTANTS
  Scanner,      (* Instances: each has one scanner, the lease owner.       *)
  NoScanner,
  Dest,         (* Destinations of the route.                              *)
  FirstDest,    (* The destination it is created with.                     *)
  Object,       (* Paths below the root of the route.                      *)
  NoObject,
  Asked,        (* Paths the API is asked to create or to rename to.       *)
  BatchSize,    (* Rows per upsert.                                        *)
  Prompt        (* Are heartbeats in time, so that a lease lapses only     *)
                (* after its scan is over?                                 *)

ASSUME ScannerAssumption == NoScanner \notin Scanner
ASSUME DestAssumption == FirstDest \in Dest
ASSUME ObjectAssumption == NoObject \notin Object
ASSUME AskedAssumption == Asked \subseteq Object
ASSUME BatchAssumption == BatchSize \in Nat \ {0}
ASSUME PromptAssumption == Prompt \in BOOLEAN

VARIABLES
  route,        (* The remote_routes row.                                  *)
  index,        (* index[p]: the remote_file_records row of path p.        *)
  remote,       (* remote[d]: what exists at destination d.                *)
  scan,         (* scan[s]: local state of scanRoute in instance s.        *)
  change        (* One CreateFolder or RenameFolder call.                  *)

vars == <<route, index, remote, scan, change>>

(* total stands for total_file_count: the objects the last complete scan   *)
(* counted.  due is next_scan_at, NULL or not after now.                   *)
Route ==
  [exists : BOOLEAN, dest : Dest, enabled : BOOLEAN, due : BOOLEAN,
   status : {"pending", "scanning", "ready", "error", "disabled"},
   owner : Scanner \cup {NoScanner}, lease : {"none", "live", "lapsed"},
   total : SUBSET Object]

Row == [stored : BOOLEAN, missing : BOOLEAN, older : SUBSET Scanner]

NoRow == [stored |-> FALSE, missing |-> FALSE, older |-> {}]

Scan ==
  [pc : {"idle", "walk", "flush", "sweep", "finish"}, dest : Dest,
   todo : SUBSET Object, batch : SUBSET Object, counted : SUBSET Object,
   later : SUBSET Scanner, result : {"ready", "error", "canceled"}]

IdleScan ==
  [pc |-> "idle", dest |-> FirstDest, todo |-> {}, batch |-> {},
   counted |-> {}, later |-> {}, result |-> "ready"]

(* from is NoObject when a folder is created, to is NoObject when there is *)
(* no call.                                                                *)
Change ==
  [pc : {"idle", "admitted", "checked", "applied", "answered"},
   from : Object \cup {NoObject}, to : Object \cup {NoObject}, dest : Dest,
   refresh : BOOLEAN]

NoChange ==
  [pc |-> "idle", from |-> NoObject, to |-> NoObject, dest |-> FirstDest,
   refresh |-> FALSE]

BatchBounded ==
  \A s \in Scanner : /\ IsFiniteSet(scan[s].batch)
                      /\ Cardinality(scan[s].batch) <= BatchSize

(* Every variable has its type, and no batch outgrows its size. *)
TypeOK ==
  /\ route \in Route
  /\ index \in [Object -> Row]
  /\ remote \in [Dest -> SUBSET Object]
  /\ scan \in [Scanner -> Scan]
  /\ BatchBounded
  /\ change \in Change

(* Create: an enabled route is due at once. *)
NewRoute(enabled) ==
  [exists |-> TRUE, dest |-> FirstDest, enabled |-> enabled, due |-> TRUE,
   status |-> IF enabled THEN "pending" ELSE "disabled",
   owner |-> NoScanner, lease |-> "none", total |-> {}]

Init ==
  /\ \E enabled \in BOOLEAN : route = NewRoute(enabled)
  /\ index = [p \in Object |-> NoRow]
  /\ remote \in [Dest -> SUBSET Object]
  /\ scan = [s \in Scanner |-> IdleScan]
  /\ change = NoChange

(* BrowseFiles *)
Visible == {p \in Object : index[p].stored /\ ~index[p].missing}

-----------------------------------------------------------------------------
(* The scan.                                                               *)

At(s, pc) == scan[s].pc = pc

Indexing(s) == scan[s].pc \in {"walk", "flush", "sweep"}

LeaseFree == route.lease # "live"

Claimable == route.exists /\ route.enabled /\ route.due /\ LeaseFree

(* indexRoute begins: every row is older than this scan. *)
StartedScan(s) ==
  [t \in Scanner |->
     IF t = s THEN [IdleScan EXCEPT !.pc = "walk", !.dest = route.dest,
                                    !.todo = Object]
              ELSE [scan[t] EXCEPT !.later = @ \cup {s}]]

(* ListEnabledForScan and ClaimForScan.  The claim fails unless updated_at *)
(* is still the one that was listed, so that the two are one step.         *)
ClaimForScan(s) ==
  /\ At(s, "idle") /\ Claimable
  /\ route' = [route EXCEPT !.status = "scanning", !.owner = s,
                            !.lease = "live"]
  /\ scan' = StartedScan(s)
  /\ index' = [p \in Object |-> [index[p] EXCEPT !.older = @ \cup {s}]]
  /\ UNCHANGED <<remote, change>>

HasRoom(s) == Cardinality(scan[s].batch) < BatchSize

(* The visit of one path by WalkRemote; queue puts what exists there into  *)
(* the batch, which is written before the next visit once it is full.      *)
Visit(s, p) ==
  /\ At(s, "walk") /\ p \in scan[s].todo /\ HasRoom(s)
  /\ scan' =
       IF p \in remote[scan[s].dest]
         THEN [scan EXCEPT ![s] = [scan[s] EXCEPT
                 !.todo = @ \ {p}, !.batch = @ \cup {p},
                 !.counted = @ \cup {p}]]
         ELSE [scan EXCEPT ![s].todo = @ \ {p}]
  /\ UNCHANGED <<route, index, remote, change>>

(* WalkRemote has returned without an error. *)
EndWalk(s) ==
  /\ At(s, "walk") /\ scan[s].todo = {}
  /\ scan' = [scan EXCEPT ![s].pc = "flush"]
  /\ UNCHANGED <<route, index, remote, change>>

(* Slip: last_seen_at of a row that exists is not among the columns that   *)
(* are updated.                                                            *)
UpsertedUnseen(s, p) ==
  [stored |-> TRUE, missing |-> FALSE,
   older |-> IF index[p].stored THEN index[p].older ELSE scan[s].later]

(* Slip: neither is missing_at. *)
UpsertedKeepsMissing(s, p) ==
  [stored |-> TRUE, missing |-> index[p].missing, older |-> scan[s].later]

Upserted(s, p) ==
  [stored |-> TRUE, missing |-> FALSE, older |-> scan[s].later]

(* UpsertFileRecords, when the batch is full or the walk is over. *)
Flush(s) ==
  /\ \/ At(s, "walk") /\ Cardinality(scan[s].batch) = BatchSize
     \/ At(s, "flush")
  /\ index' = [p \in Object |-> IF p \in scan[s].batch THEN Upserted(s, p)
                                                       ELSE index[p]]
  /\ scan' = [scan EXCEPT ![s] = [scan[s] EXCEPT
                 !.batch = {},
                 !.pc = IF At(s, "flush") THEN "sweep" ELSE @]]
  /\ UNCHANGED <<route, remote, change>>

(* Slip: rows the walk has not renewed stay. *)
MissingOnly(s, p) == index[p].missing

Unseen(s, p) == index[p].missing \/ s \in index[p].older

(* DeleteUnseenFileRecords *)
Sweep(s) ==
  /\ At(s, "sweep")
  /\ index' = [p \in Object |-> IF Unseen(s, p) THEN NoRow ELSE index[p]]
  /\ scan' = [scan EXCEPT ![s].pc = "finish"]
  /\ UNCHANGED <<route, remote, change>>

(* rclone fails, the scan times out, a heartbeat finds the lease lost, the *)
(* process shuts down, or a statement fails.  A shutdown is told from a    *)
(* failure only when the error that surfaces is that of the context, not   *)
(* that of the listing rclone did not finish.                              *)
AbortScan(s) ==
  /\ Indexing(s)
  /\ \E result \in {"error", "canceled"} :
       scan' = [scan EXCEPT ![s] = [scan[s] EXCEPT
                  !.pc = "finish", !.todo = {}, !.batch = {},
                  !.result = result]]
  /\ UNCHANGED <<route, index, remote, change>>

(* RenewScanLease: a lease that has lapsed is renewed, too, unless the     *)
(* route was claimed or scheduled since.                                   *)
RenewScanLease(s) ==
  /\ Indexing(s) /\ route.exists
  /\ route.status = "scanning" /\ route.owner = s
  /\ route' = [route EXCEPT !.lease = "live"]
  /\ UNCHANGED <<index, remote, scan, change>>

Finished(s) ==
  LET result == scan[s].result
  IN  [route EXCEPT
         !.status = IF ~route.enabled THEN "disabled"
                    ELSE IF result = "ready" THEN "ready" ELSE "error",
         !.due    = (result = "canceled"),
         !.owner  = NoScanner, !.lease = "none",
         !.total  = IF result = "ready" THEN scan[s].counted ELSE @]

(* FinishScan, WHERE scan_lease_owner = owner. *)
FinishScan(s) ==
  /\ At(s, "finish")
  /\ route' = IF route.exists /\ route.owner = s THEN Finished(s) ELSE route
  /\ scan' = [scan EXCEPT ![s] = IdleScan]
  /\ UNCHANGED <<index, remote, change>>

(* The process dies, or the database does not answer within the five       *)
(* seconds FinishScan has.                                                 *)
ScanDies(s) ==
  /\ scan[s].pc # "idle"
  /\ scan' = [scan EXCEPT ![s] = IdleScan]
  /\ UNCHANGED <<route, index, remote, change>>

-----------------------------------------------------------------------------
(* The route's configuration.                                              *)

(* Slip: an edit does not look at the scan. *)
NotBusy == route.exists

(* The check under the row lock in Update and Delete. *)
NotScanning ==
  route.exists /\ ~(route.status = "scanning" /\ route.lease # "lapsed")

Updated(dest, enabled) ==
  LET rescan == route.status = "disabled" \/ dest # route.dest
  IN  [route EXCEPT
         !.dest = dest, !.enabled = enabled,
         !.status = IF ~enabled THEN "disabled"
                    ELSE IF rescan THEN "pending" ELSE @,
         !.due    = ~enabled \/ rescan \/ @]

(* missing_at of the rows of the old destination. *)
VoidedRow(p) == [index[p] EXCEPT !.missing = index[p].stored]

(* Update, in service and repository: the write is refused unless          *)
(* updated_at is the one that was read, so that the two are one step.  It  *)
(* is also refused when a linked folder is being scanned.                  *)
UpdateRoute(dest, enabled) ==
  /\ NotScanning
  /\ route' = Updated(dest, enabled)
  /\ index' = IF dest # route.dest THEN [p \in Object |-> VoidedRow(p)]
                                   ELSE index
  /\ UNCHANGED <<remote, scan, change>>

(* Delete: refused as long as folders are linked to the route. *)
DeleteRoute ==
  /\ NotScanning
  /\ route' = [route EXCEPT !.exists = FALSE]
  /\ index' = [p \in Object |-> NoRow]
  /\ UNCHANGED <<remote, scan, change>>

CanSchedule == route.exists /\ route.enabled /\ LeaseFree

Scheduled == [route EXCEPT !.due = TRUE, !.status = "pending"]

(* ScheduleScan and ScheduleAllScans *)
ScheduleScan ==
  /\ CanSchedule
  /\ route' = Scheduled
  /\ UNCHANGED <<index, remote, scan, change>>

-----------------------------------------------------------------------------
(* CreateFolder and RenameFolder.                                          *)

(* writableRoute: looked at once, before the first command. *)
Writable == route.exists /\ route.enabled /\ route.status # "scanning"

Admit(from, to) ==
  /\ change.pc \in {"idle", "answered"} /\ Writable /\ from # to
  /\ change' = [pc |-> "admitted", from |-> from, to |-> to,
                dest |-> route.dest, refresh |-> FALSE]
  /\ UNCHANGED <<route, index, remote, scan>>

(* StatRemote of the source and of the destination. *)
Allowed ==
  /\ change.from # NoObject => change.from \in remote[change.dest]
  /\ change.to \notin remote[change.dest]

Check ==
  /\ change.pc = "admitted"
  /\ change' = IF Allowed THEN [change EXCEPT !.pc = "checked"] ELSE NoChange
  /\ UNCHANGED <<route, index, remote, scan>>

(* mkdir, or moveto --ignore-existing, and what the command leaves when    *)
(* somebody else was faster.                                               *)
AfterCommand ==
  LET here == remote[change.dest]
  IN  IF change.from = NoObject THEN here \cup {change.to}
      ELSE IF Allowed THEN (here \ {change.from}) \cup {change.to}
      ELSE here

(* MakeRemoteDirectory and MoveRemoteObject verify what rclone reports:    *)
(* the source must be gone and the destination there.                      *)
Verified ==
  LET here == AfterCommand
  IN  change.to \in here /\ change.from \notin here

Apply ==
  /\ change.pc = "checked"
  /\ remote' = [remote EXCEPT ![change.dest] = AfterCommand]
  /\ change' = IF Verified THEN [change EXCEPT !.pc = "applied"] ELSE NoChange
  /\ UNCHANGED <<route, index, scan>>

(* The command or its verification fails, when it has done its work or     *)
(* before; or the process dies.  Nobody asks for a refresh then.           *)
ChangeFails ==
  /\ change.pc \in {"admitted", "checked", "applied"}
  /\ \/ UNCHANGED remote
     \/ change.pc = "checked"
          /\ remote' = [remote EXCEPT ![change.dest] = AfterCommand]
  /\ change' = NoChange
  /\ UNCHANGED <<route, index, scan>>

(* Slip: the answer promises a scan that was refused. *)
RefreshAnyway == TRUE

(* scheduleMutationRefresh: a refusal is not an error. *)
Refreshed == CanSchedule

Answer ==
  /\ change.pc = "applied"
  /\ route' = IF CanSchedule THEN Scheduled ELSE route
  /\ change' = [change EXCEPT !.pc = "answered", !.refresh = Refreshed]
  /\ UNCHANGED <<index, remote, scan>>

-----------------------------------------------------------------------------
(* Clock and remote.                                                       *)

LeaseLapses ==
  /\ route.lease = "live"
  /\ Prompt => At(route.owner, "idle")
  /\ route' = [route EXCEPT !.lease = "lapsed"]
  /\ UNCHANGED <<index, remote, scan, change>>

NextScanDue ==
  /\ route.exists /\ ~route.due
  /\ route' = [route EXCEPT !.due = TRUE]
  /\ UNCHANGED <<index, remote, scan, change>>

(* Uploads, and users of the remote itself. *)
RemoteChanges(d, p) ==
  /\ \/ remote' = [remote EXCEPT ![d] = @ \cup {p}]
     \/ remote' = [remote EXCEPT ![d] = @ \ {p}]
  /\ UNCHANGED <<route, index, scan, change>>

-----------------------------------------------------------------------------
ScanStep(s) ==
  \/ ClaimForScan(s)
  \/ \E p \in Object : Visit(s, p)
  \/ EndWalk(s)
  \/ Flush(s)
  \/ Sweep(s)
  \/ FinishScan(s)

Configure ==
  \/ \E dest \in Dest, enabled \in BOOLEAN : UpdateRoute(dest, enabled)
  \/ DeleteRoute
  \/ ScheduleScan

ChangeStep == Check \/ Apply \/ Answer

Clock == LeaseLapses \/ NextScanDue

Next ==
  \/ \E s \in Scanner : ScanStep(s) \/ RenewScanLease(s)
  \/ \E s \in Scanner : AbortScan(s) \/ ScanDies(s)
  \/ Configure
  \/ \E from \in Object \cup {NoObject}, to \in Asked : Admit(from, to)
  \/ ChangeStep
  \/ ChangeFails
  \/ Clock
  \/ \E d \in Dest, p \in Object : RemoteChanges(d, p)

Spec == Init /\ [][Next]_vars

-----------------------------------------------------------------------------
(* Safety.                                                                 *)

(* The scan of a route that says "ready" is what is browsed: the rows the  *)
(* user sees are those the last complete scan counted, neither rows of an  *)
(* earlier destination nor of a scan that failed, and none it swept away   *)
(* by mistake.  (Under Prompt.)                                            *)
ReadyExact == route.exists /\ route.status = "ready" => Visible = route.total

(* Index and route change only in the hands of one: while a scan works on  *)
(* the index, its instance holds the lease, the route is the one it began  *)
(* with, and no other scan is at work.  (Under Prompt.)                    *)
ScanOwnsRoute ==
  \A s \in Scanner : scan[s].pc # "idle" =>
    /\ route.exists /\ route.enabled /\ route.status = "scanning"
    /\ route.owner = s /\ route.lease = "live" /\ route.dest = scan[s].dest

(* A deleted route leaves no rows behind.  (Under Prompt.) *)
NoOrphans == ~route.exists => \A p \in Object : ~index[p].stored

(* No row the user sees is lost by mistake: one that the walk of the scan  *)
(* has found is not swept away, whatever other scans wrote to it before.   *)
(* (Under Prompt.)                                                         *)
RowsLostOnlyBySweep ==
  [][\A p \in Visible : p \notin Visible' =>
       \/ route'.dest # route.dest
       \/ ~route'.exists
       \/ \E s \in Scanner : Sweep(s) /\ p \notin scan[s].counted]_vars

(* A change that is answered with "refresh scheduled" leaves the route due *)
(* and no scan under way that began before the change and could count as   *)
(* the refresh.  (Under Prompt.)                                           *)
RefreshKept ==
  [][change.pc = "applied" /\ change'.pc = "answered" /\ change'.refresh =>
       route'.due /\ \A s \in Scanner : At(s, "idle")]_vars

-----------------------------------------------------------------------------
(* Liveness.                                                               *)

(* Every instance polls, the calls of a scan return, and time passes.      *)
Fairness ==
  /\ \A s \in Scanner : WF_vars(ScanStep(s))
  /\ WF_vars(ChangeStep)
  /\ WF_vars(LeaseLapses) /\ WF_vars(NextScanDue)

FairSpec == Spec /\ Fairness

Undisturbed ==
  \/ \E s \in Scanner : ScanStep(s) \/ RenewScanLease(s)
  \/ ChangeStep
  \/ NextScanDue
  \/ LeaseLapses /\ At(route.owner, "idle")

Calm == <>[][Undisturbed]_vars

(* Whatever has happened, stalled scanners that write rows of a former     *)
(* destination, changes whose refresh was refused, scans that died: once   *)
(* the trouble is over, the index of an enabled route becomes what is at   *)
(* its destination, and stays so.                                          *)
Heals ==
  Calm => <>[](route.exists /\ route.enabled =>
                 Visible = remote[route.dest])

=============================================================================
