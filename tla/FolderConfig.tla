---------------------------- MODULE FolderConfig ----------------------------
(***************************************************************************)
(* The configuration of watch folders and of the routes they upload to:    *)
(* concurrent API calls that create, edit and delete them                  *)
(* (internal/service/watch_folder_service.go, remote_route_service.go and  *)
(* the transactions in internal/repository), while scanners claim and      *)
(* finish the folders.  WatchScan and RemoteRoute have what a scan does.   *)
(*                                                                         *)
(* Every write of a row sets its updated_at.  A call compares it to the    *)
(* one it read, so that a call only has to know whether the row was        *)
(* written since.                                                          *)
(***************************************************************************)
EXTENDS FiniteSets

CONSTANTS
  Path,         (* Directories, by their names without symbolic links.     *)
  Below,        (* Below[p]: the directories below p, p among them.        *)
  Given,        (* Names of directories that requests give.                *)
  Resolved,     (* Resolved[g]: the directory g stands for; external.      *)
  NoPath,
  Folder,       (* Ids of folders, a bound on how many exist.  A deleted   *)
                (* one may come back for a new folder: no call takes the   *)
                (* new row for the old one.                                *)
  Route, NoRoute,
  Dest,         (* Destinations: a remote and a path on it.                *)
  AllowedDest,
  Steps,        (* Path pipelines.                                         *)
  Creations,    (* What a creation may ask for: a path, a pipeline and a   *)
                (* route, or a destination.                                *)
  Edits,        (* Edits[f]: what an update of f may ask for, values for   *)
                (* some of its fields.                                     *)
  Taken,        (* The folders that scanners take up.                      *)
  Call,         (* API calls that may be under way at the same time.       *)
  None

(* The fields that an update may name. *)
Field == {"path", "route", "dest", "steps", "status", "enabled"}

ASSUME PathAssumption ==
  /\ NoPath \notin Path /\ Path \subseteq Given
  /\ Below \in [Path -> SUBSET Path] /\ \A p \in Path : p \in Below[p]
  /\ Resolved \in [Given -> Path \cup {NoPath}]
  /\ \A p \in Path : Resolved[p] = p
ASSUME RouteAssumption == NoRoute \notin Route /\ AllowedDest \subseteq Dest
ASSUME TargetAssumption == None \notin Folder \cup Route /\ Taken \subseteq Folder

(* What requests give for a field: an update that names a route refers to  *)
(* one, and may set any status, also that of a scan under way.             *)
ASSUME RequestAssumption ==
  /\ Path # {} /\ Dest # {} /\ Steps # {}
  /\ \A in \in Creations :
       /\ in.path \in Given /\ in.route \in Route \cup {NoRoute}
       /\ in.dest \in Dest /\ in.steps \in Steps
  /\ \A f \in Folder : \A edit \in Edits[f] :
       /\ "path" \in DOMAIN edit => edit.path \in Given
       /\ "route" \in DOMAIN edit => edit.route \in Route
       /\ "dest" \in DOMAIN edit => edit.dest \in Dest
       /\ "steps" \in DOMAIN edit => edit.steps \in Steps
       /\ "enabled" \in DOMAIN edit => edit.enabled \in BOOLEAN
       /\ "status" \in DOMAIN edit =>
            edit.status \in {"watching", "detecting", "stopped", "paused"}
       /\ DOMAIN edit \subseteq Field

VARIABLES
  folder,       (* folder[f]: the watch_folders row.                       *)
  route,        (* route[r]: the remote_routes row.                        *)
  call,         (* call[c]: an API call and what it has read.              *)
  up            (* Does the process serve?                                 *)

vars == <<folder, route, call, up>>

(* work: is there an unfinished task of the folder that is not asked to    *)
(* stop, or a snapshot that counts as uploaded?  Nothing here depends on   *)
(* whether the last scan failed: watching stands for error as well.        *)
FolderRow ==
  [exists : BOOLEAN, path : Path, route : Route \cup {NoRoute}, dest : Dest,
   steps : Steps, enabled : BOOLEAN, work : BOOLEAN,
   status : {"watching", "detecting", "stopped", "paused"},
   lease : {"none", "live", "lapsed"}]

RouteRow == [exists : BOOLEAN, dest : Dest]

(* of is the row the call is about and fresh whether it is as the call     *)
(* read it; asked the fields an update names, row what it will write,      *)
(* moved whether that is another destination; unseen the folders that got  *)
(* their path after the call had listed the paths.                         *)
CallState ==
  [op : {"none", "create", "update", "delete", "reroute"},
   pc : {"idle", "route", "check", "write"},
   of : Folder \cup Route \cup {None}, asked : SUBSET Field,
   row : FolderRow, moved : BOOLEAN, fresh : BOOLEAN, unseen : SUBSET Folder]

TypeOK ==
  /\ folder \in [Folder -> FolderRow]
  /\ route \in [Route -> RouteRow]
  /\ call \in [Call -> CallState]
  /\ up \in BOOLEAN

NoFolder ==
  [exists |-> FALSE, path |-> CHOOSE p \in Path : TRUE, route |-> NoRoute,
   dest |-> CHOOSE d \in Dest : TRUE, steps |-> CHOOSE s \in Steps : TRUE,
   enabled |-> FALSE, work |-> FALSE, status |-> "stopped", lease |-> "none"]

NoRouteRow == [exists |-> FALSE, dest |-> CHOOSE d \in Dest : TRUE]

NoCall ==
  [op |-> "none", pc |-> "idle", of |-> None, asked |-> {}, row |-> NoFolder,
   moved |-> FALSE, fresh |-> TRUE, unseen |-> {}]

Init ==
  /\ folder = [f \in Folder |-> NoFolder]
  /\ route = [r \in Route |-> NoRouteRow]
  /\ call = [c \in Call |-> NoCall]
  /\ up = TRUE

-----------------------------------------------------------------------------
(* Rows.                                                                   *)

Existing == {f \in Folder : folder[f].exists}

(* ValidateLocalDirectory and ValidateRemote: a directory that is there    *)
(* and may be watched, a destination that may be used.                     *)
ValidPath(given) == Resolved[given] # NoPath

ValidDest(dest) == dest \in AllowedDest

(* localPathsOverlap *)
Overlap(p, q) == p \in Below[q] \/ q \in Below[p]

(* A scan that goes on, unless its lease has run out. *)
Detecting(f) == folder[f].status = "detecting"

Scanned(f) == Detecting(f) /\ folder[f].lease # "lapsed"

Linked(r) == {f \in Existing : folder[f].route = r}

(* Slip: updated_at is not compared. *)
NeverOutdated(c, written) == FALSE

(* Has the row that a call is about been written?  Then it has another     *)
(* updated_at.                                                             *)
Outdated(c, written) ==
  call[c].op \in {"update", "reroute"} /\ call[c].of \in written

(* What it has read is then of no use any more: it will fail in the end.   *)
OutdatedCall(c) ==
  [NoCall EXCEPT !.op = call[c].op, !.pc = "write", !.of = call[c].of,
                 !.fresh = FALSE]

(* The calls after rows were written, and the paths of folders P set.      *)
Told(written, P) ==
  [c \in Call |->
     IF Outdated(c, written) THEN OutdatedCall(c)
     ELSE IF call[c].pc = "write"
            THEN [call[c] EXCEPT !.unseen = @ \cup P]
     ELSE call[c]]

Ends(c, calls) == [calls EXCEPT ![c] = NoCall]

(* A request is refused, or the database or the client goes away. *)
Fails(c) ==
  /\ call' = Ends(c, call)
  /\ UNCHANGED <<folder, route, up>>

At(c, op, pc) == up /\ call[c].op = op /\ call[c].pc = pc

Proceed(c, state) ==
  /\ call' = [call EXCEPT ![c] = state]
  /\ UNCHANGED <<folder, route, up>>

(* The only write of a folder by a call that is then over. *)
Write(c, f, row, P) ==
  /\ folder' = [folder EXCEPT ![f] = row]
  /\ call' = Ends(c, Told({f}, P))
  /\ UNCHANGED <<route, up>>

-----------------------------------------------------------------------------
(* Creating a folder.                                                      *)

NewFolder(in) ==
  [NoFolder EXCEPT !.exists = TRUE, !.path = Resolved[in.path],
                   !.route = in.route, !.steps = in.steps,
                   !.dest = IF in.route = NoRoute THEN in.dest
                            ELSE route[in.route].dest,
                   !.enabled = TRUE, !.status = "watching"]

(* The request, up to the read of the route it names.                      *)
BeginCreate(c) ==
  /\ up /\ call[c].op = "none"
  /\ \E in \in Creations :
       /\ ValidPath(in.path)
       /\ in.route # NoRoute => route[in.route].exists
       /\ Proceed(c, [NoCall EXCEPT !.op = "create", !.pc = "check",
                        !.row = NewFolder(in)])

(* Slip: a folder that is disabled is not in the way. *)
PathFreeOfEnabled(c) ==
  /\ ValidDest(call[c].row.dest)
  /\ \A g \in Existing \ {call[c].of} :
       folder[g].enabled => ~Overlap(call[c].row.path, folder[g].path)

(* ensurePathDoesNotOverlap, which leaves out the folder itself.           *)
PathFree(c) ==
  /\ ValidDest(call[c].row.dest)
  /\ \A g \in Existing \ {call[c].of} :
       ~Overlap(call[c].row.path, folder[g].path)

CheckPath(c) ==
  /\ up /\ call[c].pc = "check"
  /\ IF PathFree(c) THEN Proceed(c, [call[c] EXCEPT !.pc = "write"])
     ELSE Fails(c)

(* The unique index on local_path. *)
Unique(f, path) == \A g \in Existing \ {f} : folder[g].path # path

Insert(c) ==
  /\ At(c, "create", "write")
  /\ \E f \in Folder \ Existing :
       IF Unique(f, call[c].row.path) THEN Write(c, f, call[c].row, {f})
       ELSE Fails(c)

-----------------------------------------------------------------------------
(* Editing one.                                                            *)

Configures(asked) == asked \ {"status", "enabled"} # {}

(* Enabling and disabling set the status unless the request does. *)
StatusOf(row, edit) ==
  IF "enabled" \notin DOMAIN edit \/ "status" \in DOMAIN edit THEN row.status
  ELSE IF ~row.enabled THEN "stopped"
  ELSE IF row.status = "stopped" THEN "watching"
  ELSE row.status

Edited(old, edit) ==
  LET Asked(k) == IF k \in DOMAIN edit THEN edit[k] ELSE old[k]
      row == [old EXCEPT !.route = Asked("route"), !.dest = Asked("dest"),
                         !.steps = Asked("steps"), !.status = Asked("status"),
                         !.enabled = Asked("enabled"),
                         !.path = IF "path" \in DOMAIN edit
                                    THEN Resolved[edit.path] ELSE @]
  IN [row EXCEPT !.status = StatusOf(row, edit)]

(* Slip: a pipeline is not part of a destination. *)
MovedRemote(old, new) == old.route # new.route \/ old.dest # new.dest

(* destinationChanged *)
Moved(old, new) ==
  old.route # new.route \/ old.dest # new.dest \/ old.steps # new.steps

(* A linked folder has the destination of its route. *)
MayEdit(f, edit) ==
  /\ folder[f].exists
  /\ "path" \in DOMAIN edit => ValidPath(edit.path)
  /\ Configures(DOMAIN edit) => ~Detecting(f)
  /\ "dest" \in DOMAIN edit /\ "route" \notin DOMAIN edit =>
       folder[f].route = NoRoute

BeginUpdate(c) ==
  /\ up /\ call[c].op = "none"
  /\ \E f \in Folder : \E edit \in Edits[f] :
       LET row == Edited(folder[f], edit) IN
       /\ MayEdit(f, edit)
       /\ Proceed(c, [NoCall EXCEPT !.op = "update", !.of = f, !.row = row,
                        !.asked = DOMAIN edit, !.moved = Moved(folder[f], row),
                        !.pc = IF "route" \in DOMAIN edit THEN "route"
                               ELSE "check"])

(* A request may name a destination besides the route, and gets it.        *)
ReadRoute(c) ==
  /\ At(c, "update", "route")
  /\ LET row == call[c].row
         dest == IF "dest" \in call[c].asked THEN row.dest
                 ELSE route[row.route].dest
     IN IF route[row.route].exists
          THEN Proceed(c, [call[c] EXCEPT !.pc = "check", !.row.dest = dest,
                             !.moved = @ \/ dest # row.dest])
          ELSE Fails(c)

Current(c) == folder[call[c].of].exists /\ call[c].fresh

(* The row the update leaves: what the scanner and the workers write stays *)
(* as it is, except that the tasks and snapshots of another destination    *)
(* are canceled and reset.                                                 *)
Committed(c) ==
  LET f == call[c].of IN
  [call[c].row EXCEPT !.lease = folder[f].lease,
                      !.work = folder[f].work /\ ~call[c].moved]

CommitUpdate(c) ==
  /\ At(c, "update", "write")
  /\ LET f == call[c].of IN
     IF /\ Current(c)
        /\ Configures(call[c].asked) => ~Detecting(f)
        /\ Unique(f, call[c].row.path)
       THEN Write(c, f, Committed(c), {f})
       ELSE Fails(c)

-----------------------------------------------------------------------------
(* Deleting one.                                                           *)

BeginDelete(c) ==
  /\ up /\ call[c].op = "none"
  /\ \E f \in Existing :
       /\ ~Scanned(f)
       /\ Proceed(c, [NoCall EXCEPT !.op = "delete", !.pc = "write",
                                    !.of = f])

CommitDelete(c) ==
  /\ At(c, "delete", "write")
  /\ LET f == call[c].of IN
     IF folder[f].exists /\ ~Scanned(f) THEN Write(c, f, NoFolder, {})
     ELSE Fails(c)

-----------------------------------------------------------------------------
(* Routes.                                                                 *)

(* The unique index on route_key. *)
DestFree(r, dest) ==
  \A s \in Route \ {r} : route[s].exists => route[s].dest # dest

CreateRoute(r) ==
  /\ up /\ ~route[r].exists
  /\ \E dest \in AllowedDest :
       /\ DestFree(r, dest)
       /\ route' = [route EXCEPT ![r] = [exists |-> TRUE, dest |-> dest]]
  /\ UNCHANGED <<folder, call, up>>

BeginReroute(c) ==
  /\ up /\ call[c].op = "none"
  /\ \E r \in Route, dest \in AllowedDest :
       /\ route[r].exists
       /\ Proceed(c, [NoCall EXCEPT !.op = "reroute", !.pc = "write",
                        !.of = r, !.row.dest = dest,
                        !.moved = dest # route[r].dest])

(* Update of the route repository: the folders that are linked to it get   *)
(* the new destination in the same transaction.                            *)
CommitReroute(c) ==
  /\ At(c, "reroute", "write")
  /\ LET r == call[c].of
         dest == call[c].row.dest
         moving == IF call[c].moved THEN Linked(r) ELSE {}
     IN IF /\ route[r].exists /\ call[c].fresh /\ DestFree(r, dest)
           /\ \A f \in moving : ~Scanned(f)
          THEN /\ route' = [route EXCEPT ![r].dest = dest]
               /\ folder' = [f \in Folder |->
                    IF f \in moving
                      THEN [folder[f] EXCEPT !.dest = dest, !.work = FALSE]
                      ELSE folder[f]]
               /\ call' = Ends(c, Told({r} \cup moving, {}))
               /\ UNCHANGED up
          ELSE Fails(c)

DeleteRoute(r) ==
  /\ up /\ route[r].exists /\ Linked(r) = {}
  /\ route' = [route EXCEPT ![r] = NoRouteRow]
  /\ call' = Told({r}, {})
  /\ UNCHANGED <<folder, up>>

-----------------------------------------------------------------------------
(* The scanners of this and other processes, and what they find to upload. *)

Halted(f) == folder[f].status \in {"stopped", "paused"}

Scans(f, row) ==
  /\ folder' = [folder EXCEPT ![f] = row]
  /\ call' = Told({f}, {})
  /\ UNCHANGED <<route, up>>

ClaimForScan(f) ==
  /\ folder[f].exists /\ folder[f].enabled /\ ~Halted(f)
  /\ folder[f].lease # "live"
  /\ Scans(f, [folder[f] EXCEPT !.status = "detecting", !.lease = "live"])

(* Whoever pauses a folder during its scan does not stop the scan.         *)
FinishScan(f) ==
  /\ folder[f].exists /\ folder[f].lease # "none"
  /\ Scans(f, [folder[f] EXCEPT !.lease = "none",
                !.status = IF folder[f].enabled /\ ~Halted(f) THEN "watching"
                           ELSE @])

(* A lapsed lease is renewed as well, unless another scanner has taken it. *)
RenewScanLease(f) ==
  /\ folder[f].exists /\ Detecting(f) /\ folder[f].lease # "none"
  /\ Scans(f, [folder[f] EXCEPT !.lease = "live"])

(* A counter or next_scan_at: only updated_at changes here. *)
Touch(f) == folder[f].exists /\ Scans(f, folder[f])

(* Tasks and snapshots are other tables. *)
FindWork(f) ==
  /\ folder[f].exists /\ folder[f].lease # "none" /\ ~folder[f].work
  /\ folder' = [folder EXCEPT ![f].work = TRUE]
  /\ UNCHANGED <<route, call, up>>

LeaseLapses(f) ==
  /\ folder[f].lease = "live"
  /\ folder' = [folder EXCEPT ![f].lease = "lapsed"]
  /\ UNCHANGED <<route, call, up>>

-----------------------------------------------------------------------------
(* The process.                                                            *)

ProcessDies ==
  /\ up
  /\ up' = FALSE
  /\ call' = [c \in Call |-> NoCall]
  /\ UNCHANGED <<folder, route>>

(* FixStatusesOnStartup: a scan that was cut off is over. *)
Repaired(f) ==
  IF Detecting(f) /\ ~Scanned(f)
    THEN [folder[f] EXCEPT !.status = "watching", !.lease = "none"]
    ELSE folder[f]

(* ValidateWatchFolderPathTopology *)
Disjoint ==
  \A f, g \in Existing : f # g => ~Overlap(folder[f].path, folder[g].path)

(* A process does not start to serve when folders overlap. *)
StartProcess ==
  /\ ~up
  /\ folder' = [f \in Folder |-> Repaired(f)]
  /\ up' = Disjoint
  /\ UNCHANGED <<route, call>>

-----------------------------------------------------------------------------
CallFails(c) == up /\ call[c].op # "none" /\ Fails(c)

CreateStep(c) == BeginCreate(c) \/ Insert(c)

UpdateStep(c) == BeginUpdate(c) \/ ReadRoute(c) \/ CommitUpdate(c)

DeleteStep(c) == BeginDelete(c) \/ CommitDelete(c)

RerouteStep(c) == BeginReroute(c) \/ CommitReroute(c)

ScanStep(f) ==
  \/ ClaimForScan(f) \/ RenewScanLease(f) \/ FinishScan(f) \/ LeaseLapses(f)
  \/ Touch(f) \/ FindWork(f)

Next ==
  \/ \E c \in Call :
       \/ CreateStep(c) \/ UpdateStep(c) \/ DeleteStep(c) \/ RerouteStep(c)
       \/ CheckPath(c) \/ CallFails(c)
  \/ \E r \in Route : CreateRoute(r) \/ DeleteRoute(r)
  \/ \E f \in Taken : ScanStep(f)
  \/ ProcessDies \/ StartProcess

Spec == Init /\ [][Next]_vars

-----------------------------------------------------------------------------
(* The fields a request names, and those that follow from them. *)
Concerned(asked) ==
  asked \cup (IF "enabled" \in asked THEN {"status"} ELSE {})
        \cup (IF "route" \in asked THEN {"dest"} ELSE {})

(* Update of the folder service reads the row, and writes all of it later. *)
(* What others have set meanwhile is never undone: a field the request     *)
(* does not name keeps the value it has when the update commits.           *)
EditsCompose ==
  [][\A c \in Call, f \in Folder :
       /\ call[c].op = "update" /\ call[c].of = f
       /\ call'[c].op = "none" /\ folder'[f] # folder[f]
       => \A k \in Field \ Concerned(call[c].asked) :
            folder'[f][k] = folder[f][k]]_vars

(* Whether an update or a reroute moves a folder is decided on rows that   *)
(* were read before.  Still, from the commit on that gives a folder        *)
(* another destination, no task that is not being stopped and no mark of   *)
(* an upload is left over from the old one.                                *)
OldWorkDropped ==
  [][\A f \in Existing \cap Existing' :
       \/ folder'[f].dest # folder[f].dest
       \/ folder'[f].steps # folder[f].steps
       => ~folder'[f].work]_vars

(* ensurePathDoesNotOverlap lists the paths before the row is written, so  *)
(* that calls may overtake each other.  A path that is set can only        *)
(* overlap one that was set in between, and is never the same directory,   *)
(* under whatever names the two were given.                                *)
PathsChecked ==
  [][\A f, g \in Existing' :
       /\ f # g
       /\ ~(f \in Existing /\ folder'[f].path = folder[f].path)
       /\ Overlap(folder'[f].path, folder'[g].path)
       => /\ folder'[f].path # folder'[g].path
          /\ \E c \in Call : /\ call[c].op # "none" /\ call'[c].op = "none"
                             /\ g \in call[c].unseen]_vars

=============================================================================
