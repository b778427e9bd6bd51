----------------------------- MODULE RemoteMove -----------------------------
(***************************************************************************)
(* Batch moves of files below one remote route: the operations a process   *)
(* runs in the background and reports on (internal/api/                    *)
(* remote_move_operation.go), the validation and the moves of one batch    *)
(* (MoveFilesWithProgress, internal/service/remote_route_service.go), and  *)
(* the rclone command that moves one file.                                 *)
(*                                                                         *)
(* Operations live in the memory of a process: other processes of the same *)
(* installation do not know of them, and a restart forgets them.           *)
(***************************************************************************)
EXTENDS Naturals, FiniteSets, Sequences

CONSTANTS
  Instance,     (* Processes that serve the API.                           *)
  NoInstance,
  Operation,    (* Operation ids; random in the code, used again here once *)
                (* nothing knows of them any more.                         *)
  NoOperation,
  Folder, Name, (* A path is a name in a folder.                           *)
  NoFolder,
  File,         (* Contents that must not get lost.                        *)
  NoFile,
  MaxSources    (* Paths one request may name; 100 in the code.            *)

ASSUME InstanceAssumption == NoInstance \notin Instance
ASSUME OperationAssumption == NoOperation \notin Operation
ASSUME FolderAssumption == NoFolder \notin Folder
ASSUME FileAssumption == NoFile \notin File
ASSUME SourcesAssumption == MaxSources \in Nat

Path == Folder \X Name

(* path.Base of the source joined to the target folder. *)
Into(folder, path) == <<folder, path[2]>>

Lists(n) == UNION {[1 .. k -> Path] : k \in 0 .. n}

VARIABLES
  remote,       (* remote[p]: the file at path p.                          *)
  active,       (* active[i]: activeByRoute of instance i.                 *)
  entry,        (* entry[o]: what operations[o] says, in the instance that *)
                (* holds it.                                               *)
  job           (* job[o]: the goroutine that works on o.                  *)

vars == <<remote, active, entry, job>>

(* status "none": there is no such entry.  stale: it finished longer than  *)
(* the retention ago.                                                      *)
Entry ==
  [at : Instance \cup {NoInstance},
   status : {"none", "queued", "running", "completed", "failed"},
   total : 0 .. MaxSources, moved : SUBSET Path, failed : SUBSET Path,
   stale : BOOLEAN]

NoEntry ==
  [at |-> NoInstance, status |-> "none", total |-> 0, moved |-> {},
   failed |-> {}, stale |-> FALSE]

(* next is the index of the source at hand, ready the sources that passed  *)
(* the validation and are still to be moved, in their order.  free is what *)
(* rclone found when it looked for a file at the destination.              *)
Job ==
  [pc : {"none", "queued", "prepare", "validate", "move", "command",
         "verify", "finish"},
   at : Instance \cup {NoInstance},
   sources : Lists(MaxSources), target : Folder \cup {NoFolder}, next : 1 .. MaxSources + 1,
   ready : Lists(MaxSources), moved : SUBSET Path, failed : SUBSET Path,
   free : BOOLEAN, err : BOOLEAN]

NoJob ==
  [pc |-> "none", at |-> NoInstance, sources |-> <<>>,
   target |-> NoFolder, next |-> 1, ready |-> <<>>, moved |-> {},
   failed |-> {}, free |-> FALSE, err |-> FALSE]

(* Every variable has its type. *)
TypeOK ==
  /\ remote \in [Path -> File \cup {NoFile}]
  /\ active \in [Instance -> Operation \cup {NoOperation}]
  /\ entry \in [Operation -> Entry]
  /\ job \in [Operation -> Job]

Placement ==
  {place \in [Path -> File \cup {NoFile}] :
     \A f \in File : Cardinality({p \in Path : place[p] = f}) = 1}

Init ==
  /\ remote \in Placement
  /\ active = [i \in Instance |-> NoOperation]
  /\ entry = [o \in Operation |-> NoEntry]
  /\ job = [o \in Operation |-> NoJob]

-----------------------------------------------------------------------------
(* The manager of an instance.                                             *)

Finished(o) == entry[o].status \in {"completed", "failed"}

Unfinished(o) == entry[o].status \in {"queued", "running"}

(* Slip: a result is dropped by the first poll. *)
ExpiredAtOnce(i, o) == entry[o].at = i /\ Finished(o)

Expired(i, o) == entry[o].at = i /\ Finished(o) /\ entry[o].stale

Cleaned(i) == [o \in Operation |-> IF Expired(i, o) THEN NoEntry ELSE entry[o]]

Acceptable(sources) == Len(sources) \in 1 .. MaxSources

(* Slip: the route is not looked up. *)
NotLookedUp(i) == TRUE

RouteFree(i) == active[i] = NoOperation

(* Start, with a fresh id. *)
Start(i, o, sources, target) ==
  /\ Acceptable(sources) /\ RouteFree(i)
  /\ entry[o] = NoEntry /\ job[o] = NoJob
  /\ entry' = [Cleaned(i) EXCEPT ![o] =
                 [NoEntry EXCEPT !.at = i, !.status = "queued",
                                 !.total = Len(sources)]]
  /\ active' = [active EXCEPT ![i] = o]
  /\ job' = [job EXCEPT ![o] = [NoJob EXCEPT !.pc = "queued", !.at = i,
               !.sources = sources, !.target = target]]
  /\ UNCHANGED remote

(* Get, and a Start that is refused. *)
Poll(i) ==
  /\ entry' = Cleaned(i)
  /\ UNCHANGED <<remote, active, job>>

Run(o) ==
  /\ job[o].pc = "queued"
  /\ job' = [job EXCEPT ![o].pc = "prepare"]
  /\ entry' = [entry EXCEPT ![o].status = "running"]
  /\ UNCHANGED <<remote, active>>

(* The next local state of o, reported through updateProgress. *)
Reported(o, next) ==
  /\ job' = [job EXCEPT ![o] = next]
  /\ entry' = [entry EXCEPT ![o].moved = next.moved, ![o].failed = next.failed]

Stop(o) == [job[o] EXCEPT !.pc = "finish", !.err = TRUE]

(* Slip: the mark is left when the batch was refused. *)
UnmarkedOnSuccess(i, o) ==
  IF active[i] = o /\ ~job[o].err THEN NoOperation ELSE active[i]

Unmarked(i, o) == IF active[i] = o THEN NoOperation ELSE active[i]

(* run has the result. *)
Finish(o) ==
  /\ job[o].pc = "finish"
  /\ entry' = [entry EXCEPT ![o] = [entry[o] EXCEPT
                 !.status = IF job[o].err THEN "failed" ELSE "completed",
                 !.moved = job[o].moved, !.failed = job[o].failed]]
  /\ active' = [active EXCEPT ![job[o].at] = Unmarked(job[o].at, o)]
  /\ job' = [job EXCEPT ![o] = NoJob]
  /\ UNCHANGED remote

-----------------------------------------------------------------------------
(* MoveFilesWithProgress.                                                  *)

(* writableRoute and the stat of the target: the batch is refused unless   *)
(* the route is enabled and not being scanned, and the target is there.    *)
Prepare(o) ==
  /\ job[o].pc = "prepare"
  /\ \/ Reported(o, [job[o] EXCEPT !.pc = "validate"])
     \/ Reported(o, Stop(o))
  /\ UNCHANGED <<remote, active>>

Source(o) == job[o].sources[job[o].next]

Before(o) == {job[o].sources[k] : k \in 1 .. job[o].next - 1}

(* seenDestinations: every earlier source that is not in place yet.        *)
Claimed(o) ==
  {Into(job[o].target, p) : p \in {q \in Before(o) : Into(job[o].target, q) # q}}

(* The reasons for which a source is reported as failed. *)
Refused(o) ==
  LET p == Source(o)  d == Into(job[o].target, p)
  IN  d = p \/ d \in Claimed(o) \/ remote[p] = NoFile \/ remote[d] # NoFile

Validated(o) ==
  LET p == Source(o)
  IN  IF Refused(o)
        THEN [job[o] EXCEPT !.next = @ + 1, !.failed = @ \cup {p}]
        ELSE [job[o] EXCEPT !.next = @ + 1, !.ready = Append(@, p)]

(* One turn of the first loop.  A path named twice, and a stat that fails, *)
(* end the whole batch.                                                    *)
Validate(o) ==
  /\ job[o].pc = "validate" /\ job[o].next <= Len(job[o].sources)
  /\ \/ Source(o) \notin Before(o) /\ Reported(o, Validated(o))
     \/ Reported(o, Stop(o))
  /\ UNCHANGED <<remote, active>>

EndValidate(o) ==
  /\ job[o].pc = "validate" /\ job[o].next > Len(job[o].sources)
  /\ job' = [job EXCEPT ![o].pc = "move"]
  /\ UNCHANGED <<remote, active, entry>>

Dest(o) == Into(job[o].target, Head(job[o].ready))

(* Slip: --ignore-existing is missing. *)
NeverThere(o) == TRUE

FreeDest(o) == remote[Dest(o)] = NoFile

(* The second loop: rclone moveto begins, and looks at the destination.    *)
BeginCommand(o) ==
  /\ job[o].pc = "move" /\ job[o].ready # <<>>
  /\ job' = [job EXCEPT ![o] = [job[o] EXCEPT !.pc = "command",
                                             !.free = FreeDest(o)]]
  /\ UNCHANGED <<remote, active, entry>>

(* With --ignore-existing a file that was there is left alone, and so is   *)
(* the source then.                                                        *)
Moves(o) == job[o].free /\ remote[Head(job[o].ready)] # NoFile

AfterMove(o) ==
  LET p == Head(job[o].ready)
  IN  IF Moves(o) THEN [remote EXCEPT ![Dest(o)] = remote[p], ![p] = NoFile]
                  ELSE remote

(* Killed, or cut off, after the copy and before the source is deleted.    *)
HalfMoved(o) ==
  IF Moves(o) THEN [remote EXCEPT ![Dest(o)] = remote[Head(job[o].ready)]]
              ELSE remote

Failing(o) ==
  [job[o] EXCEPT !.pc = "move", !.ready = Tail(@),
                 !.failed = @ \cup {Head(job[o].ready)}]

(* rclone exits with 0, having moved the file or skipped it. *)
EndCommand(o) ==
  /\ job[o].pc = "command"
  /\ remote[Head(job[o].ready)] # NoFile
  /\ remote' = AfterMove(o)
  /\ job' = [job EXCEPT ![o].pc = "verify"]
  /\ UNCHANGED <<active, entry>>

(* rclone fails, or is killed at the deadline of the operation; it may     *)
(* have done its work, half of it or nothing.                              *)
CommandFails(o) ==
  /\ job[o].pc = "command"
  /\ remote' \in {remote, HalfMoved(o), AfterMove(o)}
  /\ Reported(o, Failing(o))
  /\ UNCHANGED <<active>>

(* MoveRemoteObject: the source must be gone, and the destination there.   *)
Verified(o) ==
  remote[Head(job[o].ready)] = NoFile /\ remote[Dest(o)] # NoFile

(* Slip: a failed source is counted as moved as well. *)
SucceedingToo(o) ==
  [job[o] EXCEPT !.pc = "move", !.ready = Tail(@),
                 !.moved = @ \cup {Head(job[o].ready)},
                 !.failed = @ \cup {Head(job[o].ready)}]

Succeeding(o) ==
  [job[o] EXCEPT !.pc = "move", !.ready = Tail(@),
                 !.moved = @ \cup {Head(job[o].ready)}]

(* A stat that fails counts as a move that failed. *)
Verify(o) ==
  /\ job[o].pc = "verify"
  /\ \/ Verified(o) /\ Reported(o, Succeeding(o))
     \/ Reported(o, Failing(o))
  /\ UNCHANGED <<remote, active>>

(* scheduleMutationRefresh, when something was moved, and "completed".     *)
EndMoves(o) ==
  /\ job[o].pc = "move" /\ job[o].ready = <<>>
  /\ job' = [job EXCEPT ![o].pc = "finish"]
  /\ UNCHANGED <<remote, active, entry>>

-----------------------------------------------------------------------------
(* The process and its surroundings.                                       *)

(* The process ends without waiting for its operations, of which the       *)
(* shutdown of main knows nothing; the command under way dies with it.     *)
InstanceDies(i) ==
  LET mine == {o \in Operation : job[o].at = i}
  IN  /\ \/ UNCHANGED remote
         \/ \E o \in mine : /\ job[o].pc = "command"
                            /\ remote' \in {HalfMoved(o), AfterMove(o)}
      /\ job' = [o \in Operation |-> IF o \in mine THEN NoJob ELSE job[o]]
      /\ entry' = [o \in Operation |->
                     IF entry[o].at = i THEN NoEntry ELSE entry[o]]
      /\ active' = [active EXCEPT ![i] = NoOperation]

(* Somebody else moves a file.  Whoever does so between the check and the  *)
(* write of a command is up against rclone, not against this program.      *)
OutsideMove(p, d) ==
  /\ \A o \in Operation : job[o].pc # "command"
  /\ remote[p] # NoFile /\ remote[d] = NoFile
  /\ remote' = [remote EXCEPT ![d] = remote[p], ![p] = NoFile]
  /\ UNCHANGED <<active, entry, job>>

RetentionEnds(o) ==
  /\ Finished(o) /\ ~entry[o].stale
  /\ entry' = [entry EXCEPT ![o].stale = TRUE]
  /\ UNCHANGED <<remote, active, job>>

-----------------------------------------------------------------------------
Request(i) ==
  \/ \E o \in Operation, sources \in Lists(MaxSources + 1), target \in Folder :
       Start(i, o, sources, target)
  \/ Poll(i)

JobStep(o) ==
  \/ Run(o) \/ Prepare(o)
  \/ Validate(o) \/ EndValidate(o)
  \/ BeginCommand(o) \/ EndCommand(o) \/ CommandFails(o)
  \/ Verify(o)
  \/ EndMoves(o)
  \/ Finish(o)

Next ==
  \/ \E i \in Instance : Request(i) \/ InstanceDies(i)
  \/ \E o \in Operation : JobStep(o) \/ RetentionEnds(o)
  \/ \E p, d \in Path : OutsideMove(p, d)

Spec == Init /\ [][Next]_vars

-----------------------------------------------------------------------------
(* Safety.                                                                 *)

(* An instance holds a route for an operation exactly as long as the       *)
(* operation is under way: an error on any path out of the batch does not  *)
(* leave the route blocked, and no second operation gets in.               *)
RouteHeld ==
  \A i \in Instance, o \in Operation :
    (active[i] = o) = (entry[o].at = i /\ Unfinished(o))

(* Whatever is cut off, fails or is refused on the way, no file is lost:   *)
(* every one is somewhere.  (With one instance: only operations of one     *)
(* process exclude each other.)                                            *)
NoFileLost == \A f \in File : \E p \in Path : remote[p] = f

(* What an operation that completed reports adds up: every source it was   *)
(* given is reported once, as moved or as failed, and never as both.       *)
Accounted ==
  \A o \in Operation : entry[o].status = "completed" =>
    /\ entry[o].moved \cap entry[o].failed = {}
    /\ Cardinality(entry[o].moved) + Cardinality(entry[o].failed)
         = entry[o].total

(* Whoever polls an operation sees it advance, never go back; a result     *)
(* stays what it was; and an operation is forgotten only when its result   *)
(* has been there for the retention, or its process has died.              *)
ReportsAdvance ==
  [][\A o \in Operation : entry[o].status # "none" =>
       \/ /\ entry'[o].status # "none"
          /\ entry[o].moved \subseteq entry'[o].moved
          /\ entry[o].failed \subseteq entry'[o].failed
          /\ Finished(o) => entry'[o] = [entry[o] EXCEPT !.stale = entry'[o].stale]
       \/ Finished(o) /\ entry[o].stale
       \/ InstanceDies(entry[o].at)]_vars

-----------------------------------------------------------------------------
(* Liveness.                                                               *)

(* A goroutine goes on: every call it makes returns, at the latest when    *)
(* the six hours its context has are over.                                 *)
Fairness == \A o \in Operation : WF_vars(JobStep(o))

FairSpec == Spec /\ Fairness

(* Every operation comes to an end, and its route can be used again.       *)
OperationsEnd ==
  \A o \in Operation :
    entry[o].status = "queued" ~> \A i \in Instance : active[i] # o

=============================================================================
