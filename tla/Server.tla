------------------------------- MODULE Server -------------------------------
(***************************************************************************)
(* The life of the processes of an installation (cmd/server/main.go): they *)
(* create the missing tables of the database one process at a time         *)
(* (internal/database/schema.go), serve, and shut down when told to.  The  *)
(* first process is looked into: it has workers that publish events and    *)
(* clients that stream them (EventHub).                                    *)
(***************************************************************************)
EXTENDS EventHub

CONSTANTS
  Process,
  Home,         (* The process whose hub is modelled.                      *)
  Table         (* Tables of the schema.                                   *)

ASSUME HomeAssumption == Home \in Process

VARIABLES
  tables,       (* Tables that exist.                                      *)
  stage,        (* stage[p]: where main of process p is.                   *)
  creating,     (* creating[p]: the table p has found missing, or none.    *)
  unseen,       (* unseen[p]: tables p has not looked for yet.             *)
  background,   (* background[p]: do services of p still run?              *)
  late          (* late[p]: is the time p may wait for them, or before     *)
                (* that for its requests, over?                            *)

mainVars == <<tables, stage, creating, unseen, background, late>>

vars == <<hubVars, mainVars>>

Up == {"serving", "shutdown", "waiting"}

TypeOK ==
  /\ HubTypeOK
  /\ tables \subseteq Table
  /\ stage \in [Process -> {"down", "locking", "creating", "checking"} \cup Up]
  /\ creating \in [Process -> SUBSET Table]
  /\ unseen \in [Process -> SUBSET Table]
  /\ background \in [Process -> BOOLEAN]
  /\ late \in [Process -> BOOLEAN]

Init ==
  /\ HubInit
  /\ tables \in SUBSET Table
  /\ stage = [p \in Process |-> "down"]
  /\ creating = [p \in Process |-> {}]
  /\ unseen = [p \in Process |-> {}]
  /\ background = [p \in Process |-> FALSE]
  /\ late = [p \in Process |-> FALSE]

-----------------------------------------------------------------------------
(* Start.                                                                  *)

StartProcess(p) ==
  /\ stage[p] = "down"
  /\ stage' = [stage EXCEPT ![p] = "locking"]
  /\ UNCHANGED <<hubVars, tables, creating, unseen, background, late>>

(* Slip: no lock. *)
AlwaysFree == TRUE

LockFree == \A p \in Process : stage[p] # "creating"

(* GET_LOCK *)
AcquireLock(p) ==
  /\ stage[p] = "locking" /\ LockFree
  /\ stage' = [stage EXCEPT ![p] = "creating"]
  /\ unseen' = [unseen EXCEPT ![p] = Table]
  /\ UNCHANGED <<hubVars, tables, creating, background, late>>

(* HasTable *)
LookForTable(p, t) ==
  /\ stage[p] = "creating" /\ creating[p] = {} /\ t \in unseen[p]
  /\ unseen' = [unseen EXCEPT ![p] = @ \ {t}]
  /\ creating' = [creating EXCEPT ![p] = {t} \ tables]
  /\ UNCHANGED <<hubVars, tables, stage, background, late>>

CreateTable(p, t) ==
  /\ stage[p] = "creating" /\ t \in creating[p] /\ t \notin tables
  /\ tables' = tables \cup {t}
  /\ creating' = [creating EXCEPT ![p] = {}]
  /\ UNCHANGED <<hubVars, stage, unseen, background, late>>

(* RELEASE_LOCK *)
ReleaseLock(p) ==
  /\ stage[p] = "creating" /\ creating[p] = {} /\ unseen[p] = {}
  /\ stage' = [stage EXCEPT ![p] = "checking"]
  /\ UNCHANGED <<hubVars, tables, creating, unseen, background, late>>

(* The repairs and checks of the start have been made, and the services    *)
(* and the listener started.                                               *)
Serve(p) ==
  /\ stage[p] = "checking"
  /\ stage' = [stage EXCEPT ![p] = "serving"]
  /\ background' = [background EXCEPT ![p] = TRUE]
  /\ UNCHANGED <<hubVars, tables, creating, unseen, late>>

-----------------------------------------------------------------------------
(* End.                                                                    *)

(* SIGTERM: the context of the services is canceled first. *)
Quit(p) ==
  /\ stage[p] = "serving"
  /\ stage' = [stage EXCEPT ![p] = "shutdown"]
  /\ UNCHANGED <<hubVars, tables, creating, unseen, background, late>>

(* The last service has noticed; a worker in Publish is not done before. *)
ServicesStop(p) ==
  /\ stage[p] \in {"shutdown", "waiting"} /\ background[p]
  /\ p = Home => \A k \in Worker : ~Reading(k)
  /\ background' = [background EXCEPT ![p] = FALSE]
  /\ UNCHANGED <<hubVars, tables, stage, creating, unseen, late>>

(* Requests under way: a stream is one. *)
Requests(p) == IF p = Home THEN {c \in Client : stream[c] # "none"} ELSE {}

(* Slip: Shutdown has no deadline. *)
DrainedOnly(p) == Requests(p) = {}

(* Shutdown returns when no request is left, or after ten seconds.         *)
ShutdownReturns(p) == Requests(p) = {} \/ late[p]

EndShutdown(p) ==
  /\ stage[p] = "shutdown" /\ ShutdownReturns(p)
  /\ stage' = [stage EXCEPT ![p] = "waiting"]
  /\ late' = [late EXCEPT ![p] = FALSE]
  /\ UNCHANGED <<hubVars, tables, creating, unseen, background>>

TimePasses(p) ==
  /\ stage[p] \in {"shutdown", "waiting"} /\ ~late[p]
  /\ late' = [late EXCEPT ![p] = TRUE]
  /\ UNCHANGED <<hubVars, tables, stage, creating, unseen, background>>

HubGone ==
  /\ subscribers' = {}
  /\ channel' = [c \in Client |-> NoChannel]
  /\ stream' = [c \in Client |-> "none"]
  /\ got' = [c \in Client |-> [k \in Worker |-> 0]]
  /\ pub' = [k \in Worker |-> IdlePub]

(* The process is gone, with its connection that holds the lock. *)
Gone(p) ==
  /\ stage' = [stage EXCEPT ![p] = "down"]
  /\ creating' = [creating EXCEPT ![p] = {}]
  /\ unseen' = [unseen EXCEPT ![p] = {}]
  /\ background' = [background EXCEPT ![p] = FALSE]
  /\ late' = [late EXCEPT ![p] = FALSE]
  /\ IF p = Home THEN HubGone ELSE UNCHANGED hubVars
  /\ UNCHANGED tables

WaitReturns(p) == ~background[p] \/ late[p]

Exit(p) == stage[p] = "waiting" /\ WaitReturns(p) /\ Gone(p)

(* A fatal error of the start, a failed statement, a lock that is not had  *)
(* for sixty seconds; or a crash at any time.                              *)
ProcessEnds(p) == stage[p] # "down" /\ Gone(p)

-----------------------------------------------------------------------------
MainStep(p) == EndShutdown(p) \/ TimePasses(p) \/ Exit(p)

StartStep(p) ==
  \/ StartProcess(p) \/ AcquireLock(p)
  \/ \E t \in Table : LookForTable(p, t) \/ CreateTable(p, t)
  \/ ReleaseLock(p) \/ Serve(p)

(* The hub works as long as its process: streams begin while it listens,   *)
(* and events while the queue runs.                                        *)
Publishing(k) ==
  \/ background[Home] /\ BeginPublish(k)
  \/ PublishStep(k)

Streaming(c) ==
  \/ stage[Home] = "serving" /\ Subscribe(c)
  \/ StreamStep(c)

HubStep ==
  /\ \/ \E k \in Worker : Publishing(k)
     \/ \E c \in Client : Streaming(c)
  /\ UNCHANGED mainVars

Next ==
  \/ \E p \in Process : StartStep(p) \/ Quit(p) \/ ServicesStop(p) \/ MainStep(p)
  \/ \E p \in Process : ProcessEnds(p)
  \/ HubStep

Spec == Init /\ [][Next]_vars

(* main goes on, its timers fire, and so do the workers.  Nothing is       *)
(* expected of the clients, nor of the services.                           *)
Fairness ==
  /\ \A p \in Process : WF_vars(MainStep(p))
  /\ \A k \in Worker : WF_vars(PublishStep(k) /\ UNCHANGED mainVars)

FairSpec == Spec /\ Fairness

-----------------------------------------------------------------------------
(* No table is created that another process has created since it was found *)
(* missing, which would be fatal; and a process that serves finds them     *)
(* all, whoever crashed on the way to them.                                *)
SchemaReady ==
  \A p \in Process : /\ creating[p] \cap tables = {}
                     /\ stage[p] \in Up => tables = Table

(* A process that is told to stop does stop: a client that streams and     *)
(* never leaves does not keep it, nor does a service that hangs.           *)
ShutsDown == \A p \in Process : stage[p] = "shutdown" ~> stage[p] = "down"

=============================================================================
