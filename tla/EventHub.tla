------------------------------ MODULE EventHub ------------------------------
(***************************************************************************)
(* The event hub of a process (internal/events/hub.go), the workers that   *)
(* publish to it and the clients that stream from it (internal/api/        *)
(* event_handler.go).                                                      *)
(*                                                                         *)
(* Publish holds the hub's lock for reading, so that workers publish side  *)
(* by side; Subscribe and the cancel function hold it for writing, and as  *)
(* they do not wait for anything then, each is one step, taken when nobody *)
(* reads.  An event is known by its worker and its number.                 *)
(***************************************************************************)
EXTENDS Naturals, FiniteSets, Sequences

CONSTANTS
  Worker,           (* Workers of the process, which publish.              *)
  Client,
  NoClient,
  MaxSubscribers,   (* 100 in the code.                                    *)
  Buffer,           (* Events a channel holds; 64 in the code.             *)
  MaxEvents         (* Bound of the model: events per worker.              *)

ASSUME HubAssumption ==
  /\ NoClient \notin Client
  /\ MaxSubscribers \in Nat \ {0} /\ Buffer \in Nat \ {0} /\ MaxEvents \in Nat

VARIABLES
  subscribers,      (* Clients whose channels are in the map.              *)
  channel,          (* channel[c]: the channel of the stream of client c.  *)
  stream,           (* stream[c]: where the handler of c is.               *)
  got,              (* got[c][k]: number of the last event of worker k     *)
                    (* that this stream has sent to c.                     *)
  pub               (* pub[k]: where worker k is in Publish.               *)

hubVars == <<subscribers, channel, stream, got, pub>>

Event == [worker : Worker, number : 1 .. MaxEvents]

Channel == [open : BOOLEAN, queue : UNION {[1 .. n -> Event] : n \in 0 .. Buffer}]

NoChannel == [open |-> FALSE, queue |-> <<>>]

(* todo are the subscribers still to be served, at is the one at hand when *)
(* its channel was full, number that of the last event.                    *)
Pub ==
  [pc : {"idle", "send", "drop", "retry"}, todo : SUBSET Client,
   at : Client \cup {NoClient}, number : 0 .. MaxEvents]

HubTypeOK ==
  /\ subscribers \subseteq Client
  /\ channel \in [Client -> Channel]
  /\ stream \in [Client -> {"none", "select", "write", "leave"}]
  /\ got \in [Client -> [Worker -> 0 .. MaxEvents]]
  /\ pub \in [Worker -> Pub]

IdlePub == [pc |-> "idle", todo |-> {}, at |-> NoClient, number |-> 0]

HubInit ==
  /\ subscribers = {}
  /\ channel = [c \in Client |-> NoChannel]
  /\ stream = [c \in Client |-> "none"]
  /\ got = [c \in Client |-> [k \in Worker |-> 0]]
  /\ pub = [k \in Worker |-> IdlePub]

-----------------------------------------------------------------------------
(* Publish.                                                                *)

Reading(k) == pub[k].pc # "idle"

(* A writer that waits keeps new readers out. *)
WriterWaits == \E c \in Client : stream[c] = "leave"

BeginPublish(k) ==
  /\ ~Reading(k) /\ ~WriterWaits /\ pub[k].number < MaxEvents
  /\ pub' = [pub EXCEPT ![k] = [pub[k] EXCEPT !.pc = "send",
                                  !.todo = subscribers, !.number = @ + 1]]
  /\ UNCHANGED <<subscribers, channel, stream, got>>

HasSpace(c) == Len(channel[c].queue) < Buffer

(* Slip: the worker waits for room. *)
NeverSkipped(c) == FALSE

Skipped(c) == ~HasSpace(c)

Put(k, c) ==
  channel' = [channel EXCEPT ![c].queue =
                Append(@, [worker |-> k, number |-> pub[k].number])]

Served(k, c) ==
  pub' = [pub EXCEPT ![k] = [pub[k] EXCEPT !.pc = "send", !.todo = @ \ {c},
                                           !.at = NoClient]]

(* The first select: the subscribers come in any order. *)
Send(k, c) ==
  /\ pub[k].pc = "send" /\ c \in pub[k].todo
  /\ \/ HasSpace(c) /\ Put(k, c) /\ Served(k, c)
     \/ /\ Skipped(c)
        /\ pub' = [pub EXCEPT ![k] = [pub[k] EXCEPT !.pc = "drop", !.at = c]]
        /\ UNCHANGED channel
  /\ UNCHANGED <<subscribers, stream, got>>

(* Slip: the old event goes to the end of the queue. *)
Rotated(queue) == Append(Tail(queue), Head(queue))

Dropped(queue) == Tail(queue)

(* The second select; the client may have emptied the channel meanwhile.   *)
DropOld(k) ==
  /\ pub[k].pc = "drop"
  /\ LET c == pub[k].at
     IN  channel' = IF channel[c].queue = <<>> THEN channel
                    ELSE [channel EXCEPT ![c].queue = Dropped(@)]
  /\ pub' = [pub EXCEPT ![k].pc = "retry"]
  /\ UNCHANGED <<subscribers, stream, got>>

(* The third; another worker may have taken the room, and the event of     *)
(* this one is lost then.                                                  *)
Retry(k) ==
  /\ pub[k].pc = "retry"
  /\ LET c == pub[k].at
     IN  /\ IF HasSpace(c) THEN Put(k, c) ELSE UNCHANGED channel
         /\ Served(k, c)
  /\ UNCHANGED <<subscribers, stream, got>>

EndPublish(k) ==
  /\ pub[k].pc = "send" /\ pub[k].todo = {}
  /\ pub' = [pub EXCEPT ![k].pc = "idle"]
  /\ UNCHANGED <<subscribers, channel, stream, got>>

-----------------------------------------------------------------------------
(* Stream.                                                                 *)

(* Slip: the cancel function does not take the lock. *)
NoLock == TRUE

Lockable == \A k \in Worker : ~Reading(k)

Subscribe(c) ==
  /\ stream[c] = "none" /\ Lockable
  /\ Cardinality(subscribers) < MaxSubscribers
  /\ subscribers' = subscribers \cup {c}
  /\ channel' = [channel EXCEPT ![c] = [open |-> TRUE, queue |-> <<>>]]
  /\ stream' = [stream EXCEPT ![c] = "select"]
  /\ got' = [got EXCEPT ![c] = [k \in Worker |-> 0]]
  /\ UNCHANGED pub

Receive(c) ==
  /\ stream[c] = "select" /\ channel[c].queue # <<>>
  /\ LET event == Head(channel[c].queue)
     IN  got' = [got EXCEPT ![c][event.worker] = event.number]
  /\ channel' = [channel EXCEPT ![c].queue = Tail(@)]
  /\ stream' = [stream EXCEPT ![c] = "write"]
  /\ UNCHANGED <<subscribers, pub>>

(* The client has taken the event or the keepalive. *)
Written(c) ==
  /\ stream[c] = "write"
  /\ stream' = [stream EXCEPT ![c] = "select"]
  /\ UNCHANGED <<subscribers, channel, got, pub>>

(* The request is over, or the client takes nothing for ten seconds. *)
StreamEnds(c) ==
  /\ stream[c] \in {"select", "write"}
  /\ stream' = [stream EXCEPT ![c] = "leave"]
  /\ UNCHANGED <<subscribers, channel, got, pub>>

(* The cancel function; a channel is closed once. *)
Unsubscribe(c) ==
  /\ stream[c] = "leave" /\ Lockable
  /\ subscribers' = subscribers \ {c}
  /\ channel' = [channel EXCEPT ![c] = NoChannel]
  /\ stream' = [stream EXCEPT ![c] = "none"]
  /\ UNCHANGED <<got, pub>>

-----------------------------------------------------------------------------
PublishStep(k) ==
  \/ \E c \in Client : Send(k, c)
  \/ DropOld(k)
  \/ Retry(k)
  \/ EndPublish(k)

StreamStep(c) ==
  Receive(c) \/ Written(c) \/ StreamEnds(c) \/ Unsubscribe(c)

(* A worker never sends to a channel that has been closed, which would end *)
(* the process with all its uploads: whoever is still to be served or at   *)
(* hand is subscribed, and nobody else is.                                 *)
NoSendToClosed ==
  /\ \A k \in Worker : \A c \in pub[k].todo : channel[c].open
  /\ \A c \in Client : c \in subscribers <=> channel[c].open

(* What a client gets of a worker's events it gets in their order, though  *)
(* events are dropped from a full channel and other workers fill it.       *)
InOrder ==
  [][\A c \in Client, k \in Worker :
       c \in subscribers /\ c \in subscribers' => got[c][k] <= got'[c][k]]_hubVars

(* Publishing never waits for a client: it is over soon, even if no client *)
(* takes anything any more.                                                *)
PublishEnds == \A k \in Worker : Reading(k) ~> ~Reading(k)

=============================================================================
