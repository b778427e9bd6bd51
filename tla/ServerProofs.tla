---------------------------- MODULE ServerProofs ----------------------------
(***************************************************************************)
(* Theorems about Server and the EventHub in it, for any number of         *)
(* processes, tables, workers, clients and events, and their proofs.       *)
(***************************************************************************)
EXTENDS Server, TLAPS

-----------------------------------------------------------------------------
(* The inductive invariant.                                                *)

(* Publish serves subscribers only, and the lock it holds keeps them       *)
(* subscribed: a worker that does not hold it has nobody left to serve.    *)
PubSound(k) ==
  /\ pub[k].todo \subseteq subscribers
  /\ pub[k].pc = "idle" => pub[k].todo = {}
  /\ pub[k].pc # "idle" => pub[k].number > 0
  /\ pub[k].pc \in {"drop", "retry"} => pub[k].at \in pub[k].todo

(* The events of a worker lie in a channel in their order, none of them    *)
(* older than what the client has got of this worker already.              *)
QueueSorted(c) ==
  LET queue == channel[c].queue
  IN  /\ \A i \in DOMAIN queue :
           /\ got[c][queue[i].worker] <= queue[i].number
           /\ queue[i].number <= pub[queue[i].worker].number
      /\ \A i, j \in DOMAIN queue :
           i <= j /\ queue[i].worker = queue[j].worker =>
             queue[i].number <= queue[j].number
      /\ \A k \in Worker : got[c][k] <= pub[k].number

(* The lock of the schema has one holder, which is the only one to create  *)
(* a table; what it has not looked for is all that may be missing, and     *)
(* whoever has held it finds every table.                                  *)
SchemaSound ==
  /\ \A p \in Process :
       /\ creating[p] # {} => stage[p] = "creating"
       /\ creating[p] \cap tables = {}
       /\ \A t, u \in creating[p] : t = u
       /\ stage[p] = "creating" => Table \subseteq tables \cup unseen[p] \cup creating[p]
       /\ stage[p] \in {"checking"} \cup Up => tables = Table
  /\ \A p, q \in Process : stage[p] = "creating" /\ stage[q] = "creating" => p = q

HubInv ==
  /\ HubTypeOK
  /\ \A k \in Worker : PubSound(k)
  /\ \A c \in Client : /\ c \in subscribers <=> channel[c].open
                       /\ c \in subscribers <=> stream[c] # "none"
  /\ \A c \in subscribers : QueueSorted(c)

MainInv ==
  /\ tables \subseteq Table
  /\ stage \in [Process -> {"down", "locking", "creating", "checking"} \cup Up]
  /\ creating \in [Process -> SUBSET Table]
  /\ unseen \in [Process -> SUBSET Table]
  /\ background \in [Process -> BOOLEAN]
  /\ late \in [Process -> BOOLEAN]
  /\ SchemaSound

IInv == HubInv /\ MainInv

-----------------------------------------------------------------------------
(* Bounded queues.                                                         *)

Queue == UNION {[1 .. n -> Event] : n \in 0 .. Buffer}

LEMMA QueueIsSeq ==
  ASSUME NEW queue
  PROVE  queue \in Queue <=> queue \in Seq(Event) /\ Len(queue) <= Buffer
<1>1. ASSUME queue \in Queue PROVE queue \in Seq(Event) /\ Len(queue) <= Buffer
  <2>1. PICK n \in 0 .. Buffer : queue \in [1 .. n -> Event]
    BY <1>1 DEF Queue
  <2>2. n \in Nat /\ n <= Buffer
    BY HubAssumption
  <2>3. QED
    BY <2>1, <2>2
<1>2. ASSUME queue \in Seq(Event), Len(queue) <= Buffer PROVE queue \in Queue
  <2>1. queue \in [1 .. Len(queue) -> Event] /\ Len(queue) \in 0 .. Buffer
    BY <1>2, HubAssumption
  <2>2. QED
    BY <2>1 DEF Queue
<1>3. QED
  BY <1>1, <1>2

LEMMA ChannelIs == Channel = [open : BOOLEAN, queue : Queue]
BY DEF Channel, Queue

LEMMA QueueEvents ==
  ASSUME NEW queue \in Queue
  PROVE  \A i \in DOMAIN queue : queue[i] \in Event
BY DEF Queue

LEMMA EmptyQueue == <<>> \in Queue
<1>1. <<>> \in Seq(Event) /\ Len(<<>>) <= Buffer
  BY HubAssumption
<1>2. QED
  BY <1>1, QueueIsSeq, Zenon

LEMMA QueueAppend ==
  ASSUME NEW queue \in Queue, Len(queue) < Buffer, NEW event \in Event
  PROVE  /\ Append(queue, event) \in Queue
         /\ \A i \in DOMAIN Append(queue, event) :
              Append(queue, event)[i] =
                IF i \in DOMAIN queue THEN queue[i] ELSE event
         /\ \A i \in DOMAIN Append(queue, event) : \A j \in DOMAIN Append(queue, event) :
              i <= j /\ i \notin DOMAIN queue => j \notin DOMAIN queue
<1>1. queue \in Seq(Event) /\ Len(queue) \in Nat
  BY QueueIsSeq
<1>2. Append(queue, event) \in Seq(Event) /\ Len(Append(queue, event)) = Len(queue) + 1
  BY <1>1
<1>3. Append(queue, event) \in Queue
  <2>1. Len(Append(queue, event)) <= Buffer
    BY <1>1, <1>2, HubAssumption
  <2>2. QED
    BY <1>2, <2>1, QueueIsSeq, Zenon
<1>4. DOMAIN queue = 1 .. Len(queue) /\ DOMAIN Append(queue, event) = 1 .. Len(queue) + 1
  BY <1>1, <1>2
<1>5. QED
  BY <1>1, <1>3, <1>4

LEMMA QueueTail ==
  ASSUME NEW queue \in Queue, queue # <<>>
  PROVE  /\ Tail(queue) \in Queue
         /\ 1 \in DOMAIN queue /\ Head(queue) = queue[1] /\ Head(queue) \in Event
         /\ \A i \in DOMAIN Tail(queue) :
              /\ i \in Nat /\ i + 1 \in DOMAIN queue
              /\ Tail(queue)[i] = queue[i + 1]
         /\ \A i \in DOMAIN queue : i \in Nat /\ 1 <= i
<1>1. queue \in Seq(Event) /\ Len(queue) \in Nat /\ Len(queue) # 0
  BY QueueIsSeq
<1>2. Tail(queue) \in Seq(Event) /\ Len(Tail(queue)) = Len(queue) - 1
  BY <1>1
<1>3. Tail(queue) \in Queue
  <2>1. Len(queue) <= Buffer
    BY QueueIsSeq
  <2>2. Len(Tail(queue)) <= Buffer
    BY <1>1, <1>2, <2>1, HubAssumption
  <2>3. QED
    BY <1>2, <2>2, QueueIsSeq, Zenon
<1>4. DOMAIN queue = 1 .. Len(queue) /\ DOMAIN Tail(queue) = 1 .. Len(queue) - 1
  BY <1>1, <1>2
<1>5. QED
  BY <1>1, <1>3, <1>4

-----------------------------------------------------------------------------
(* The channel of one client.                                              *)

LEMMA ChannelType ==
  ASSUME HubInv
  PROVE  \A c \in Client : /\ channel[c] = [open |-> channel[c].open, queue |-> channel[c].queue]
                           /\ channel[c].open \in BOOLEAN /\ channel[c].queue \in Queue
                           /\ \A i \in DOMAIN channel[c].queue :
                                /\ channel[c].queue[i].worker \in Worker
                                /\ channel[c].queue[i].number \in Nat
<1>1. \A c \in Client : channel[c] \in Channel
  BY DEF HubInv, HubTypeOK
<1>2. \A c \in Client : /\ channel[c] = [open |-> channel[c].open, queue |-> channel[c].queue]
                        /\ channel[c].open \in BOOLEAN /\ channel[c].queue \in Queue
  BY <1>1, ChannelIs
<1>3. \A c \in Client : \A i \in DOMAIN channel[c].queue : channel[c].queue[i] \in Event
  BY <1>2, QueueEvents
<1>4. QED
  BY <1>2, <1>3, HubAssumption DEF Event

(* The numbers of the workers and those a client has got. *)
LEMMA Numbers ==
  ASSUME HubInv
  PROVE  /\ \A k \in Worker : pub[k].number \in Nat /\ pub[k].number <= MaxEvents
         /\ \A c \in Client, k \in Worker : got[c][k] \in Nat
BY HubAssumption DEF HubInv, HubTypeOK, Pub

(* A queue that is left alone stays sorted while events are published.     *)
LEMMA QueueKept ==
  ASSUME HubInv, NEW c \in subscribers, channel'[c].queue = channel[c].queue, got'[c] = got[c],
         \A k \in Worker : pub'[k].number \in Nat /\ pub[k].number <= pub'[k].number
  PROVE  QueueSorted(c)'
<1>1. c \in Client /\ QueueSorted(c)
  BY DEF HubInv, HubTypeOK
<1>2. ASSUME NEW k \in Worker, NEW n \in Nat, n <= pub[k].number
      PROVE  n <= pub'[k].number
  BY <1>2, Numbers
<1>3. QED
  BY <1>1, <1>2, ChannelType, Numbers DEF QueueSorted

(* An event that is put at the end. *)
LEMMA QueuePut ==
  ASSUME HubInv, NEW k \in Worker, pub[k].number > 0, NEW c \in subscribers,
         HasSpace(c), Put(k, c), got' = got,
         \A j \in Worker : pub'[j].number = pub[j].number
  PROVE  /\ channel' \in [Client -> Channel]
         /\ \A d \in Client : channel'[d].open = channel[d].open
         /\ \A d \in Client \ {c} : channel'[d] = channel[d]
         /\ QueueSorted(c)'
<1> DEFINE queue == channel[c].queue
           event == [worker |-> k, number |-> pub[k].number]
<1>1. /\ c \in Client /\ QueueSorted(c) /\ channel \in [Client -> Channel]
      /\ queue \in Queue /\ Len(queue) < Buffer
  BY ChannelType DEF HubInv, HubTypeOK, HasSpace
<1>2. event \in Event
  BY Numbers DEF Event
<1>3. channel'[c].open = channel[c].open /\ channel'[c].queue = Append(queue, event)
  BY <1>1 DEF Put, Channel
<1>4. \A d \in Client \ {c} : channel'[d] = channel[d]
  BY <1>1 DEF Put
<1>5. Append(queue, event) \in Queue
  BY <1>1, <1>2, QueueAppend
<1>6. channel' \in [Client -> Channel]
  <2>1. [channel[c] EXCEPT !.queue = Append(queue, event)] \in Channel
    BY <1>1, <1>5, ChannelIs
  <2>2. channel' = [channel EXCEPT ![c] = [channel[c] EXCEPT !.queue = Append(queue, event)]]
    BY <1>1 DEF Put
  <2>3. QED
    BY <1>1, <2>1, <2>2
<1>7. QueueSorted(c)'
  <2> DEFINE new == Append(queue, event)
  <2>1. /\ \A i \in DOMAIN new : new[i] = IF i \in DOMAIN queue THEN queue[i] ELSE event
        /\ \A i \in DOMAIN new : \A j \in DOMAIN new :
             i <= j /\ i \notin DOMAIN queue => j \notin DOMAIN queue
    BY <1>1, <1>2, QueueAppend
  <2>2. \A i \in DOMAIN queue : /\ queue[i].worker \in Worker
                                /\ got[c][queue[i].worker] <= queue[i].number
                                /\ queue[i].number <= pub[queue[i].worker].number
    BY <1>1, ChannelType DEF QueueSorted
  <2>3. \A i, j \in DOMAIN queue : i <= j /\ queue[i].worker = queue[j].worker =>
          queue[i].number <= queue[j].number
    BY <1>1 DEF QueueSorted
  <2>4. event.worker = k /\ event.number = pub[k].number
    OBVIOUS
  <2>5. \A j \in Worker : got[c][j] <= pub[j].number
    BY <1>1 DEF QueueSorted
  <2> HIDE DEF new, event, queue
  <2>6. \A i \in DOMAIN new : /\ new[i].worker \in Worker
                              /\ got[c][new[i].worker] <= new[i].number
                              /\ new[i].number <= pub[new[i].worker].number
    BY <2>1, <2>2, <2>4, <2>5, Numbers
  <2>7. ASSUME NEW i \in DOMAIN new, NEW j \in DOMAIN new, i <= j, new[i].worker = new[j].worker
        PROVE  new[i].number <= new[j].number
    <3>1. CASE i \in DOMAIN queue /\ j \in DOMAIN queue
      BY <2>1, <2>3, <2>7, <3>1
    <3>2. CASE i \in DOMAIN queue /\ j \notin DOMAIN queue
      BY <2>1, <2>2, <2>4, <2>7, <3>2
    <3>3. CASE i \notin DOMAIN queue
      BY <2>1, <2>4, <2>7, <3>3, Numbers
    <3>4. QED
      BY <3>1, <3>2, <3>3
  <2>8. channel'[c].queue = new
    BY <1>3 DEF new
  <2>9. QED
    BY <2>5, <2>6, <2>7, <2>8 DEF QueueSorted
<1>8. QED
  BY <1>3, <1>4, <1>6, <1>7

(* The first event is taken out, by the client or to make room. *)
LEMMA QueueTaken ==
  ASSUME HubInv, NEW c \in subscribers, channel[c].queue # <<>>,
         channel' = [channel EXCEPT ![c].queue = Tail(channel[c].queue)],
         \/ got' = got
         \/ got' = [got EXCEPT ![c][Head(channel[c].queue).worker] =
                                   Head(channel[c].queue).number],
         \A j \in Worker : pub'[j].number = pub[j].number
  PROVE  /\ channel' \in [Client -> Channel]
         /\ \A d \in Client : channel'[d].open = channel[d].open
         /\ \A d \in Client \ {c} : channel'[d] = channel[d]
         /\ got' \in [Client -> [Worker -> 0 .. MaxEvents]]
         /\ \A k \in Worker : got[c][k] <= got'[c][k]
         /\ \A d \in Client \ {c} : got'[d] = got[d]
         /\ QueueSorted(c)'
<1> DEFINE queue == channel[c].queue
<1>1. /\ c \in Client /\ QueueSorted(c) /\ channel \in [Client -> Channel]
      /\ queue \in Queue /\ queue # <<>> /\ got \in [Client -> [Worker -> 0 .. MaxEvents]]
  BY ChannelType DEF HubInv, HubTypeOK
<1>2. /\ Tail(queue) \in Queue
      /\ 1 \in DOMAIN queue /\ Head(queue) = queue[1] /\ Head(queue) \in Event
      /\ \A i \in DOMAIN Tail(queue) :
           /\ i \in Nat /\ i + 1 \in DOMAIN queue
           /\ Tail(queue)[i] = queue[i + 1]
      /\ \A i \in DOMAIN queue : i \in Nat /\ 1 <= i
  BY <1>1, QueueTail
<1>3. channel'[c].open = channel[c].open /\ channel'[c].queue = Tail(queue)
  BY <1>1 DEF Channel
<1>4. \A d \in Client \ {c} : channel'[d] = channel[d]
  BY <1>1
<1>5. channel' \in [Client -> Channel]
  <2>1. [channel[c] EXCEPT !.queue = Tail(queue)] \in Channel
    BY <1>1, <1>2, ChannelIs
  <2>2. channel' = [channel EXCEPT ![c] = [channel[c] EXCEPT !.queue = Tail(queue)]]
    BY <1>1
  <2>3. QED
    BY <1>1, <2>1, <2>2
<1>6. \A i \in DOMAIN queue : /\ queue[i].worker \in Worker /\ queue[i].number \in Nat
                              /\ got[c][queue[i].worker] <= queue[i].number
                              /\ queue[i].number <= pub[queue[i].worker].number
  BY <1>1, ChannelType DEF QueueSorted
<1>7. \A i, j \in DOMAIN queue : i <= j /\ queue[i].worker = queue[j].worker =>
        queue[i].number <= queue[j].number
  BY <1>1 DEF QueueSorted
<1>8. \A k \in Worker : \/ got'[c][k] = got[c][k]
                        \/ k = queue[1].worker /\ got'[c][k] = queue[1].number
  BY <1>1, <1>2
<1>9. Head(queue).worker \in Worker /\ Head(queue).number \in 0 .. MaxEvents
  BY <1>2, HubAssumption DEF Event
<1>10. got' \in [Client -> [Worker -> 0 .. MaxEvents]] /\ \A d \in Client \ {c} : got'[d] = got[d]
  <2>1. CASE got' = got
    BY <1>1, <2>1
  <2>2. CASE got' = [got EXCEPT ![c][Head(queue).worker] = Head(queue).number]
    BY <1>1, <1>9, <2>2
  <2>3. QED
    BY <2>1, <2>2
<1>11. \A k \in Worker : got[c][k] <= got'[c][k] /\ got'[c][k] <= pub[k].number
  <2>1. \A k \in Worker : got[c][k] <= pub[k].number
    BY <1>1 DEF QueueSorted
  <2>2. QED
    BY <1>1, <1>2, <1>6, <1>8, <2>1, Numbers
<1>12. QueueSorted(c)'
  <2> DEFINE new == Tail(queue)
  <2>1. ASSUME NEW i \in DOMAIN new
        PROVE  /\ new[i].worker \in Worker
               /\ got'[c][new[i].worker] <= new[i].number
               /\ new[i].number <= pub[new[i].worker].number
    <3>1. /\ i + 1 \in DOMAIN queue /\ new[i] = queue[i + 1]
          /\ 1 \in DOMAIN queue /\ 1 <= i + 1
      BY <1>2
    <3>2. queue[1].worker = new[i].worker => queue[1].number <= new[i].number
      BY <1>7, <3>1
    <3>3. QED
      BY <1>6, <1>8, <3>1, <3>2
  <2>2. ASSUME NEW i \in DOMAIN new, NEW j \in DOMAIN new, i <= j, new[i].worker = new[j].worker
        PROVE  new[i].number <= new[j].number
    <3>1. /\ i + 1 \in DOMAIN queue /\ j + 1 \in DOMAIN queue /\ i + 1 <= j + 1
          /\ new[i] = queue[i + 1] /\ new[j] = queue[j + 1]
      BY <1>2, <2>2
    <3>2. QED
      BY <1>7, <2>2, <3>1
  <2> HIDE DEF new
  <2>3. channel'[c].queue = new
    BY <1>3 DEF new
  <2>4. QED
    BY <1>11, <2>1, <2>2, <2>3 DEF QueueSorted
<1>13. QED
  BY <1>3, <1>4, <1>5, <1>10, <1>11, <1>12

-----------------------------------------------------------------------------
(* The steps of the hub.                                                   *)

OrderKept ==
  \A c \in Client, k \in Worker :
    c \in subscribers /\ c \in subscribers' => got[c][k] <= got'[c][k]

LEMMA BeginPublishInv ==
  ASSUME HubInv, NEW k \in Worker, BeginPublish(k)
  PROVE  HubInv' /\ OrderKept
<1>1. /\ pub \in [Worker -> Pub] /\ subscribers \subseteq Client /\ pub[k] \in Pub
      /\ \A j \in Worker : PubSound(j)
  BY DEF HubInv, HubTypeOK
<1> DEFINE new == [pub[k] EXCEPT !.pc = "send", !.todo = subscribers,
                                 !.number = pub[k].number + 1]
<1>2. pub' = [pub EXCEPT ![k] = new]
  BY DEF BeginPublish
<1>3. pub[k].number + 1 \in 0 .. MaxEvents /\ pub[k].number + 1 > 0
  BY Numbers, HubAssumption DEF BeginPublish
<1>4. new \in Pub
  BY <1>1, <1>3 DEF Pub
<1>5. new.pc = "send" /\ new.todo = subscribers /\ new.number = pub[k].number + 1
  BY <1>1 DEF Pub
<1> HIDE DEF new
<1>6. pub' \in [Worker -> Pub] /\ pub'[k] = new /\ \A j \in Worker \ {k} : pub'[j] = pub[j]
  BY <1>1, <1>2, <1>4
<1>7. \A j \in Worker : PubSound(j)'
  BY <1>1, <1>3, <1>5, <1>6 DEF PubSound, BeginPublish
<1>8. \A j \in Worker : pub'[j].number \in Nat /\ pub[j].number <= pub'[j].number
  BY <1>5, <1>6, Numbers
<1>9. \A c \in subscribers : QueueSorted(c)'
  BY <1>8, QueueKept DEF BeginPublish
<1>10. OrderKept
  BY Numbers DEF BeginPublish, OrderKept
<1>11. QED
  BY <1>6, <1>7, <1>9, <1>10 DEF HubInv, HubTypeOK, BeginPublish

(* A step of Publish changes the worker and at most one channel. *)
LEMMA PublishFrame ==
  ASSUME HubInv, NEW k \in Worker,
         UNCHANGED <<subscribers, stream, got>>,
         NEW new \in Pub, pub' = [pub EXCEPT ![k] = new],
         new.number = pub[k].number, new.todo \subseteq subscribers,
         new.pc = "idle" => new.todo = {},
         new.number > 0,
         new.pc \in {"drop", "retry"} => new.at \in new.todo,
         channel' \in [Client -> Channel],
         \A c \in Client : channel'[c].open = channel[c].open,
         \A c \in subscribers : channel'[c] = channel[c] \/ QueueSorted(c)'
  PROVE  HubInv' /\ OrderKept
<1>1. /\ pub \in [Worker -> Pub] /\ subscribers \subseteq Client
      /\ \A j \in Worker : PubSound(j)
  BY DEF HubInv, HubTypeOK
<1>2. pub' \in [Worker -> Pub] /\ pub'[k] = new /\ \A j \in Worker \ {k} : pub'[j] = pub[j]
  BY <1>1
<1>3. \A j \in Worker : PubSound(j)'
  BY <1>1, <1>2 DEF PubSound
<1>4. \A j \in Worker : pub'[j].number \in Nat /\ pub[j].number <= pub'[j].number
  BY <1>2, Numbers
<1>5. \A c \in subscribers : QueueSorted(c)'
  BY <1>4, QueueKept
<1>6. OrderKept
  BY Numbers DEF OrderKept
<1>7. QED
  BY <1>2, <1>3, <1>5, <1>6 DEF HubInv, HubTypeOK

LEMMA SendInv ==
  ASSUME HubInv, NEW k \in Worker, NEW c \in Client, Send(k, c)
  PROVE  HubInv' /\ OrderKept
<1>1. /\ pub \in [Worker -> Pub] /\ subscribers \subseteq Client /\ pub[k] \in Pub
      /\ channel \in [Client -> Channel] /\ PubSound(k)
  BY DEF HubInv, HubTypeOK
<1>2. c \in subscribers /\ pub[k].number > 0 /\ pub[k].todo \in SUBSET Client
  BY <1>1 DEF PubSound, Send, Pub
<1>3. CASE HasSpace(c) /\ Put(k, c) /\ Served(k, c)
  <2> DEFINE new == [pub[k] EXCEPT !.pc = "send", !.todo = pub[k].todo \ {c},
                                   !.at = NoClient]
  <2>1. pub' = [pub EXCEPT ![k] = new]
    BY <1>3 DEF Served
  <2>2. new \in Pub
    BY <1>1, <1>2 DEF Pub
  <2>3. new.pc = "send" /\ new.todo = pub[k].todo \ {c} /\ new.number = pub[k].number
    BY <1>1 DEF Pub
  <2> HIDE DEF new
  <2>4. \A j \in Worker : pub'[j].number = pub[j].number
    BY <1>1, <2>1, <2>3
  <2>5. /\ channel' \in [Client -> Channel]
        /\ \A d \in Client : channel'[d].open = channel[d].open
        /\ \A d \in Client \ {c} : channel'[d] = channel[d]
        /\ QueueSorted(c)'
    BY <1>3, <1>2, <2>4, QueuePut DEF Send
  <2>6. new.todo \subseteq subscribers /\ new.number > 0
    BY <1>1, <1>2, <2>3 DEF PubSound
  <2>7. UNCHANGED <<subscribers, stream, got>>
    BY DEF Send
  <2>8. \A d \in subscribers : channel'[d] = channel[d] \/ QueueSorted(d)'
    BY <1>1, <2>5
  <2>9. QED
    BY <2>1, <2>2, <2>3, <2>5, <2>6, <2>7, <2>8, PublishFrame
<1>4. CASE /\ pub' = [pub EXCEPT ![k] = [pub[k] EXCEPT !.pc = "drop", !.at = c]]
           /\ UNCHANGED channel
  <2> DEFINE new == [pub[k] EXCEPT !.pc = "drop", !.at = c]
  <2>1. new \in Pub
    BY <1>1 DEF Pub
  <2>2. /\ new.pc = "drop" /\ new.todo = pub[k].todo /\ new.number = pub[k].number
        /\ new.at = c
    BY <1>1 DEF Pub
  <2>3. pub' = [pub EXCEPT ![k] = new]
    BY <1>4
  <2> HIDE DEF new
  <2>4. new.todo \subseteq subscribers /\ new.number > 0 /\ new.at \in new.todo
    BY <1>1, <1>2, <2>2 DEF PubSound, Send
  <2>5. UNCHANGED <<subscribers, stream, got>>
    BY DEF Send
  <2>6. QED
    BY <1>1, <1>4, <2>1, <2>2, <2>3, <2>4, <2>5, PublishFrame
<1>5. QED
  BY <1>3, <1>4 DEF Send

LEMMA DropOldInv ==
  ASSUME HubInv, NEW k \in Worker, DropOld(k)
  PROVE  HubInv' /\ OrderKept
<1> DEFINE c == pub[k].at
           new == [pub[k] EXCEPT !.pc = "retry"]
<1>1. /\ pub \in [Worker -> Pub] /\ subscribers \subseteq Client /\ pub[k] \in Pub
      /\ channel \in [Client -> Channel] /\ PubSound(k)
  BY DEF HubInv, HubTypeOK
<1>2. c \in pub[k].todo /\ c \in subscribers /\ pub[k].number > 0
  BY <1>1 DEF PubSound, DropOld
<1>3. new \in Pub
  BY <1>1 DEF Pub
<1>4. /\ new.pc = "retry" /\ new.todo = pub[k].todo /\ new.number = pub[k].number
      /\ new.at = c
  BY <1>1 DEF Pub
<1>5. pub' = [pub EXCEPT ![k] = new]
  BY <1>1 DEF DropOld
<1> HIDE DEF new
<1>6. \A j \in Worker : pub'[j].number = pub[j].number
  BY <1>1, <1>4, <1>5
<1>7. /\ channel' \in [Client -> Channel]
      /\ \A d \in Client : channel'[d].open = channel[d].open
      /\ \A d \in subscribers : channel'[d] = channel[d] \/ QueueSorted(d)'
  <2>1. CASE channel[c].queue = <<>>
    BY <1>1, <2>1 DEF DropOld
  <2>2. CASE channel[c].queue # <<>>
    <3>1. channel' = [channel EXCEPT ![c].queue = Tail(channel[c].queue)] /\ got' = got
      BY <1>1, <1>2, <2>2 DEF DropOld, Dropped
    <3>2. QED
      BY <1>1, <1>2, <1>6, <2>2, <3>1, QueueTaken
  <2>3. QED
    BY <2>1, <2>2
<1>8. new.todo \subseteq subscribers /\ new.number > 0 /\ new.at \in new.todo
  BY <1>1, <1>2, <1>4 DEF PubSound
<1>9. UNCHANGED <<subscribers, stream, got>>
  BY DEF DropOld
<1>10. QED
  BY <1>3, <1>4, <1>5, <1>7, <1>8, <1>9, PublishFrame

LEMMA RetryInv ==
  ASSUME HubInv, NEW k \in Worker, Retry(k)
  PROVE  HubInv' /\ OrderKept
<1> DEFINE c == pub[k].at
           new == [pub[k] EXCEPT !.pc = "send", !.todo = pub[k].todo \ {c},
                                 !.at = NoClient]
<1>1. /\ pub \in [Worker -> Pub] /\ subscribers \subseteq Client /\ pub[k] \in Pub
      /\ channel \in [Client -> Channel] /\ PubSound(k)
  BY DEF HubInv, HubTypeOK
<1>2. /\ c \in pub[k].todo /\ c \in subscribers /\ pub[k].number > 0
      /\ pub[k].todo \in SUBSET Client
  BY <1>1 DEF PubSound, Retry, Pub
<1>3. new \in Pub
  BY <1>1, <1>2 DEF Pub
<1>4. new.pc = "send" /\ new.todo = pub[k].todo \ {c} /\ new.number = pub[k].number
  BY <1>1 DEF Pub
<1>5. pub' = [pub EXCEPT ![k] = new]
  BY DEF Retry, Served
<1> HIDE DEF new
<1>6. \A j \in Worker : pub'[j].number = pub[j].number
  BY <1>1, <1>4, <1>5
<1>7. /\ channel' \in [Client -> Channel]
      /\ \A d \in Client : channel'[d].open = channel[d].open
      /\ \A d \in subscribers : channel'[d] = channel[d] \/ QueueSorted(d)'
  <2>1. CASE ~HasSpace(c)
    BY <1>1, <2>1 DEF Retry
  <2>2. CASE HasSpace(c)
    <3>1. Put(k, c) /\ got' = got
      BY <2>2 DEF Retry
    <3>2. QED
      BY <1>1, <1>2, <1>6, <2>2, <3>1, QueuePut
  <2>3. QED
    BY <2>1, <2>2
<1>8. new.todo \subseteq subscribers /\ new.number > 0
  BY <1>1, <1>2, <1>4 DEF PubSound
<1>9. UNCHANGED <<subscribers, stream, got>>
  BY DEF Retry
<1>10. QED
  BY <1>3, <1>4, <1>5, <1>7, <1>8, <1>9, PublishFrame

LEMMA EndPublishInv ==
  ASSUME HubInv, NEW k \in Worker, EndPublish(k)
  PROVE  HubInv' /\ OrderKept
<1> DEFINE new == [pub[k] EXCEPT !.pc = "idle"]
<1>1. /\ pub \in [Worker -> Pub] /\ pub[k] \in Pub
      /\ channel \in [Client -> Channel] /\ PubSound(k)
  BY DEF HubInv, HubTypeOK
<1>2. new \in Pub
  BY <1>1 DEF Pub
<1>3. new.pc = "idle" /\ new.todo = {} /\ new.number = pub[k].number /\ new.number > 0
  BY <1>1 DEF Pub, EndPublish, PubSound
<1>4. pub' = [pub EXCEPT ![k] = new] /\ UNCHANGED <<subscribers, stream, got, channel>>
  BY <1>1 DEF EndPublish
<1> HIDE DEF new
<1>5. QED
  BY <1>1, <1>2, <1>3, <1>4, PublishFrame

(* With the lock for writing nobody is being served. *)
LEMMA NobodyServed ==
  ASSUME HubInv, Lockable
  PROVE  \A k \in Worker : pub[k].pc = "idle" /\ pub[k].todo = {}
BY DEF HubInv, PubSound, Lockable, Reading

LEMMA SubscribeInv ==
  ASSUME HubInv, NEW c \in Client, Subscribe(c)
  PROVE  HubInv' /\ OrderKept
<1>1. /\ HubTypeOK /\ \A k \in Worker : PubSound(k)
      /\ c \notin subscribers
      /\ \A d \in subscribers : QueueSorted(d)
      /\ \A d \in Client : (d \in subscribers <=> channel[d].open)
                         /\ (d \in subscribers <=> stream[d] # "none")
  BY DEF HubInv, Subscribe
<1>2. \A d \in subscribers : d \in Client
  BY <1>1 DEF HubTypeOK
<1>3. [open |-> TRUE, queue |-> <<>>] \in Channel
  BY EmptyQueue, ChannelIs
<1>4. [k \in Worker |-> 0] \in [Worker -> 0 .. MaxEvents]
  BY HubAssumption
<1>5. HubTypeOK'
  BY <1>1, <1>3, <1>4 DEF HubTypeOK, Subscribe
<1>6. \A k \in Worker : PubSound(k)'
  BY <1>1, NobodyServed DEF PubSound, Subscribe
<1>7. /\ channel'[c].open /\ channel'[c].queue = <<>> /\ stream'[c] = "select"
      /\ \A k \in Worker : got'[c][k] = 0
      /\ \A d \in Client \ {c} : /\ channel'[d] = channel[d] /\ got'[d] = got[d]
                                 /\ stream'[d] = stream[d]
  BY <1>1 DEF Subscribe, HubTypeOK
<1>8. \A d \in subscribers : QueueSorted(d)'
  <2>1. \A k \in Worker : pub'[k].number \in Nat /\ pub[k].number <= pub'[k].number
    BY Numbers DEF Subscribe
  <2>2. QED
    BY <1>1, <1>2, <1>7, <2>1, QueueKept
<1>9. QueueSorted(c)'
  <2>1. DOMAIN channel'[c].queue = {}
    BY <1>7
  <2>2. \A k \in Worker : got'[c][k] <= pub'[k].number
    BY <1>7, Numbers DEF Subscribe
  <2>3. QED
    BY <2>1, <2>2 DEF QueueSorted
<1>10. OrderKept
  BY <1>1, <1>7, Numbers DEF OrderKept
<1>11. subscribers' = subscribers \cup {c}
  BY DEF Subscribe
<1>12. QED
  BY <1>1, <1>5, <1>6, <1>7, <1>8, <1>9, <1>10, <1>11 DEF HubInv

LEMMA ReceiveInv ==
  ASSUME HubInv, NEW c \in Client, Receive(c)
  PROVE  HubInv' /\ OrderKept
<1> DEFINE event == Head(channel[c].queue)
<1>1. /\ HubTypeOK /\ c \in subscribers
      /\ \A d \in subscribers : d \in Client
  <2>1. HubTypeOK /\ c \in subscribers
    BY DEF HubInv, Receive
  <2>2. QED
    BY <2>1 DEF HubTypeOK
<1>2. /\ channel[c].queue # <<>>
      /\ channel' = [channel EXCEPT ![c].queue = Tail(channel[c].queue)]
      /\ got' = [got EXCEPT ![c][event.worker] = event.number]
      /\ \A j \in Worker : pub'[j].number = pub[j].number
  BY <1>1 DEF Receive, HubTypeOK
<1>3. /\ channel' \in [Client -> Channel]
      /\ \A d \in Client : channel'[d].open = channel[d].open
      /\ \A d \in Client \ {c} : channel'[d] = channel[d]
      /\ got' \in [Client -> [Worker -> 0 .. MaxEvents]]
      /\ \A k \in Worker : got[c][k] <= got'[c][k]
      /\ \A d \in Client \ {c} : got'[d] = got[d]
      /\ QueueSorted(c)'
  BY <1>1, <1>2, QueueTaken
<1>4. \A k \in Worker : pub'[k].number \in Nat /\ pub[k].number <= pub'[k].number
  BY Numbers DEF Receive
<1>5. \A d \in subscribers : QueueSorted(d)'
  BY <1>1, <1>3, <1>4, QueueKept
<1>6. \A k \in Worker : PubSound(k)'
  BY DEF HubInv, PubSound, Receive
<1>7. HubTypeOK'
  BY <1>1, <1>3 DEF HubTypeOK, Receive
<1>8. stream' = [stream EXCEPT ![c] = "write"] /\ stream[c] = "select" /\ subscribers' = subscribers
  BY DEF Receive
<1>9. \A d \in Client : stream'[d] # "none" <=> stream[d] # "none"
  BY <1>1, <1>8 DEF HubTypeOK
<1>10. OrderKept
  BY <1>1, <1>3, Numbers DEF OrderKept
<1>11. QED
  BY <1>3, <1>5, <1>6, <1>7, <1>8, <1>9, <1>10 DEF HubInv

LEMMA HandlerInv ==
  ASSUME HubInv, NEW c \in Client, Written(c) \/ StreamEnds(c)
  PROVE  HubInv' /\ OrderKept
<1>1. HubTypeOK /\ \A d \in subscribers : d \in Client
  BY DEF HubInv, HubTypeOK
<1>2. UNCHANGED <<subscribers, channel, got, pub>>
  BY DEF Written, StreamEnds
<1>3. /\ stream' \in [Client -> {"none", "select", "write", "leave"}]
      /\ \A d \in Client : stream'[d] # "none" <=> stream[d] # "none"
  BY <1>1 DEF HubTypeOK, Written, StreamEnds
<1>4. \A k \in Worker : PubSound(k)'
  BY <1>2 DEF HubInv, PubSound
<1>5. \A d \in subscribers : QueueSorted(d)'
  BY <1>2 DEF HubInv, QueueSorted
<1>6. OrderKept
  BY <1>2, Numbers DEF OrderKept
<1>7. QED
  BY <1>1, <1>2, <1>3, <1>4, <1>5, <1>6 DEF HubInv, HubTypeOK

LEMMA UnsubscribeInv ==
  ASSUME HubInv, NEW c \in Client, Unsubscribe(c)
  PROVE  HubInv' /\ OrderKept
<1>1. HubTypeOK /\ \A d \in subscribers : d \in Client
  BY DEF HubInv, HubTypeOK
<1>2. NoChannel \in Channel /\ ~NoChannel.open
  BY EmptyQueue, ChannelIs DEF NoChannel
<1>3. HubTypeOK'
  BY <1>1, <1>2 DEF HubTypeOK, Unsubscribe
<1>4. \A k \in Worker : PubSound(k)'
  BY NobodyServed DEF HubInv, PubSound, Unsubscribe
<1>5. /\ ~channel'[c].open /\ stream'[c] = "none" /\ subscribers' = subscribers \ {c}
      /\ \A d \in Client \ {c} : channel'[d] = channel[d] /\ stream'[d] = stream[d]
      /\ got' = got /\ pub' = pub
  BY <1>1, <1>2 DEF Unsubscribe, HubTypeOK
<1>6. \A d \in subscribers' : QueueSorted(d)'
  <2>1. \A d \in subscribers \ {c} : d \in Client /\ QueueSorted(d) /\ channel'[d] = channel[d]
    BY <1>1, <1>5 DEF HubInv
  <2>2. QED
    BY <1>5, <2>1 DEF QueueSorted
<1>7. OrderKept
  BY <1>5, Numbers DEF OrderKept
<1>8. \A d \in Client : /\ d \in subscribers' <=> channel'[d].open
                        /\ d \in subscribers' <=> stream'[d] # "none"
  <2>1. \A d \in Client : /\ d \in subscribers <=> channel[d].open
                          /\ d \in subscribers <=> stream[d] # "none"
    BY DEF HubInv
  <2>2. QED
    BY <1>5, <2>1
<1>9. QED
  BY <1>3, <1>4, <1>6, <1>7, <1>8 DEF HubInv

LEMMA HubStepInv ==
  ASSUME HubInv, HubStep
  PROVE  HubInv' /\ OrderKept
BY BeginPublishInv, SendInv, DropOldInv, RetryInv, EndPublishInv, SubscribeInv,
   ReceiveInv, HandlerInv, UnsubscribeInv
DEF HubStep, Publishing, Streaming, PublishStep, StreamStep

LEMMA EmptyHub ==
  ASSUME subscribers' = {}, channel' = [c \in Client |-> NoChannel],
         stream' = [c \in Client |-> "none"],
         got' = [c \in Client |-> [k \in Worker |-> 0]],
         pub' = [k \in Worker |-> IdlePub]
  PROVE  HubInv'
<1>1. NoChannel \in Channel /\ ~NoChannel.open
  BY EmptyQueue, ChannelIs DEF NoChannel
<1>2. IdlePub \in Pub
  BY HubAssumption DEF IdlePub, Pub
<1>3. [k \in Worker |-> 0] \in [Worker -> 0 .. MaxEvents]
  BY HubAssumption
<1>4. HubTypeOK'
  BY <1>1, <1>2, <1>3 DEF HubTypeOK
<1>5. \A k \in Worker : PubSound(k)'
  BY DEF PubSound, IdlePub
<1>6. \A d \in Client : /\ d \in subscribers' <=> channel'[d].open
                        /\ d \in subscribers' <=> stream'[d] # "none"
  BY <1>1
<1>7. QED
  BY <1>4, <1>5, <1>6 DEF HubInv

LEMMA HubInitial == HubInit => HubInv
<1> SUFFICES ASSUME HubInit PROVE HubInv
  OBVIOUS
<1>1. NoChannel \in Channel /\ ~NoChannel.open
  BY EmptyQueue, ChannelIs DEF NoChannel
<1>2. IdlePub \in Pub
  BY HubAssumption DEF IdlePub, Pub
<1>3. [k \in Worker |-> 0] \in [Worker -> 0 .. MaxEvents]
  BY HubAssumption
<1>4. HubTypeOK
  BY <1>1, <1>2, <1>3 DEF HubTypeOK, HubInit
<1>5. \A k \in Worker : PubSound(k)
  BY DEF PubSound, IdlePub, HubInit
<1>6. \A d \in Client : /\ d \in subscribers <=> channel[d].open
                        /\ d \in subscribers <=> stream[d] # "none"
  BY <1>1 DEF HubInit
<1>7. subscribers = {}
  BY DEF HubInit
<1>8. QED
  BY <1>4, <1>5, <1>6, <1>7 DEF HubInv
-----------------------------------------------------------------------------
(* The steps of main.                                                      *)

LEMMA StartInv ==
  ASSUME MainInv, NEW p \in Process, StartStep(p)
  PROVE  MainInv'
<1> USE DEF MainInv, SchemaSound, Up
<1>1. CASE StartProcess(p)
  BY <1>1 DEF StartProcess
<1>2. CASE AcquireLock(p)
  <2>1. \A q \in Process : stage[q] # "creating" /\ creating[q] = {}
    BY <1>2 DEF AcquireLock, LockFree
  <2>2. QED
    BY <1>2, <2>1 DEF AcquireLock
<1>3. ASSUME NEW t \in Table, LookForTable(p, t) PROVE MainInv'
  <2>1. /\ unseen' = [unseen EXCEPT ![p] = unseen[p] \ {t}]
        /\ creating' = [creating EXCEPT ![p] = {t} \ tables]
        /\ stage[p] = "creating" /\ creating[p] = {}
        /\ UNCHANGED <<tables, stage, background, late>>
    BY <1>3 DEF LookForTable
  <2>2. /\ unseen'[p] = unseen[p] \ {t} /\ creating'[p] = {t} \ tables
        /\ \A q \in Process \ {p} : unseen'[q] = unseen[q] /\ creating'[q] = creating[q]
    BY <2>1
  <2>3. unseen' \in [Process -> SUBSET Table] /\ creating' \in [Process -> SUBSET Table]
    BY <2>1
  <2>4. SchemaSound'
    BY <2>1, <2>2
  <2>5. QED
    BY <2>1, <2>3, <2>4
<1>4. ASSUME NEW t \in Table, CreateTable(p, t) PROVE MainInv'
  <2>1. /\ creating' = [creating EXCEPT ![p] = {}] /\ tables' = tables \cup {t}
        /\ stage[p] = "creating" /\ t \in creating[p]
        /\ UNCHANGED <<unseen, stage, background, late>>
    BY <1>4 DEF CreateTable
  <2>2. /\ creating'[p] = {} /\ creating[p] = {t}
        /\ \A q \in Process \ {p} : creating'[q] = {} /\ creating[q] = {}
    BY <2>1
  <2>3. creating' \in [Process -> SUBSET Table] /\ tables' \subseteq Table
    BY <2>1
  <2>4. SchemaSound'
    BY <2>1, <2>2
  <2>5. QED
    BY <2>1, <2>3, <2>4
<1>5. CASE ReleaseLock(p)
  BY <1>5 DEF ReleaseLock
<1>6. CASE Serve(p)
  BY <1>6 DEF Serve
<1>7. QED
  BY <1>1, <1>2, <1>3, <1>4, <1>5, <1>6 DEF StartStep

LEMMA GoneInv ==
  ASSUME MainInv, NEW p \in Process, Gone(p)
  PROVE  MainInv'
BY DEF MainInv, SchemaSound, Up, Gone

LEMMA EndInv ==
  ASSUME MainInv, NEW p \in Process,
         Quit(p) \/ ServicesStop(p) \/ EndShutdown(p) \/ TimePasses(p)
  PROVE  MainInv'
<1>1. CASE Quit(p)
  BY <1>1 DEF MainInv, SchemaSound, Up, Quit
<1>2. CASE EndShutdown(p)
  BY <1>2 DEF MainInv, SchemaSound, Up, EndShutdown
<1>3. CASE ServicesStop(p) \/ TimePasses(p)
  <2>1. /\ background' \in [Process -> BOOLEAN] /\ late' \in [Process -> BOOLEAN]
        /\ UNCHANGED <<tables, stage, creating, unseen>>
    BY <1>3 DEF MainInv, ServicesStop, TimePasses
  <2>2. QED
    BY <2>1 DEF MainInv, SchemaSound
<1>4. QED
  BY <1>1, <1>2, <1>3

(* The parts of main that do not end a process do not touch its hub. *)
LEMMA HubUntouched ==
  ASSUME HubInv, UNCHANGED hubVars
  PROVE  HubInv' /\ OrderKept
<1>1. HubInv'
  BY DEF hubVars, HubInv, HubTypeOK, PubSound, QueueSorted
<1>2. OrderKept
  BY Numbers DEF hubVars, OrderKept
<1>3. QED
  BY <1>1, <1>2

LEMMA GoneHub ==
  ASSUME HubInv, NEW p \in Process, Gone(p)
  PROVE  HubInv' /\ OrderKept
<1>1. CASE HubGone
  <2>1. HubInv'
    BY <1>1, EmptyHub DEF HubGone
  <2>2. QED
    BY <1>1, <2>1 DEF HubGone, OrderKept
<1>2. CASE UNCHANGED hubVars
  BY <1>2, HubUntouched
<1>3. QED
  BY <1>1, <1>2 DEF Gone

LEMMA Inductive ==
  ASSUME IInv, [Next]_vars
  PROVE  IInv' /\ OrderKept
<1> USE DEF IInv
<1>1. ASSUME NEW p \in Process, StartStep(p) PROVE IInv' /\ OrderKept
  <2>1. UNCHANGED hubVars
    BY <1>1
    DEF StartStep, StartProcess, AcquireLock, LookForTable, CreateTable,
        ReleaseLock, Serve
  <2>2. QED
    BY <1>1, <2>1, StartInv, HubUntouched
<1>2. ASSUME NEW p \in Process,
             Quit(p) \/ ServicesStop(p) \/ EndShutdown(p) \/ TimePasses(p)
      PROVE  IInv' /\ OrderKept
  <2>1. UNCHANGED hubVars
    BY <1>2 DEF Quit, ServicesStop, EndShutdown, TimePasses
  <2>2. QED
    BY <1>2, <2>1, EndInv, HubUntouched
<1>3. ASSUME NEW p \in Process, Gone(p) PROVE IInv' /\ OrderKept
  BY <1>3, GoneInv, GoneHub
<1>4. ASSUME HubStep PROVE IInv' /\ OrderKept
  <2>1. MainInv'
    BY <1>4 DEF HubStep, mainVars, MainInv, SchemaSound
  <2>2. QED
    BY <1>4, <2>1, HubStepInv
<1>5. CASE UNCHANGED vars
  <2>1. MainInv'
    BY <1>5 DEF vars, mainVars, MainInv, SchemaSound
  <2>2. QED
    BY <1>5, <2>1, HubUntouched DEF vars
<1>6. QED
  BY <1>1, <1>2, <1>3, <1>4, <1>5 DEF Next, MainStep, Exit, ProcessEnds

LEMMA Initial == Init => IInv
<1> SUFFICES ASSUME Init PROVE IInv
  OBVIOUS
<1>1. HubInv
  BY HubInitial DEF Init
<1>2. MainInv
  BY DEF Init, MainInv, SchemaSound, Up
<1>3. QED
  BY <1>1, <1>2 DEF IInv

LEMMA Invariance == Spec => []IInv
<1>1. IInv /\ [Next]_vars => IInv'
  BY Inductive
<1>2. QED
  BY <1>1, Initial, PTL DEF Spec

-----------------------------------------------------------------------------
(* The theorems.                                                           *)

(* Type correctness: no channel ever holds more events than fit, and none  *)
(* is served that is not a client's.                                       *)
THEOREM TypeCorrect == Spec => []TypeOK
<1>1. IInv => TypeOK
  BY DEF IInv, HubInv, MainInv, TypeOK
<1>2. QED
  BY <1>1, Invariance, PTL

(* No worker sends to a channel that has been closed, for any number of    *)
(* workers that publish while clients come and go and processes end.       *)
THEOREM SendsToOpen == Spec => []NoSendToClosed
<1>1. IInv => NoSendToClosed
  <2> SUFFICES ASSUME IInv PROVE NoSendToClosed
    OBVIOUS
  <2>1. \A c \in Client : c \in subscribers <=> channel[c].open
    BY DEF IInv, HubInv
  <2>2. \A k \in Worker : pub[k].todo \subseteq subscribers
    BY DEF IInv, HubInv, PubSound
  <2>3. subscribers \subseteq Client
    BY DEF IInv, HubInv, HubTypeOK
  <2>4. QED
    BY <2>1, <2>2, <2>3 DEF NoSendToClosed
<1>2. QED
  BY <1>1, Invariance, PTL

(* A client gets the events of a worker in their order, whatever was       *)
(* dropped from its channel to make room, and however workers interleave.  *)
THEOREM EventsInOrder == Spec => InOrder
<1>1. IInv /\ [Next]_vars
        => [\A c \in Client, k \in Worker :
              c \in subscribers /\ c \in subscribers' => got[c][k] <= got'[c][k]]_hubVars
  BY Inductive DEF OrderKept
<1>2. QED
  BY <1>1, Invariance, PTL DEF Spec, InOrder

(* The lock makes the search for a table and its creation one step for the *)
(* other processes; and none serves before every table is there, wherever  *)
(* others crashed on the way.                                              *)
THEOREM SchemaIsReady == Spec => []SchemaReady
<1>1. IInv => SchemaReady
  BY DEF IInv, MainInv, SchemaSound, SchemaReady
<1>2. QED
  BY <1>1, Invariance, PTL
=============================================================================
