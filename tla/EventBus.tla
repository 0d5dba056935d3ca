------------------------------ MODULE EventBus -------------------------------
(***************************************************************************)
(* eventbus.Bus: subscriptions with filters, a bounded queue served by     *)
(* worker goroutines, synchronous delivery on the caller's goroutine, and  *)
(* Close.  Everything is guarded by one sync.RWMutex, and an asynchronous  *)
(* publisher keeps its read lock while it waits for room in the queue.     *)
(*                                                                         *)
(* The RWMutex is Go's: once a writer asks, new readers wait until it has  *)
(* come and gone, and it comes when the readers before it have left.       *)
(* A definition named Slip... is the one it precedes with a mistake in it. *)
(***************************************************************************)
EXTENDS Naturals, Sequences, FiniteSets

CONSTANTS
  Publishers,  \* goroutines that publish
  Workers,     \* the worker goroutines
  Changers,    \* goroutines that subscribe, unsubscribe and close
  NoProc,
  NoMessage,
  Fields,      \* what a filter tests: the topic, the type, the task
  Values,      \* what an event has there
  Wildcard,    \* the pattern "" or "*"
  SubIds,
  QueueSize,
  HandlersPublish  \* whether handlers call PublishAsync themselves

Event         == [Fields -> Values]
Filter        == [Fields -> Values \cup {Wildcard}]
Message       == [event : Event, broadcast : BOOLEAN]
Subscription  == [id : SubIds, filter : Filter, readOnly : BOOLEAN]

ASSUME BusAssumption ==
  /\ Publishers \cap Workers = {}
  /\ Changers \cap (Publishers \cup Workers) = {}
  /\ NoProc \notin Publishers \cup Workers \cup Changers
  /\ Wildcard \notin Values /\ Values # {}
  /\ NoMessage \notin Message
  /\ Workers # {} /\ QueueSize \in Nat
  /\ HandlersPublish \in BOOLEAN

Readers == Publishers \cup Workers
Procs   == Readers \cup Changers

VARIABLES
  pc,      \* where each goroutine is
  lock,    \* b.mu: who reads, who waits to read, who writes or is about to
  subs,    \* b.subscriptions; the order of the handlers is left out
  queue,   \* b.queue
  closed,  \* b.closed, and whether the queue is closed
  msg,     \* msg[p]: the event p publishes, or looks up the subscribers of
  todo     \* todo[p]: how many subscribers p has still to call

vars == <<pc, lock, subs, queue, closed, msg, todo>>

(***************************************************************************)
(* Filters                                                                 *)
(***************************************************************************)
Match(f, e) == \A k \in Fields : f[k] \in {Wildcard, e[k]}

SlipOverlapsOneSided(f, g) == \A k \in Fields : f[k] \in {Wildcard, g[k]}
Overlaps(f, g) == \A k \in Fields : f[k] = Wildcard \/ g[k] = Wildcard \/ f[k] = g[k]

Matching(m) ==
  { s \in subs : m.broadcast \/ Match(s.filter, m.event) }

(***************************************************************************)
(* The lock                                                                *)
(***************************************************************************)
RLock(p) ==
  lock' = IF lock.writer = NoProc
          THEN [lock EXCEPT !.readers = @ \cup {p}]
          ELSE [lock EXCEPT !.waiting = @ \cup {p}]

RUnlock(p) == /\ p \in lock.readers
              /\ lock' = [lock EXCEPT !.readers = @ \ {p}]

(* What lies between Lock and Unlock is one step of the writer; Unlock lets *)
(* the readers in that came after Lock.                                     *)
SlipLockIgnoresReaders(c) ==
  /\ lock.writer = c
  /\ lock' = [lock EXCEPT !.readers = @ \cup lock.waiting,
                          !.waiting = {}, !.writer = NoProc]
LockUnlock(c) ==
  /\ lock.writer = c /\ lock.readers = {}
  /\ lock' = [readers |-> lock.waiting, waiting |-> {}, writer |-> NoProc]

Go(p, from, to) == pc[p] = from /\ pc' = [pc EXCEPT ![p] = to]

(***************************************************************************)
(* Publishing                                                              *)
(***************************************************************************)

(* Where a goroutine goes on after enqueue: a handler that published goes  *)
(* on delivering.                                                          *)
Back(p) == IF p \in Workers \/ todo[p] # 0 THEN "deliver" ELSE "idle"

Drop(p) == msg' = [msg EXCEPT ![p] = NoMessage]

(* PublishAsync, BroadcastAsync: up to the read lock *)
CallEnqueue(p) ==
  /\ Go(p, "idle", "check")
  /\ \E m \in Message : msg' = [msg EXCEPT ![p] = m]
  /\ RLock(p)
  /\ UNCHANGED <<subs, queue, closed, todo>>

(* enqueue under the read lock: refused once the bus is closed *)
CheckClosed(p) ==
  /\ p \in lock.readers
  /\ IF closed
     THEN Go(p, "check", Back(p)) /\ RUnlock(p) /\ Drop(p)
     ELSE Go(p, "check", "select") /\ UNCHANGED <<lock, msg>>
  /\ UNCHANGED <<subs, queue, closed, todo>>

(* A channel without a buffer hands over to a worker that receives. *)
HasRoom == \/ Len(queue) < QueueSize
           \/ queue = <<>> /\ \E w \in Workers : pc[w] = "range"

SlipSendUnlockedLate(p) ==
  /\ Go(p, "select", Back(p))
  /\ HasRoom
  /\ queue' = Append(queue, msg[p])
  /\ Drop(p)
  /\ UNCHANGED <<subs, closed, todo, lock>>
Send(p) ==
  /\ Go(p, "select", Back(p))
  /\ HasRoom
  /\ queue' = Append(queue, msg[p])
  /\ RUnlock(p) /\ Drop(p)
  /\ UNCHANGED <<subs, closed, todo>>

(* The publisher's context is done first; the workers' is Background. *)
GiveUp(p) ==
  /\ Go(p, "select", Back(p))
  /\ RUnlock(p) /\ Drop(p)
  /\ UNCHANGED <<subs, queue, closed, todo>>

(* Publish, Broadcast: delivery on the caller's goroutine, closed or not *)
Publish(p) ==
  /\ Go(p, "idle", "match")
  /\ \E m \in Message : msg' = [msg EXCEPT ![p] = m]
  /\ RLock(p)
  /\ UNCHANGED <<subs, queue, closed, todo>>

(***************************************************************************)
(* The workers and delivery                                                *)
(***************************************************************************)
Receive(w) ==
  /\ Go(w, "range", "match")
  /\ queue # <<>>
  /\ msg' = [msg EXCEPT ![w] = Head(queue)]
  /\ queue' = Tail(queue)
  /\ RLock(w)
  /\ UNCHANGED <<subs, closed, todo>>

SlipStopWithoutDraining(w) ==
  /\ Go(w, "range", "stopped")
  /\ closed
  /\ UNCHANGED <<lock, subs, queue, closed, msg, todo>>
Stop(w) ==
  /\ Go(w, "range", "stopped")
  /\ closed /\ queue = <<>>
  /\ UNCHANGED <<lock, subs, queue, closed, msg, todo>>

(* matchingSubscribers *)
SlipMatchKeepsLock(p) ==
  /\ Go(p, "match", "deliver")
  /\ p \in lock.readers
  /\ todo' = [todo EXCEPT ![p] = Cardinality(Matching(msg[p]))]
  /\ Drop(p)
  /\ UNCHANGED <<subs, queue, closed, lock>>
MatchingSubscribers(p) ==
  /\ Go(p, "match", "deliver")
  /\ todo' = [todo EXCEPT ![p] = Cardinality(Matching(msg[p]))]
  /\ RUnlock(p) /\ Drop(p)
  /\ UNCHANGED <<subs, queue, closed>>

(* The next handler returns, with or without an error. *)
Deliver(p) ==
  /\ pc[p] = "deliver" /\ todo[p] # 0
  /\ todo' = [todo EXCEPT ![p] = @ - 1]
  /\ UNCHANGED <<pc, lock, subs, queue, closed, msg>>

(* The context of a synchronous publisher is done between two handlers. *)
DeliverCancelled(p) ==
  /\ pc[p] = "deliver" /\ todo[p] # 0
  /\ todo' = [todo EXCEPT ![p] = 0]
  /\ UNCHANGED <<pc, lock, subs, queue, closed, msg>>

(* The next handler publishes an event before it returns. *)
HandlerPublishes(p) ==
  /\ HandlersPublish
  /\ todo[p] # 0
  /\ Go(p, "deliver", "check")
  /\ \E m \in Message : msg' = [msg EXCEPT ![p] = m]
  /\ todo' = [todo EXCEPT ![p] = @ - 1]
  /\ RLock(p)
  /\ UNCHANGED <<subs, queue, closed>>

Delivered(p) ==
  /\ todo[p] = 0
  /\ Go(p, "deliver", IF p \in Workers THEN "range" ELSE "idle")
  /\ UNCHANGED <<lock, subs, queue, closed, msg, todo>>

(***************************************************************************)
(* Subscribing and closing                                                 *)
(***************************************************************************)
Lock(c, op) ==
  /\ Go(c, "idle", op)
  /\ lock.writer = NoProc
  /\ lock' = [lock EXCEPT !.writer = c]
  /\ UNCHANGED <<subs, queue, closed, msg, todo>>

Accepts(s) ==
  /\ ~closed
  /\ \A x \in subs :
       /\ x.id # s.id
       /\ x.readOnly \/ s.readOnly \/ ~Overlaps(x.filter, s.filter)

Subscribe(c) ==
  /\ Go(c, "subscribe", "idle")
  /\ \E s \in Subscription : subs' = IF Accepts(s) THEN subs \cup {s} ELSE subs
  /\ LockUnlock(c)
  /\ UNCHANGED <<queue, closed, msg, todo>>

Unsubscribe(c) ==
  /\ Go(c, "unsubscribe", "idle")
  /\ \E id \in SubIds : subs' = { s \in subs : s.id # id }
  /\ LockUnlock(c)
  /\ UNCHANGED <<queue, closed, msg, todo>>

(* Close: a second call returns at once. *)
Close(c) ==
  /\ Go(c, "close", IF closed THEN "idle" ELSE "drain")
  /\ closed' = TRUE
  /\ LockUnlock(c)
  /\ UNCHANGED <<subs, queue, msg, todo>>

(* b.workers.Wait() *)
CloseReturns(c) ==
  /\ Go(c, "drain", "closed")
  /\ \A w \in Workers : pc[w] = "stopped"
  /\ UNCHANGED <<lock, subs, queue, closed, msg, todo>>

(***************************************************************************)
(* The specification                                                       *)
(***************************************************************************)
Init ==
  /\ pc = [p \in Procs |-> IF p \in Workers THEN "range" ELSE "idle"]
  /\ lock = [readers |-> {}, waiting |-> {}, writer |-> NoProc]
  /\ subs = {} /\ queue = <<>> /\ closed = FALSE
  /\ msg = [p \in Readers |-> NoMessage]
  /\ todo = [p \in Readers |-> 0]

(* What a goroutine inside the bus does next *)
Reads(p) == CheckClosed(p) \/ Send(p) \/ MatchingSubscribers(p) \/ Deliver(p)
            \/ Delivered(p)
Works(w) == Receive(w) \/ Stop(w) \/ Reads(w)
Writes(c) == Subscribe(c) \/ Unsubscribe(c) \/ Close(c) \/ CloseReturns(c)

Next ==
  \/ \E p \in Publishers : CallEnqueue(p) \/ Publish(p) \/ Reads(p)
                           \/ GiveUp(p) \/ DeliverCancelled(p)
  \/ \E w \in Workers : Works(w)
  \/ \E p \in Readers : HandlerPublishes(p)
  \/ \E c \in Changers : Writes(c)
                         \/ \E op \in {"subscribe", "unsubscribe", "close"} : Lock(c, op)

Spec ==
  /\ Init /\ [][Next]_vars
  /\ \A p \in Publishers : WF_vars(Reads(p))
  /\ \A w \in Workers : WF_vars(Works(w))
  /\ \A c \in Changers : WF_vars(Writes(c))

(***************************************************************************)
(* Properties                                                              *)
(***************************************************************************)
Stages == {"idle", "check", "select", "match", "deliver", "range", "stopped"}

InLock == {"check", "select", "match"}

(* Whoever is between RLock and RUnlock reads or waits to, never both. *)
LockUsed ==
  /\ lock.readers \cap lock.waiting = {}
  /\ lock.writer = NoProc => lock.waiting = {}
  /\ \A p \in Readers : pc[p] \in InLock <=> p \in lock.readers \cup lock.waiting
  /\ \A p \in Readers : pc[p] \in InLock => msg[p] # NoMessage

(* The variables have their types, and the lock is where pc says it is. *)
TypeOK ==
  /\ pc \in [Procs -> Stages \cup {"subscribe", "unsubscribe", "close", "drain", "closed"}]
  /\ lock \in [readers : SUBSET Readers, waiting : SUBSET Readers, writer : Changers \cup {NoProc}]
  /\ subs \subseteq Subscription /\ queue \in Seq(Message) /\ closed \in BOOLEAN
  /\ msg \in [Readers -> Message \cup {NoMessage}]
  /\ todo \in [Readers -> Nat]
  /\ LockUsed

(* No goroutine sends on a closed channel, which would panic: enqueue      *)
(* tests b.closed and sends under one read lock, and Close closes the      *)
(* queue under the write lock.                                             *)
SendsOnOpenQueue == \A p \in Readers : pc[p] = "select" => ~closed

(* When Close has returned, every event the bus took has been delivered:   *)
(* the queue is empty, the workers have stopped, and nobody is about to    *)
(* add to it.                                                              *)
NothingLeftBehind ==
  (\E c \in Changers : pc[c] = "closed") =>
    /\ queue = <<>>
    /\ \A p \in Readers : pc[p] # "select"

(* An event reaches at most one subscriber that may act on it: Subscribe   *)
(* refuses a filter that overlaps another writable subscription's.         *)
OneWriter ==
  \A e \in Event : \A s, t \in subs :
    /\ ~s.readOnly /\ Match(s.filter, e)
    /\ ~t.readOnly /\ Match(t.filter, e)
    => s = t

(* Every worker is blocked behind a full queue: those that must match an   *)
(* event wait for a read lock that a waiting writer denies them, the       *)
(* others publish from a handler; and those that hold the lock wait for    *)
(* the workers.                                                            *)
Wedged ==
  /\ ~HasRoom
  /\ \A w \in Workers : pc[w] = "select" \/ w \in lock.waiting
  /\ lock.readers # {} /\ \A p \in lock.readers : pc[p] = "select"

Closing(c) == pc[c] \in {"close", "drain"}

(* A call of Close returns, unless the bus is wedged. *)
ClosesUnlessWedged == \A c \in Changers : Closing(c) ~> (~Closing(c) \/ Wedged)

(* With as many workers as there are publishers, and handlers that do not  *)
(* publish, the bus is never wedged: each worker that waits has made room  *)
(* for a publisher.  So Subscribe, Unsubscribe and Close always return.    *)
AlwaysReturns ==
  \A c \in Changers :
    pc[c] \in {"subscribe", "unsubscribe", "close", "drain"} ~> pc[c] \in {"idle", "closed"}

==============================================================================
