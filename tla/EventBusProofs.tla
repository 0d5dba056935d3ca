--------------------------- MODULE EventBusProofs ----------------------------
(***************************************************************************)
(* Proofs about eventbus.Bus, for any number of goroutines, any queue size *)
(* and any set of filters.                                                 *)
(*                                                                         *)
(* The inductive invariant adds to the types: whoever is in the select     *)
(* reads the lock, writable subscriptions do not overlap, a worker that    *)
(* has stopped left an empty queue for good, and Close returned only after *)
(* the workers had stopped.                                                *)
(***************************************************************************)
EXTENDS EventBus, FiniteSetTheorems, SequenceTheorems, TLAPS

SelectHoldsLock == \A p \in Readers : pc[p] = "select" => p \in lock.readers

SubsDiffer ==
  /\ IsFiniteSet(subs)
  /\ \A s, t \in subs : s # t =>
       \/ s.readOnly \/ t.readOnly
       \/ ~Overlaps(s.filter, t.filter)

StoppedDrained ==
  \A w \in Workers : pc[w] = "stopped" => closed /\ queue = <<>>

ClosedFirst ==
  \A c \in Changers : pc[c] = "closed" => \A w \in Workers : pc[w] = "stopped"

RolesApart ==
  /\ \A p \in Readers : pc[p] \in Stages
  /\ \A c \in Changers : pc[c] \notin {"check", "select", "match", "deliver", "range", "stopped"}

IInv ==
  /\ TypeOK /\ SelectHoldsLock /\ SendsOnOpenQueue
  /\ SubsDiffer /\ StoppedDrained /\ ClosedFirst /\ RolesApart

(***************************************************************************)
(* Filters                                                                 *)
(***************************************************************************)

(* Overlaps says exactly that some event matches both filters.  So         *)
(* Subscribe refuses no pair of subscriptions that could live together,    *)
(* and lets none pass that could both claim an event (filter.go).          *)
THEOREM OverlapsExact ==
  ASSUME NEW f \in Filter, NEW g \in Filter
  PROVE  Overlaps(f, g) <=> \E e \in Event : Match(f, e) /\ Match(g, e)
<1>1. ASSUME NEW e \in Event, Match(f, e), Match(g, e)
      PROVE  Overlaps(f, g)
  BY <1>1, BusAssumption DEF Overlaps, Match, Event, Filter
<1>2. ASSUME Overlaps(f, g)
      PROVE  \E e \in Event : Match(f, e) /\ Match(g, e)
  <2>1. PICK v : v \in Values
    BY BusAssumption
  <2> DEFINE e == [k \in Fields |-> IF f[k] # Wildcard THEN f[k]
                                    ELSE IF g[k] # Wildcard THEN g[k] ELSE v]
  <2>2. e \in Event
    BY <2>1 DEF Event, Filter
  <2>3. Match(f, e)
    BY DEF Match, Filter
  <2>4. Match(g, e)
    BY <1>2 DEF Match, Overlaps, Filter
  <2> QED BY <2>2, <2>3, <2>4
<1> QED BY <1>1, <1>2

(* The sets of subscriptions a message is delivered to are finite. *)
LEMMA MatchingCounted ==
  ASSUME NEW m, IsFiniteSet(subs)
  PROVE  Cardinality(Matching(m)) \in Nat
<1>1. Matching(m) \subseteq subs
  BY DEF Matching
<1> QED BY <1>1, FS_Subset, FS_CardinalityType

(***************************************************************************)
(* The invariant                                                           *)
(***************************************************************************)
LEMMA InitHolds == Init => IInv
<1> SUFFICES ASSUME Init PROVE IInv
  OBVIOUS
<1> USE BusAssumption DEF Init, Procs, Readers
<1>1. pc \in [Procs -> Stages \cup {"subscribe", "unsubscribe", "close", "drain", "closed"}]
  BY DEF Stages
<1>2. lock \in [readers : SUBSET Readers, waiting : SUBSET Readers, writer : Changers \cup {NoProc}]
  OBVIOUS
<1>3. subs \subseteq Subscription /\ closed \in BOOLEAN /\ queue \in Seq(Message)
  <2>1. subs \subseteq Subscription /\ closed \in BOOLEAN
    OBVIOUS
  <2>2. queue \in Seq(Message)
    BY EmptySeq
  <2> QED BY <2>1, <2>2
<1>4. msg \in [Readers -> Message \cup {NoMessage}] /\ todo \in [Readers -> Nat]
  OBVIOUS
<1>5. LockUsed
  BY DEF LockUsed, InLock
<1>6. SubsDiffer
  BY FS_EmptySet DEF SubsDiffer
<1>7. SelectHoldsLock /\ SendsOnOpenQueue /\ StoppedDrained /\ ClosedFirst /\ RolesApart
  BY DEF SelectHoldsLock, SendsOnOpenQueue, StoppedDrained, ClosedFirst, RolesApart, Stages
<1> QED BY <1>1, <1>2, <1>3, <1>4, <1>5, <1>6, <1>7 DEF IInv, TypeOK

(* What asking for, leaving and writing under the lock do to it *)
LEMMA RLockAdds ==
  ASSUME TypeOK, NEW p \in Readers, pc[p] \notin InLock, RLock(p)
  PROVE  /\ lock' \in [readers : SUBSET Readers, waiting : SUBSET Readers, writer : Changers \cup {NoProc}]
         /\ lock'.readers \cup lock'.waiting = lock.readers \cup lock.waiting \cup {p}
         /\ lock'.readers \cap lock'.waiting = {}
         /\ lock'.writer = NoProc => lock'.waiting = {}
         /\ lock.readers \subseteq lock'.readers
<1>1. CASE lock.writer = NoProc
  BY <1>1 DEF RLock, TypeOK, LockUsed
<1>2. CASE lock.writer # NoProc
  BY <1>2 DEF RLock, TypeOK, LockUsed
<1> QED BY <1>1, <1>2

(* RUnlock takes the goroutine out of the readers and changes nothing else. *)
LEMMA RUnlockRemoves ==
  ASSUME TypeOK, NEW p \in Readers, RUnlock(p)
  PROVE  /\ lock' \in [readers : SUBSET Readers, waiting : SUBSET Readers, writer : Changers \cup {NoProc}]
         /\ lock'.readers \cup lock'.waiting = (lock.readers \cup lock.waiting) \ {p}
         /\ lock'.readers \cap lock'.waiting = {}
         /\ lock'.writer = NoProc => lock'.waiting = {}
         /\ lock'.readers = lock.readers \ {p}
BY DEF RUnlock, TypeOK, LockUsed

(* Unlock turns the waiting readers into readers and frees the lock. *)
LEMMA LockUnlockAdmits ==
  ASSUME TypeOK, SelectHoldsLock, NEW c \in Changers, LockUnlock(c)
  PROVE  /\ lock' \in [readers : SUBSET Readers, waiting : SUBSET Readers, writer : Changers \cup {NoProc}]
         /\ lock'.readers = lock.readers \cup lock.waiting
         /\ lock'.waiting = {}
         /\ \A p \in Readers : pc[p] # "select"
BY DEF LockUnlock, TypeOK, LockUsed, SelectHoldsLock

(* A step of a reader p that goes from one place to another and touches    *)
(* neither the subscriptions nor b.closed                                  *)
LEMMA ReaderMoves ==
  ASSUME IInv, NEW p \in Readers, NEW to \in Stages,
         pc' = [pc EXCEPT ![p] = to],
         UNCHANGED <<subs, closed>>,
         pc[p] \notin {"stopped"},
         queue' \in Seq(Message),
         msg' \in [Readers -> Message \cup {NoMessage}],
         todo' \in [Readers -> Nat],
         lock' \in [readers : SUBSET Readers, waiting : SUBSET Readers, writer : Changers \cup {NoProc}],
         LockUsed', SelectHoldsLock',
         to = "select" => ~closed,
         to = "stopped" => closed /\ queue = <<>>,
         (closed /\ queue = <<>>) => queue' = <<>>
  PROVE  IInv'
<1> USE BusAssumption DEF IInv
<1>1. pc' \in [Procs -> Stages \cup {"subscribe", "unsubscribe", "close", "drain", "closed"}]
  BY DEF TypeOK, Procs
<1>2. TypeOK'
  BY <1>1 DEF TypeOK
<1>3. SendsOnOpenQueue'
  BY DEF SendsOnOpenQueue, TypeOK, Procs
<1>4. SubsDiffer'
  BY DEF SubsDiffer
<1>5. StoppedDrained'
  BY DEF StoppedDrained, TypeOK, Procs, Readers
<1>6. ClosedFirst'
  BY DEF ClosedFirst, TypeOK, Procs, Readers
<1>7. RolesApart'
  BY DEF RolesApart, TypeOK, Procs, Readers
<1> QED BY <1>2, <1>3, <1>4, <1>5, <1>6, <1>7

(* Entering the lock, leaving it, and moving without it *)
LEMMA Enters ==
  ASSUME IInv, NEW p \in Readers, NEW from \in Stages \ (InLock \cup {"stopped"}),
         NEW to \in {"check", "match"},
         Go(p, from, to), RLock(p), UNCHANGED <<subs, closed>>,
         NEW m \in Message, msg' = [msg EXCEPT ![p] = m],
         todo' \in [Readers -> Nat],
         queue' \in Seq(Message), queue = <<>> => queue' = <<>>
  PROVE  IInv'
<1> USE DEF IInv
<1>1. pc[p] = from /\ pc' = [pc EXCEPT ![p] = to] /\ pc[p] \notin InLock
  BY DEF Go
<1> DEFINE LockType(l) ==
             l \in [readers : SUBSET Readers, waiting : SUBSET Readers, writer : Changers \cup {NoProc}]
<1>2. /\ LockType(lock')
      /\ lock'.readers \cup lock'.waiting = lock.readers \cup lock.waiting \cup {p}
      /\ lock'.readers \cap lock'.waiting = {}
      /\ lock'.writer = NoProc => lock'.waiting = {}
      /\ lock.readers \subseteq lock'.readers
  BY <1>1, RLockAdds
<1>3. msg' \in [Readers -> Message \cup {NoMessage}]
  BY DEF TypeOK
<1>4. LockUsed'
  BY <1>1, <1>2, BusAssumption DEF LockUsed, TypeOK, InLock, Procs
<1>5. SelectHoldsLock'
  BY <1>1, <1>2 DEF SelectHoldsLock, TypeOK, Procs
<1>6. to \in Stages /\ to \notin {"select", "stopped"} /\ pc[p] # "stopped"
  BY <1>1 DEF Stages
<1> HIDE DEF IInv
<1> QED BY <1>1, <1>2, <1>3, <1>4, <1>5, <1>6, ReaderMoves

(* A reader that leaves the lock for a place outside it keeps the invariant. *)
LEMMA Leaves ==
  ASSUME IInv, NEW p \in Readers, NEW from \in InLock, NEW to \in {"idle", "deliver"},
         Go(p, from, to), RUnlock(p), Drop(p), UNCHANGED <<subs, closed>>,
         todo' \in [Readers -> Nat],
         queue' \in Seq(Message), closed /\ queue = <<>> => queue' = <<>>
  PROVE  IInv'
<1> USE DEF IInv
<1>1. pc[p] = from /\ pc' = [pc EXCEPT ![p] = to] /\ to \notin InLock
  BY DEF Go, InLock
<1> DEFINE LockType(l) ==
             l \in [readers : SUBSET Readers, waiting : SUBSET Readers, writer : Changers \cup {NoProc}]
<1>2. /\ LockType(lock')
      /\ lock'.readers \cup lock'.waiting = (lock.readers \cup lock.waiting) \ {p}
      /\ lock'.readers \cap lock'.waiting = {}
      /\ lock'.writer = NoProc => lock'.waiting = {}
      /\ lock'.readers = lock.readers \ {p}
  BY RUnlockRemoves
<1>3. msg' = [msg EXCEPT ![p] = NoMessage] /\ msg' \in [Readers -> Message \cup {NoMessage}]
  BY DEF TypeOK, Drop
<1>4. LockUsed'
  BY <1>1, <1>2, <1>3 DEF LockUsed, TypeOK, Procs
<1>5. SelectHoldsLock'
  BY <1>1, <1>2 DEF SelectHoldsLock, TypeOK, Procs, InLock
<1>6. to \in Stages /\ to \notin {"select", "stopped"} /\ pc[p] # "stopped"
  BY <1>1 DEF Stages, InLock
<1> HIDE DEF IInv
<1> QED BY <1>1, <1>2, <1>3, <1>4, <1>5, <1>6, ReaderMoves

(* A move between two places outside the lock keeps the invariant. *)
LEMMA StaysOutside ==
  ASSUME IInv, NEW p \in Readers, NEW from \in Stages \ (InLock \cup {"stopped"}),
         NEW to \in Stages \ InLock,
         Go(p, from, to), UNCHANGED <<lock, subs, closed, queue, msg>>,
         todo' \in [Readers -> Nat],
         to = "stopped" => closed /\ queue = <<>>
  PROVE  IInv'
<1> USE DEF IInv
<1>1. pc[p] = from /\ pc' = [pc EXCEPT ![p] = to]
  BY DEF Go
<1>2. LockUsed'
  BY <1>1 DEF LockUsed, TypeOK, Procs
<1>3. SelectHoldsLock'
  BY <1>1 DEF SelectHoldsLock, TypeOK, Procs, InLock
<1>4. to # "select" /\ pc[p] # "stopped"
  BY <1>1 DEF InLock
<1>5. /\ queue' \in Seq(Message) /\ msg' \in [Readers -> Message \cup {NoMessage}]
      /\ lock' \in [readers : SUBSET Readers, waiting : SUBSET Readers, writer : Changers \cup {NoProc}]
  BY DEF TypeOK
<1> HIDE DEF IInv
<1> QED BY <1>1, <1>2, <1>3, <1>4, <1>5, ReaderMoves

(* A step of a writer: what the readers do and hold is as before, but for  *)
(* those it lets in.                                                       *)
LEMMA WriterMoves ==
  ASSUME IInv, NEW c \in Changers, NEW from, NEW to \in {"idle", "drain"},
         Go(c, from, to), LockUnlock(c), UNCHANGED <<queue, msg, todo>>,
         subs' \subseteq Subscription, SubsDiffer', closed' \in BOOLEAN, closed => closed'
  PROVE  IInv'
<1> USE BusAssumption DEF IInv
<1>1. pc' = [pc EXCEPT ![c] = to] /\ c \notin Readers /\ c \in Procs
  BY DEF Go, Readers, Procs
<1>2. /\ lock' \in [readers : SUBSET Readers, waiting : SUBSET Readers, writer : Changers \cup {NoProc}]
      /\ lock'.readers = lock.readers \cup lock.waiting
      /\ lock'.waiting = {}
      /\ \A p \in Readers : pc[p] # "select"
  BY LockUnlockAdmits
<1>3. \A p \in Readers : pc'[p] = pc[p]
  BY <1>1 DEF TypeOK, Procs
<1>4. pc' \in [Procs -> Stages \cup {"subscribe", "unsubscribe", "close", "drain", "closed"}]
  BY <1>1 DEF TypeOK, Stages
<1>5. LockUsed'
  BY <1>2, <1>3 DEF LockUsed, TypeOK
<1>6. TypeOK'
  BY <1>2, <1>4, <1>5 DEF TypeOK
<1>7. SelectHoldsLock' /\ SendsOnOpenQueue'
  BY <1>2, <1>3 DEF SelectHoldsLock, SendsOnOpenQueue
<1>8. StoppedDrained'
  BY <1>3 DEF StoppedDrained, Readers
<1>9. ClosedFirst'
  BY <1>1, <1>3 DEF ClosedFirst, TypeOK, Readers
<1>10. RolesApart'
  BY <1>1, <1>3 DEF RolesApart, TypeOK
<1> QED BY <1>6, <1>7, <1>8, <1>9, <1>10

(* enqueue's test of the closed flag, refused or passed, keeps the invariant. *)
LEMMA CheckClosedKeeps == ASSUME IInv, NEW p \in Readers, CheckClosed(p) PROVE IInv'
<1>1. /\ p \in lock.readers /\ pc[p] = "check"
      /\ UNCHANGED <<subs, queue, closed, todo>>
      /\ queue \in Seq(Message) /\ todo \in [Readers -> Nat]
  BY DEF CheckClosed, IInv, TypeOK, Go
<1>2. CASE closed
  <2>1. Go(p, "check", Back(p)) /\ RUnlock(p) /\ Drop(p) /\ Back(p) \in {"idle", "deliver"}
    BY <1>2 DEF CheckClosed, Back
  <2> QED BY <1>1, <2>1, Leaves DEF InLock
<1>3. CASE ~closed
  <2>1. pc' = [pc EXCEPT ![p] = "select"] /\ UNCHANGED <<lock, msg>>
    BY <1>3 DEF CheckClosed, Go
  <2>2. LockUsed'
    BY <1>1, <2>1 DEF LockUsed, InLock, IInv, TypeOK, Procs
  <2>3. SelectHoldsLock'
    BY <1>1, <2>1 DEF SelectHoldsLock, IInv, TypeOK, Procs
  <2>4. /\ msg' \in [Readers -> Message \cup {NoMessage}]
        /\ lock' \in [readers : SUBSET Readers, waiting : SUBSET Readers, writer : Changers \cup {NoProc}]
    BY <2>1 DEF IInv, TypeOK
  <2> QED BY <1>1, <1>3, <2>1, <2>2, <2>3, <2>4, ReaderMoves DEF Stages
<1> QED BY <1>2, <1>3

(* A send keeps the invariant: the bus is open, so no worker has stopped. *)
LEMMA SendKeeps == ASSUME IInv, NEW p \in Readers, Send(p) PROVE IInv'
<1>1. ~closed /\ msg[p] \in Message
  BY DEF Send, Go, IInv, SendsOnOpenQueue, TypeOK, LockUsed, InLock
<1>2. queue' \in Seq(Message)
  BY <1>1 DEF Send, IInv, TypeOK
<1>3. /\ Go(p, "select", Back(p)) /\ RUnlock(p) /\ Drop(p) /\ UNCHANGED <<subs, closed>>
      /\ Back(p) \in {"idle", "deliver"} /\ todo' \in [Readers -> Nat]
  BY DEF Send, Back, IInv, TypeOK
<1> QED BY <1>1, <1>2, <1>3, Leaves DEF InLock

(* Giving up on a full queue keeps the invariant. *)
LEMMA GiveUpKeeps == ASSUME IInv, NEW p \in Readers, GiveUp(p) PROVE IInv'
<1>1. /\ Go(p, "select", Back(p)) /\ RUnlock(p) /\ Drop(p) /\ UNCHANGED <<subs, closed, queue>>
      /\ Back(p) \in {"idle", "deliver"} /\ todo' \in [Readers -> Nat] /\ queue' \in Seq(Message)
  BY DEF GiveUp, Back, IInv, TypeOK
<1> QED BY <1>1, Leaves DEF InLock

(* Looking up the subscribers keeps the invariant. *)
LEMMA MatchingKeeps == ASSUME IInv, NEW p \in Readers, MatchingSubscribers(p) PROVE IInv'
<1>1. Cardinality(Matching(msg[p])) \in Nat
  BY MatchingCounted DEF IInv, SubsDiffer
<1>2. todo' \in [Readers -> Nat]
  BY <1>1 DEF MatchingSubscribers, IInv, TypeOK
<1>3. /\ Go(p, "match", "deliver") /\ RUnlock(p) /\ Drop(p) /\ UNCHANGED <<subs, closed, queue>>
      /\ queue' \in Seq(Message)
  BY DEF MatchingSubscribers, IInv, TypeOK
<1> QED BY <1>2, <1>3, Leaves DEF InLock

(* Calling a handler, or giving up between two, keeps the invariant. *)
LEMMA DeliverKeeps ==
  ASSUME IInv, NEW p \in Readers, Deliver(p) \/ DeliverCancelled(p) PROVE IInv'
<1>1. todo' \in [Readers -> Nat]
  <2>1. todo[p] \in Nat /\ todo[p] # 0
    BY DEF Deliver, DeliverCancelled, IInv, TypeOK
  <2>2. todo[p] - 1 \in Nat
    BY <2>1
  <2>3. CASE Deliver(p)
    BY <2>2, <2>3 DEF Deliver, IInv, TypeOK
  <2>4. CASE DeliverCancelled(p)
    BY <2>4 DEF DeliverCancelled, IInv, TypeOK
  <2> QED BY <2>3, <2>4
<1>2. Go(p, "deliver", "deliver") /\ UNCHANGED <<lock, subs, closed, queue, msg>>
  BY DEF Deliver, DeliverCancelled, Go, IInv, TypeOK
<1> QED BY <1>1, <1>2, StaysOutside DEF InLock, Stages

(* The end of a delivery keeps the invariant. *)
LEMMA DeliveredKeeps == ASSUME IInv, NEW p \in Readers, Delivered(p) PROVE IInv'
<1>1. PICK to \in {"range", "idle"} : Go(p, "deliver", to)
  BY DEF Delivered
<1>2. UNCHANGED <<lock, subs, closed, queue, msg>> /\ todo' \in [Readers -> Nat]
  BY DEF Delivered, IInv, TypeOK
<1> QED BY <1>1, <1>2, StaysOutside DEF InLock, Stages

(* A worker stops only on a closed and empty queue. *)
LEMMA StopKeeps == ASSUME IInv, NEW w \in Workers, Stop(w) PROVE IInv'
<1>1. /\ Go(w, "range", "stopped") /\ UNCHANGED <<lock, subs, closed, queue, msg>>
      /\ todo' \in [Readers -> Nat] /\ closed /\ queue = <<>> /\ w \in Readers
  BY DEF Stop, IInv, TypeOK, Readers
<1> QED BY <1>1, StaysOutside DEF InLock, Stages

(* Taking an event off the queue keeps the invariant. *)
LEMMA ReceiveKeeps == ASSUME IInv, NEW w \in Workers, Receive(w) PROVE IInv'
<1>1. Head(queue) \in Message /\ Tail(queue) \in Seq(Message) /\ queue # <<>>
  BY DEF Receive, IInv, TypeOK
<1>2. /\ Go(w, "range", "match") /\ RLock(w) /\ UNCHANGED <<subs, closed>>
      /\ msg' = [msg EXCEPT ![w] = Head(queue)] /\ queue' = Tail(queue)
      /\ todo' \in [Readers -> Nat] /\ w \in Readers
  BY DEF Receive, IInv, TypeOK, Readers
<1> QED BY <1>1, <1>2, Enters DEF InLock, Stages

(* Calling Publish or PublishAsync keeps the invariant. *)
LEMMA CallsKeep ==
  ASSUME IInv, NEW p \in Readers, CallEnqueue(p) \/ Publish(p) PROVE IInv'
<1>1. PICK to \in {"check", "match"} : Go(p, "idle", to)
  BY DEF CallEnqueue, Publish
<1>2. PICK m \in Message : msg' = [msg EXCEPT ![p] = m]
  BY DEF CallEnqueue, Publish
<1>3. /\ RLock(p) /\ UNCHANGED <<subs, closed, queue>>
      /\ todo' \in [Readers -> Nat] /\ queue' \in Seq(Message)
  BY DEF CallEnqueue, Publish, IInv, TypeOK
<1> QED BY <1>1, <1>2, <1>3, Enters DEF InLock, Stages

(* A handler that publishes keeps the invariant. *)
LEMMA HandlerPublishesKeeps ==
  ASSUME IInv, NEW p \in Readers, HandlerPublishes(p) PROVE IInv'
<1>1. PICK m \in Message : msg' = [msg EXCEPT ![p] = m]
  BY DEF HandlerPublishes
<1>2. todo' \in [Readers -> Nat]
  <2>1. todo[p] \in Nat /\ todo[p] # 0
    BY DEF HandlerPublishes, IInv, TypeOK
  <2>2. todo[p] - 1 \in Nat
    BY <2>1
  <2> QED BY <2>2 DEF HandlerPublishes, IInv, TypeOK
<1>3. /\ Go(p, "deliver", "check") /\ RLock(p) /\ UNCHANGED <<subs, closed, queue>>
      /\ queue' \in Seq(Message)
  BY DEF HandlerPublishes, IInv, TypeOK
<1> QED BY <1>1, <1>2, <1>3, Enters DEF InLock, Stages

(* Subscribe adds no subscription that overlaps a writable one. *)
LEMMA SubscribeKeeps == ASSUME IInv, NEW c \in Changers, Subscribe(c) PROVE IInv'
<1>1. PICK s \in Subscription : subs' = IF Accepts(s) THEN subs \cup {s} ELSE subs
  BY DEF Subscribe
<1>2. subs' \subseteq Subscription
  BY <1>1 DEF IInv, TypeOK
<1>3. IsFiniteSet(subs')
  BY <1>1, FS_AddElement DEF IInv, SubsDiffer
<1>4. SubsDiffer'
  <2>1. ASSUME NEW x \in subs', NEW y \in subs', x # y
        PROVE  x.readOnly \/ y.readOnly \/ ~Overlaps(x.filter, y.filter)
    <3>1. \A f, g : Overlaps(f, g) <=> Overlaps(g, f)
      BY DEF Overlaps
    <3>2. CASE x \in subs /\ y \in subs
      BY <3>2, <2>1 DEF IInv, SubsDiffer
    <3>3. CASE ~(x \in subs /\ y \in subs)
      BY <1>1, <2>1, <3>1, <3>3 DEF Accepts
    <3> QED BY <3>2, <3>3
  <2> QED BY <1>3, <2>1 DEF SubsDiffer
<1>5. /\ Go(c, "subscribe", "idle") /\ LockUnlock(c) /\ UNCHANGED <<queue, msg, todo>>
      /\ closed' = closed /\ closed' \in BOOLEAN
  BY DEF Subscribe, IInv, TypeOK
<1> QED BY <1>2, <1>4, <1>5, WriterMoves

(* Unsubscribe keeps the invariant. *)
LEMMA UnsubscribeKeeps == ASSUME IInv, NEW c \in Changers, Unsubscribe(c) PROVE IInv'
<1>1. subs' \subseteq subs
  BY DEF Unsubscribe
<1>2. subs' \subseteq Subscription
  BY <1>1 DEF IInv, TypeOK
<1>3. SubsDiffer'
  BY <1>1, FS_Subset DEF IInv, SubsDiffer
<1>4. /\ Go(c, "unsubscribe", "idle") /\ LockUnlock(c) /\ UNCHANGED <<queue, msg, todo>>
      /\ closed' = closed /\ closed' \in BOOLEAN
  BY DEF Unsubscribe, IInv, TypeOK
<1> QED BY <1>2, <1>3, <1>4, WriterMoves

(* Close finds no reader at the select, since none holds the lock. *)
LEMMA CloseKeeps == ASSUME IInv, NEW c \in Changers, Close(c) PROVE IInv'
<1>1. PICK to \in {"idle", "drain"} : Go(c, "close", to)
  BY DEF Close
<1>2. /\ LockUnlock(c) /\ UNCHANGED <<queue, msg, todo, subs>> /\ closed' = TRUE
      /\ subs' \subseteq Subscription /\ SubsDiffer'
  BY DEF Close, IInv, TypeOK, SubsDiffer
<1> QED BY <1>1, <1>2, WriterMoves

(* Steps of a changer that leave all but its own place and the writer as is *)
LEMMA ChangerKeeps ==
  ASSUME IInv, NEW c \in Changers, NEW op \in {"subscribe", "unsubscribe", "close"},
         Lock(c, op) \/ CloseReturns(c)
  PROVE  IInv'
<1> USE BusAssumption DEF IInv
<1>1. PICK to \in {"subscribe", "unsubscribe", "close", "closed"} :
        /\ pc' = [pc EXCEPT ![c] = to]
        /\ to = "closed" => \A w \in Workers : pc[w] = "stopped"
  BY DEF Lock, CloseReturns, Go
<1>2. /\ UNCHANGED <<subs, queue, closed, msg, todo>>
      /\ lock' \in [readers : SUBSET Readers, waiting : SUBSET Readers, writer : Changers \cup {NoProc}]
      /\ lock'.readers = lock.readers /\ lock'.waiting = lock.waiting
      /\ lock'.writer = NoProc => lock.writer = NoProc
  <2>1. CASE Lock(c, op)
    <3>1. lock' = [lock EXCEPT !.writer = c] /\ UNCHANGED <<subs, queue, closed, msg, todo>>
      BY <2>1 DEF Lock
    <3>2. lock \in [readers : SUBSET Readers, waiting : SUBSET Readers, writer : Changers \cup {NoProc}]
      BY DEF TypeOK
    <3>3. /\ lock' \in [readers : SUBSET Readers, waiting : SUBSET Readers, writer : Changers \cup {NoProc}]
          /\ lock'.readers = lock.readers /\ lock'.waiting = lock.waiting /\ lock'.writer = c
      BY <3>1, <3>2
    <3> QED BY <3>1, <3>3
  <2>2. CASE CloseReturns(c)
    <3>1. lock' = lock /\ UNCHANGED <<subs, queue, closed, msg, todo>>
      BY <2>2 DEF CloseReturns
    <3> QED BY <3>1 DEF TypeOK
  <2> QED BY <2>1, <2>2
<1>3. c \notin Readers /\ c \in Procs
  BY DEF Readers, Procs
<1>4. \A p \in Readers : pc'[p] = pc[p]
  BY <1>1, <1>3 DEF TypeOK, Procs
<1>5. pc' \in [Procs -> Stages \cup {"subscribe", "unsubscribe", "close", "drain", "closed"}]
  BY <1>1 DEF TypeOK, Stages
<1>6. LockUsed'
  BY <1>2, <1>4 DEF LockUsed, TypeOK
<1>7. TypeOK'
  BY <1>2, <1>5, <1>6 DEF TypeOK
<1>8. SelectHoldsLock' /\ SendsOnOpenQueue' /\ SubsDiffer'
  BY <1>2, <1>4 DEF SelectHoldsLock, SendsOnOpenQueue, SubsDiffer
<1>9. StoppedDrained'
  BY <1>2, <1>4 DEF StoppedDrained, Readers
<1>10. ClosedFirst'
  BY <1>1, <1>4 DEF ClosedFirst, TypeOK, Readers
<1>11. RolesApart'
  BY <1>1, <1>4 DEF RolesApart, TypeOK
<1> QED BY <1>7, <1>8, <1>9, <1>10, <1>11

(* Every step of the bus preserves the invariant. *)
LEMMA StepHolds == IInv /\ [Next]_vars => IInv'
<1> SUFFICES ASSUME IInv, [Next]_vars PROVE IInv'
  OBVIOUS
<1>1. CASE UNCHANGED vars
  BY <1>1 DEF vars, IInv, TypeOK, LockUsed, SelectHoldsLock, SendsOnOpenQueue, SubsDiffer,
     StoppedDrained, ClosedFirst, RolesApart
<1>2. ASSUME NEW p \in Readers, Reads(p) PROVE IInv'
  BY <1>2, CheckClosedKeeps, SendKeeps, MatchingKeeps, DeliverKeeps, DeliveredKeeps DEF Reads
<1>3. ASSUME NEW p \in Publishers,
             CallEnqueue(p) \/ Publish(p) \/ Reads(p) \/ GiveUp(p) \/ DeliverCancelled(p)
      PROVE  IInv'
  BY <1>2, <1>3, CallsKeep, GiveUpKeeps, DeliverKeeps DEF Readers
<1>4. ASSUME NEW w \in Workers, Works(w) PROVE IInv'
  BY <1>2, <1>4, ReceiveKeeps, StopKeeps DEF Works, Readers
<1>5. ASSUME NEW c \in Changers, Writes(c) PROVE IInv'
  BY <1>5, SubscribeKeeps, UnsubscribeKeeps, CloseKeeps, ChangerKeeps DEF Writes
<1>6. ASSUME NEW c \in Changers, NEW op \in {"subscribe", "unsubscribe", "close"}, Lock(c, op)
      PROVE  IInv'
  BY <1>6, ChangerKeeps
<1> QED BY <1>1, <1>3, <1>4, <1>5, <1>6, HandlerPublishesKeeps DEF Next

(* The invariant holds in every behaviour of the bus. *)
LEMMA InvariantHolds == Spec => []IInv
<1>1. Init => IInv
  BY InitHolds
<1>2. IInv /\ [Next]_vars => IInv'
  BY StepHolds
<1> QED BY <1>1, <1>2, PTL DEF Spec

(***************************************************************************)
(* The theorems                                                            *)
(***************************************************************************)

(* The state of the bus is well formed: a goroutine is inside its lock     *)
(* exactly where the code stands between RLock and RUnlock.                *)
THEOREM BusTypeCorrect == Spec => []TypeOK
<1>1. IInv => TypeOK
  BY DEF IInv
<1> QED BY <1>1, InvariantHolds, PTL

(* Closing the bus never makes a publisher panic (bus.go, enqueue, Close). *)
THEOREM NeverSendsOnClosed == Spec => []SendsOnOpenQueue
<1>1. IInv => SendsOnOpenQueue
  BY DEF IInv
<1> QED BY <1>1, InvariantHolds, PTL

(* Close returns with every accepted event delivered (bus.go, Close).      *)
THEOREM ClosedIsDrained == Spec => []NothingLeftBehind
<1>1. IInv => NothingLeftBehind
  <2> SUFFICES ASSUME IInv, NEW c \in Changers, pc[c] = "closed"
               PROVE  queue = <<>> /\ \A p \in Readers : pc[p] # "select"
    BY DEF NothingLeftBehind
  <2>1. \A w \in Workers : pc[w] = "stopped"
    BY DEF IInv, ClosedFirst
  <2>2. closed /\ queue = <<>>
    BY <2>1, BusAssumption DEF IInv, StoppedDrained
  <2> QED BY <2>2 DEF IInv, SendsOnOpenQueue
<1> QED BY <1>1, InvariantHolds, PTL

(* At most one writable subscription claims an event (bus.go, Subscribe).  *)
THEOREM AtMostOneWriter == Spec => []OneWriter
<1>1. IInv => OneWriter
  <2> SUFFICES ASSUME IInv, NEW e \in Event, NEW s \in subs, NEW t \in subs,
                      ~s.readOnly, Match(s.filter, e), ~t.readOnly, Match(t.filter, e)
               PROVE  s = t
    BY DEF OneWriter
  <2>1. s.filter \in Filter /\ t.filter \in Filter
    BY DEF IInv, TypeOK, Subscription
  <2>2. Overlaps(s.filter, t.filter)
    BY <2>1, OverlapsExact
  <2> QED BY <2>2 DEF IInv, SubsDiffer
<1> QED BY <1>1, InvariantHolds, PTL

==============================================================================
