--------------------------- MODULE WaitableQueue ---------------------------
(***************************************************************************)
(* exasol::udf::v2::WaitableQueue: a concurrent queue paired with an       *)
(* eventfd that makes it visible to epoll.  Producers store items first    *)
(* and signal the eventfd afterwards; a consumer sleeps in epoll_wait,     *)
(* drains the eventfd and then dequeues until try_dequeue fails.           *)
(*                                                                         *)
(* The storage is a template parameter.  Its weakest instance is the MPMC  *)
(* queue, which is FIFO per producer only and whose try_dequeue visits the *)
(* producers' sub-queues one after the other, so that it may report        *)
(* "empty" although an item arrived behind it.  With one producer this is  *)
(* the SPSC queue.                                                         *)
(*                                                                         *)
(* Interrupted system calls (EINTR) are retried in a loop that changes     *)
(* nothing: they are stuttering steps of this specification.               *)
(***************************************************************************)
EXTENDS Naturals, Sequences

CONSTANTS
  Producers,   \* threads that call enqueue or enqueue_batch
  Consumers,   \* threads that run the epoll loop of the class comment
  MaxCounter,  \* the largest eventfd value (2^64 - 2 in the kernel)
  MaxBatch,    \* bound: items offered by one call
  MaxItems,    \* bound: items one producer stores in a behaviour
  MaxFaults    \* bound: exceptions (failed writes and reads, bad_alloc)

ASSUME QueueAssumption ==
  /\ MaxCounter \in Nat \ {0}
  /\ MaxBatch \in Nat \ {0}
  /\ MaxItems \in Nat
  /\ MaxFaults \in Nat

VARIABLES
  storage,    \* queue_storage: the items of each producer, oldest first
  counter,    \* the value of the eventfd behind notification_fd
  producer,   \* what each producer is doing: its place in the call, how
              \* many items it still offers, how many were stored
  consumer,   \* what each consumer is doing: its place in the loop and the
              \* sub-queues the current try_dequeue has not visited yet
  stored,     \* history: how many items each producer has stored
  delivered,  \* history: the items taken from each producer, in order
  stranded,   \* history: producers whose call stored items and then threw,
              \* with no notification by anyone since
  faults      \* how many exceptions were thrown

vars ==
  <<storage, counter, producer, consumer, stored, delivered, stranded, faults>>

\* The states of a producer and of a consumer.
Busy(pc, left, done) == [pc |-> pc, left |-> left, done |-> done]
Idle == Busy("idle", 0, 0)
At(pc, scan) == [pc |-> pc, scan |-> scan]
Sleeping == At("wait", {})
Scanning == At("dequeue", Producers)

Init ==
  /\ storage = [p \in Producers |-> << >>]
  /\ counter = 0
  /\ producer = [p \in Producers |-> Idle]
  /\ consumer = [c \in Consumers |-> Sleeping]
  /\ stored = [p \in Producers |-> 0]
  /\ delivered = [p \in Producers |-> << >>]
  /\ stranded = {}
  /\ faults = 0

-----------------------------------------------------------------------------
(* Slips: what five actions below would be if the code were wrong.  TLC    *)
(* must reject each of them.                                               *)

\* enqueue_batch returns early when the storage is full and forgets the items
\* it did store.
StoreEndsSilently(p) ==
  /\ producer[p].pc = "store"
  /\ producer' = IF producer[p].left > 0
                 THEN [producer EXCEPT ![p] = Idle]
                 ELSE [producer EXCEPT ![p] = Busy("notify", 0, @.done)]
  /\ UNCHANGED <<storage, counter, consumer, stored, delivered, stranded, faults>>

\* enqueue_batch does not compare first with last before it stores.
StorePastEnd(p) ==
  /\ producer[p].pc = "store"
  /\ storage' = [storage EXCEPT ![p] = Append(@, stored[p] + 1)]
  /\ stored' = [stored EXCEPT ![p] = @ + 1]
  /\ producer' = [producer EXCEPT ![p] = Busy("store", @.left - 1, @.done + 1)]
  /\ UNCHANGED <<counter, consumer, delivered, stranded, faults>>

\* drain_notifications returns without having read until EAGAIN.
DrainEndsEarly(c) ==
  /\ consumer[c].pc = "drain"
  /\ consumer' = [consumer EXCEPT ![c] = Scanning]
  /\ UNCHANGED <<storage, counter, producer, stored, delivered, stranded, faults>>

\* try_dequeue copies the item and leaves it in the queue.
DequeueCopies(c, p) ==
  /\ consumer[c].pc = "dequeue"
  /\ p \in consumer[c].scan
  /\ storage[p] # << >>
  /\ delivered' = [delivered EXCEPT ![p] = Append(@, Head(storage[p]))]
  /\ consumer' = [consumer EXCEPT ![c] = At("dequeue", @.scan \ {p})]
  /\ UNCHANGED <<storage, counter, producer, stored, stranded, faults>>

\* The eventfd is drained after the queue was seen empty instead of before.
SleepDrains(c) ==
  /\ consumer[c].pc = "dequeue"
  /\ consumer[c].scan = {}
  /\ counter' = 0
  /\ consumer' = [consumer EXCEPT ![c] = Sleeping]
  /\ UNCHANGED <<storage, producer, stored, delivered, stranded, faults>>

-----------------------------------------------------------------------------
(* The producer: enqueue is enqueue_batch for one item.                    *)

Call(p, n) ==
  /\ producer[p].pc = "idle"
  /\ stored[p] + n <= MaxItems
  /\ producer' = [producer EXCEPT ![p] = Busy("store", n, 0)]
  /\ UNCHANGED <<storage, counter, consumer, stored, delivered, stranded, faults>>

\* queue_storage.enqueue returned true: the item is visible to consumers.
Store(p) ==
  /\ producer[p].pc = "store"
  /\ producer[p].left > 0
  /\ storage' = [storage EXCEPT ![p] = Append(@, stored[p] + 1)]
  /\ stored' = [stored EXCEPT ![p] = @ + 1]
  /\ producer' = [producer EXCEPT ![p] = Busy("store", @.left - 1, @.done + 1)]
  /\ UNCHANGED <<counter, consumer, delivered, stranded, faults>>

\* The loop ends: no item is left, or queue_storage.enqueue returned false.
\* A call that stored nothing returns without a notification.
StoreEnds(p) ==
  /\ producer[p].pc = "store"
  /\ producer' = IF producer[p].done = 0
                 THEN [producer EXCEPT ![p] = Idle]
                 ELSE [producer EXCEPT ![p] = Busy("notify", 0, @.done)]
  /\ UNCHANGED <<storage, counter, consumer, stored, delivered, stranded, faults>>

\* queue_storage.enqueue or the iterator throws: notify() is skipped.
StoreThrows(p) ==
  /\ producer[p].pc = "store"
  /\ producer[p].left > 0
  /\ faults < MaxFaults
  /\ faults' = faults + 1
  /\ producer' = [producer EXCEPT ![p] = Idle]
  /\ stranded' = IF producer[p].done = 0 THEN stranded ELSE stranded \union {p}
  /\ UNCHANGED <<storage, counter, consumer, stored, delivered>>

\* write_notification adds one; on a saturated counter it fails with EAGAIN
\* and notify() returns as if it had succeeded.
Notify(p) ==
  /\ producer[p].pc = "notify"
  /\ counter' = IF counter < MaxCounter THEN counter + 1 ELSE counter
  /\ producer' = [producer EXCEPT ![p] = Idle]
  /\ stranded' = {}
  /\ UNCHANGED <<storage, consumer, stored, delivered, faults>>

\* Any other error of the write is thrown; the items stay in the queue.
NotifyThrows(p) ==
  /\ producer[p].pc = "notify"
  /\ faults < MaxFaults
  /\ faults' = faults + 1
  /\ producer' = [producer EXCEPT ![p] = Idle]
  /\ stranded' = stranded \union {p}
  /\ UNCHANGED <<storage, counter, consumer, stored, delivered>>

-----------------------------------------------------------------------------
(* The consumer: epoll_wait, drain_notifications, try_dequeue until empty. *)

\* The registration is level triggered: the eventfd is readable while its
\* counter is not zero.
Wake(c) ==
  /\ consumer[c].pc = "wait"
  /\ counter > 0
  /\ consumer' = [consumer EXCEPT ![c] = At("drain", {})]
  /\ UNCHANGED <<storage, counter, producer, stored, delivered, stranded, faults>>

\* read_notification takes the whole counter; drain_notifications reads on.
Drain(c) ==
  /\ consumer[c].pc = "drain"
  /\ counter > 0
  /\ counter' = 0
  /\ UNCHANGED <<storage, producer, consumer, stored, delivered, stranded, faults>>

\* The read fails with EAGAIN: drain_notifications returns, the consumer
\* starts to dequeue.
DrainEnds(c) ==
  /\ consumer[c].pc = "drain"
  /\ counter = 0
  /\ consumer' = [consumer EXCEPT ![c] = Scanning]
  /\ UNCHANGED <<storage, counter, producer, stored, delivered, stranded, faults>>

\* Any other error of the read is thrown out of the consumer's loop.
DrainThrows(c) ==
  /\ consumer[c].pc = "drain"
  /\ faults < MaxFaults
  /\ faults' = faults + 1
  /\ consumer' = [consumer EXCEPT ![c] = At("failed", {})]
  /\ UNCHANGED <<storage, counter, producer, stored, delivered, stranded>>

\* try_dequeue finds an item in the sub-queue of p and returns it; the next
\* call visits every sub-queue again.
Dequeue(c, p) ==
  /\ consumer[c].pc = "dequeue"
  /\ p \in consumer[c].scan
  /\ storage[p] # << >>
  /\ delivered' = [delivered EXCEPT ![p] = Append(@, Head(storage[p]))]
  /\ storage' = [storage EXCEPT ![p] = Tail(@)]
  /\ consumer' = [consumer EXCEPT ![c] = Scanning]
  /\ UNCHANGED <<counter, producer, stored, stranded, faults>>

\* The sub-queue of p is empty when it is visited.
SkipEmpty(c, p) ==
  /\ consumer[c].pc = "dequeue"
  /\ p \in consumer[c].scan
  /\ storage[p] = << >>
  /\ consumer' = [consumer EXCEPT ![c] = At("dequeue", @.scan \ {p})]
  /\ UNCHANGED <<storage, counter, producer, stored, delivered, stranded, faults>>

\* try_dequeue returned false: back to epoll_wait.
Sleep(c) ==
  /\ consumer[c].pc = "dequeue"
  /\ consumer[c].scan = {}
  /\ consumer' = [consumer EXCEPT ![c] = Sleeping]
  /\ UNCHANGED <<storage, counter, producer, stored, delivered, stranded, faults>>

-----------------------------------------------------------------------------
Produce(p) == Store(p) \/ StoreEnds(p) \/ Notify(p)
Fault(p) == StoreThrows(p) \/ NotifyThrows(p)
Consume(c) ==
  \/ Wake(c) \/ Drain(c) \/ DrainEnds(c) \/ Sleep(c)
  \/ \E p \in Producers : Dequeue(c, p) \/ SkipEmpty(c, p)

Next ==
  \/ \E p \in Producers :
       \/ \E n \in 0 .. MaxBatch : Call(p, n)
       \/ Produce(p)
       \/ Fault(p)
  \/ \E c \in Consumers : Consume(c) \/ DrainThrows(c)

\* A call that has begun ends, and a consumer that can run does; nothing
\* makes a producer call again.
Fairness ==
  /\ \A p \in Producers : WF_vars(Produce(p))
  /\ \A c \in Consumers : WF_vars(Consume(c))

Spec == Init /\ [][Next]_vars
FairSpec == Spec /\ Fairness

-----------------------------------------------------------------------------
TypeOK ==
  /\ storage \in [Producers -> Seq(Nat)]
  /\ counter \in 0 .. MaxCounter
  /\ producer \in [Producers -> [pc : {"idle", "store", "notify"},
                                 left : Nat, done : Nat]]
  /\ consumer \in [Consumers -> [pc : {"wait", "drain", "dequeue", "failed"},
                                 scan : SUBSET Producers]]
  /\ stored \in [Producers -> Nat]
  /\ delivered \in [Producers -> Seq(Nat)]
  /\ stranded \in SUBSET Producers
  /\ faults \in Nat

\* The producer still has to end its call with a notification.
WillNotify(p) == producer[p].done > 0

\* The consumer is on its way to look into the sub-queue of p.
WillVisit(c, p) == consumer[c].pc = "drain" \/ p \in consumer[c].scan

SomeConsumerFailed == \E c \in Consumers : consumer[c].pc = "failed"

\* No lost wakeup: an item that waits in the queue is going to be noticed.
\* Either the eventfd is readable, or its producer has not signalled yet, or
\* a consumer that is awake still visits that sub-queue.  The exceptions are
\* the ones the code has: a call that threw between storing and signalling,
\* and a consumer whose drain threw after it consumed the signal.
NoLostWakeup ==
  \A p \in Producers :
    storage[p] # << >> =>
      \/ counter > 0
      \/ WillNotify(p)
      \/ \E c \in Consumers : WillVisit(c, p)
      \/ p \in stranded
      \/ SomeConsumerFailed

\* The queue implements a mailbox in which every waiting item is taken: a
\* store is a Put, a successful try_dequeue is a Take, and the eventfd is an
\* implementation detail that never keeps a Take from happening.
Mailbox == INSTANCE MailboxSpec WITH box <- storage, out <- delivered
ImplementsMailbox == Mailbox!Spec
ImplementsFairMailbox == Mailbox!FairSpec

\* The consumers do not spin: once the producers make no more calls, they
\* all end up asleep with the eventfd drained.  (MaxFaults = 0.)
Quiescence ==
  <>[](\A p \in Producers : producer[p].pc = "idle")
    => <>[](counter = 0 /\ \A c \in Consumers : consumer[c].pc = "wait")
=============================================================================
