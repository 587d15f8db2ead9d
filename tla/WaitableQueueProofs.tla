------------------------ MODULE WaitableQueueProofs ------------------------
(***************************************************************************)
(* Proofs about WaitableQueue, for any sets of producers and consumers and *)
(* any limits: no wakeup is lost, and the queue implements a mailbox.      *)
(***************************************************************************)
EXTENDS WaitableQueue, TLAPS

\* Type correctness: in particular the eventfd counter never passes the limit
\* at which the kernel makes write_notification fail.
THEOREM TypeCorrect == Spec => []TypeOK
<1>1. Init => TypeOK
  BY QueueAssumption DEF Init, TypeOK, Idle, Busy, Sleeping, At
<1>2. TypeOK /\ [Next]_vars => TypeOK'
  <2> SUFFICES ASSUME TypeOK, [Next]_vars PROVE TypeOK'
    OBVIOUS
  <2> USE DEF TypeOK
  <2>1. ASSUME NEW p \in Producers, NEW n \in 0 .. MaxBatch, Call(p, n)
        PROVE  TypeOK'
    BY <2>1, QueueAssumption DEF Call, Busy
  <2>2. ASSUME NEW p \in Producers, Store(p) PROVE TypeOK'
    <3>1. stored[p] + 1 \in Nat
      OBVIOUS
    <3>2. storage' \in [Producers -> Seq(Nat)]
      BY <2>2, <3>1 DEF Store, Busy
    <3> QED BY <2>2, <3>1, <3>2 DEF Store, Busy
  <2>3. ASSUME NEW p \in Producers, StoreEnds(p) PROVE TypeOK'
    BY <2>3 DEF StoreEnds, Idle, Busy
  <2>4. ASSUME NEW p \in Producers, Notify(p) PROVE TypeOK'
    BY <2>4, QueueAssumption DEF Notify, Idle, Busy
  <2>5. ASSUME NEW p \in Producers, StoreThrows(p) PROVE TypeOK'
    BY <2>5 DEF StoreThrows, Idle, Busy
  <2>6. ASSUME NEW p \in Producers, NotifyThrows(p) PROVE TypeOK'
    BY <2>6 DEF NotifyThrows, Idle, Busy
  <2>7. ASSUME NEW c \in Consumers, Wake(c) PROVE TypeOK'
    BY <2>7 DEF Wake, At
  <2>8. ASSUME NEW c \in Consumers, Drain(c) PROVE TypeOK'
    BY <2>8, QueueAssumption DEF Drain
  <2>9. ASSUME NEW c \in Consumers, DrainEnds(c) PROVE TypeOK'
    BY <2>9 DEF DrainEnds, Scanning, At
  <2>10. ASSUME NEW c \in Consumers, DrainThrows(c) PROVE TypeOK'
    BY <2>10 DEF DrainThrows, At
  <2>11. ASSUME NEW c \in Consumers, NEW p \in Producers, Dequeue(c, p)
         PROVE  TypeOK'
    <3>1. Head(storage[p]) \in Nat /\ Tail(storage[p]) \in Seq(Nat)
      BY <2>11 DEF Dequeue
    <3>2. storage' \in [Producers -> Seq(Nat)]
      BY <2>11, <3>1 DEF Dequeue
    <3>3. delivered' \in [Producers -> Seq(Nat)]
      BY <2>11, <3>1 DEF Dequeue
    <3> QED BY <2>11, <3>2, <3>3 DEF Dequeue, Scanning, At
  <2>12. ASSUME NEW c \in Consumers, NEW p \in Producers, SkipEmpty(c, p)
         PROVE  TypeOK'
    BY <2>12 DEF SkipEmpty, At
  <2>13. ASSUME NEW c \in Consumers, Sleep(c) PROVE TypeOK'
    BY <2>13 DEF Sleep, Sleeping, At
  <2>14. CASE UNCHANGED vars
    BY <2>14 DEF vars
  <2> QED
    BY <2>1, <2>2, <2>3, <2>4, <2>5, <2>6, <2>7, <2>8, <2>9, <2>10, <2>11,
       <2>12, <2>13, <2>14 DEF Next, Produce, Fault, Consume
<1> QED BY <1>1, <1>2, PTL DEF Spec

-----------------------------------------------------------------------------
(* NoLostWakeup needs one more fact to be inductive: a producer between    *)
(* calls owes no notification.                                             *)

IdleOwesNothing ==
  \A p \in Producers : producer[p].pc = "idle" => producer[p].done = 0

WakeupInv == TypeOK /\ IdleOwesNothing /\ NoLostWakeup

\* A new queue is empty, and nobody is in a call.
LEMMA WakeupInit == Init => WakeupInv
<1> SUFFICES ASSUME Init PROVE WakeupInv
  OBVIOUS
<1>1. TypeOK
  BY QueueAssumption DEF Init, TypeOK, Idle, Busy, Sleeping, At
<1> QED BY <1>1 DEF Init, WakeupInv, IdleOwesNothing, NoLostWakeup, Idle, Busy

\* What the wakeup of one sub-queue rests on.
Noticed(p) ==
  \/ counter > 0
  \/ WillNotify(p)
  \/ \E c \in Consumers : WillVisit(c, p)
  \/ p \in stranded
  \/ SomeConsumerFailed

\* Every step of a producer, of a consumer and of the event descriptor keeps
\* the promise of a wake-up.
LEMMA WakeupStep == TypeOK' /\ WakeupInv /\ [Next]_vars => WakeupInv'
<1> SUFFICES ASSUME TypeOK', WakeupInv, [Next]_vars
             PROVE  IdleOwesNothing' /\ NoLostWakeup'
  BY DEF WakeupInv
<1>1. \A q \in Producers : storage[q] # << >> => Noticed(q)
  BY DEF WakeupInv, NoLostWakeup, Noticed
<1>2. SUFFICES /\ IdleOwesNothing'
               /\ \A q \in Producers : storage'[q] # << >> => Noticed(q)'
  BY DEF NoLostWakeup, Noticed
<1>3. TypeOK /\ IdleOwesNothing
  BY DEF WakeupInv
<1> DEFINE Goal == /\ IdleOwesNothing'
                   /\ \A q \in Producers : storage'[q] # << >> => Noticed(q)'
<1>a. ASSUME UNCHANGED producer PROVE IdleOwesNothing'
  BY <1>3, <1>a DEF IdleOwesNothing
\* Steps of a producer leave the consumers alone.
<1>b. ASSUME UNCHANGED consumer, NEW q \in Producers,
             \E c \in Consumers : WillVisit(c, q)
      PROVE  Noticed(q)'
  BY <1>b DEF Noticed, WillVisit
<1>c. ASSUME UNCHANGED consumer, SomeConsumerFailed, NEW q \in Producers
      PROVE  Noticed(q)'
  BY <1>c DEF Noticed, SomeConsumerFailed
\* A producer step that neither signals nor stores, seen from sub-queue q.
<1>d. ASSUME UNCHANGED <<storage, counter, consumer>>, NEW q \in Producers,
             stranded \subseteq stranded', storage'[q] # << >>,
             WillNotify(q) => WillNotify(q)' \/ q \in stranded'
      PROVE  Noticed(q)'
  BY <1>1, <1>b, <1>c, <1>d DEF Noticed
<1>4. ASSUME NEW p \in Producers, NEW n \in 0 .. MaxBatch, Call(p, n) PROVE Goal
  <2>1. ASSUME NEW q \in Producers, WillNotify(q) PROVE WillNotify(q)'
    BY <1>3, <1>4, <2>1 DEF Call, Busy, WillNotify, IdleOwesNothing, TypeOK
  <2>2. IdleOwesNothing'
    BY <1>3, <1>4 DEF Call, Busy, IdleOwesNothing, TypeOK
  <2> QED BY <1>4, <1>d, <2>1, <2>2 DEF Call
<1>5. ASSUME NEW p \in Producers, Store(p) PROVE Goal
  \* The producer that made its sub-queue non-empty owes a notification.
  <2>1. WillNotify(p)' /\ IdleOwesNothing'
    BY <1>3, <1>5 DEF Store, Busy, WillNotify, IdleOwesNothing, TypeOK
  <2>2. ASSUME NEW q \in Producers, q # p, storage'[q] # << >> PROVE Noticed(q)'
    <3>1. storage[q] # << >> /\ producer'[q] = producer[q]
      BY <1>3, <1>5, <2>2 DEF Store, TypeOK
    <3> QED BY <1>1, <1>5, <1>b, <1>c, <3>1 DEF Store, Noticed, WillNotify
  <2> QED BY <2>1, <2>2 DEF Noticed
<1>6. ASSUME NEW p \in Producers, StoreEnds(p) PROVE Goal
  <2>1. ASSUME NEW q \in Producers, WillNotify(q) PROVE WillNotify(q)'
    BY <1>3, <1>6, <2>1 DEF StoreEnds, Busy, Idle, WillNotify, TypeOK
  <2>2. IdleOwesNothing'
    BY <1>3, <1>6 DEF StoreEnds, Busy, Idle, IdleOwesNothing, TypeOK
  <2> QED BY <1>6, <1>d, <2>1, <2>2 DEF StoreEnds
<1>7. ASSUME NEW p \in Producers, Notify(p) PROVE Goal
  \* Saturated or not, the eventfd is readable afterwards.
  <2>1. counter' > 0
    BY <1>3, <1>7, QueueAssumption DEF Notify, TypeOK
  <2>2. IdleOwesNothing'
    BY <1>3, <1>7 DEF Notify, Busy, Idle, IdleOwesNothing, TypeOK
  <2> QED BY <2>1, <2>2 DEF Noticed
<1>8. ASSUME NEW p \in Producers, StoreThrows(p) PROVE Goal
  <2>1. ASSUME NEW q \in Producers, WillNotify(q)
        PROVE  WillNotify(q)' \/ q \in stranded'
    BY <1>3, <1>8, <2>1 DEF StoreThrows, WillNotify, TypeOK
  <2>2. IdleOwesNothing'
    BY <1>3, <1>8 DEF StoreThrows, Busy, Idle, IdleOwesNothing, TypeOK
  <2> QED BY <1>8, <1>d, <2>1, <2>2 DEF StoreThrows
<1>9. ASSUME NEW p \in Producers, NotifyThrows(p) PROVE Goal
  <2>1. ASSUME NEW q \in Producers, WillNotify(q)
        PROVE  WillNotify(q)' \/ q \in stranded'
    BY <1>3, <1>9, <2>1 DEF NotifyThrows, WillNotify, TypeOK
  <2>2. IdleOwesNothing'
    BY <1>3, <1>9 DEF NotifyThrows, Busy, Idle, IdleOwesNothing, TypeOK
  <2> QED BY <1>9, <1>d, <2>1, <2>2 DEF NotifyThrows
<1>10. ASSUME NEW c \in Consumers, Wake(c) PROVE Goal
  <2>1. counter' > 0
    BY <1>10 DEF Wake
  <2> QED BY <1>10, <1>a, <2>1 DEF Wake, Noticed
<1>11. ASSUME NEW c \in Consumers, Drain(c) PROVE Goal
  \* The consumer that took the signal is the one that will look.
  <2>1. \A q \in Producers : WillVisit(c, q)'
    BY <1>11 DEF Drain, WillVisit
  <2> QED BY <1>11, <1>a, <2>1 DEF Drain, Noticed
<1>12. ASSUME NEW c \in Consumers, DrainEnds(c) PROVE Goal
  <2>1. \A q \in Producers : WillVisit(c, q)'
    BY <1>3, <1>12 DEF DrainEnds, WillVisit, Scanning, At, TypeOK
  <2> QED BY <1>12, <1>a, <2>1 DEF DrainEnds, Noticed
<1>13. ASSUME NEW c \in Consumers, DrainThrows(c) PROVE Goal
  <2>1. SomeConsumerFailed'
    BY <1>3, <1>13 DEF DrainThrows, SomeConsumerFailed, At, TypeOK
  <2> QED BY <1>13, <1>a, <2>1 DEF DrainThrows, Noticed
<1>14. ASSUME NEW c \in Consumers, NEW p \in Producers, Dequeue(c, p) PROVE Goal
  <2>1. \A q \in Producers : WillVisit(c, q)'
    BY <1>3, <1>14 DEF Dequeue, WillVisit, Scanning, At, TypeOK
  <2> QED BY <1>14, <1>a, <2>1 DEF Dequeue, Noticed
<1>15. ASSUME NEW c \in Consumers, NEW p \in Producers, SkipEmpty(c, p) PROVE Goal
  \* The only sub-queue the consumer crosses off is empty.
  <2>1. ASSUME NEW q \in Producers, q # p, NEW d \in Consumers, WillVisit(d, q)
        PROVE  WillVisit(d, q)'
    BY <1>3, <1>15, <2>1 DEF SkipEmpty, WillVisit, At, TypeOK
  <2>2. SomeConsumerFailed => SomeConsumerFailed'
    BY <1>3, <1>15 DEF SkipEmpty, SomeConsumerFailed, At, TypeOK
  <2> QED BY <1>1, <1>15, <1>a, <2>1, <2>2 DEF SkipEmpty, Noticed, WillNotify
<1>16. ASSUME NEW c \in Consumers, Sleep(c) PROVE Goal
  <2>1. ASSUME NEW q \in Producers, NEW d \in Consumers, WillVisit(d, q)
        PROVE  WillVisit(d, q)'
    BY <1>3, <1>16, <2>1 DEF Sleep, WillVisit, TypeOK
  <2>2. SomeConsumerFailed => SomeConsumerFailed'
    BY <1>3, <1>16 DEF Sleep, SomeConsumerFailed, Sleeping, At, TypeOK
  <2> QED BY <1>1, <1>16, <1>a, <2>1, <2>2 DEF Sleep, Noticed, WillNotify
<1>17. CASE UNCHANGED vars
  BY <1>1, <1>17, <1>a, <1>b, <1>c DEF vars, Noticed, WillNotify
<1> QED
  BY <1>4, <1>5, <1>6, <1>7, <1>8, <1>9, <1>10, <1>11, <1>12, <1>13, <1>14,
     <1>15, <1>16, <1>17 DEF Next, Produce, Fault, Consume

\* No wakeup is lost, whatever the number of threads, the batch sizes and the
\* limit of the eventfd, as long as no call threw between enqueue and notify.
THEOREM WakeupsAreNotLost == Spec => []NoLostWakeup
<1>1. WakeupInv => NoLostWakeup
  BY DEF WakeupInv
<1> QED BY <1>1, WakeupInit, WakeupStep, TypeCorrect, PTL DEF Spec

-----------------------------------------------------------------------------
(* The refinement needs to know that the item a producer stores next is    *)
(* the one after those waiting and those taken.                            *)

NumberedInv ==
  \A p \in Producers : stored[p] = Len(storage[p]) + Len(delivered[p])

\* A new queue has stored nothing.
LEMMA NumberedInit == Init => NumberedInv
<1> SUFFICES ASSUME Init, NEW p \in Producers
             PROVE  stored[p] = Len(storage[p]) + Len(delivered[p])
  BY DEF NumberedInv
<1>1. stored[p] = 0 /\ storage[p] = << >> /\ delivered[p] = << >>
  BY DEF Init
<1>2. Len(<< >>) = 0
  OBVIOUS
<1> QED BY <1>1, <1>2

\* Every step counts what it stores or takes.
LEMMA NumberedStep == TypeOK /\ NumberedInv /\ [Next]_vars => NumberedInv'
<1> SUFFICES ASSUME TypeOK, NumberedInv, [Next]_vars PROVE NumberedInv'
  OBVIOUS
<1>1. ASSUME UNCHANGED <<storage, stored, delivered>> PROVE NumberedInv'
  BY <1>1 DEF NumberedInv
<1>2. ASSUME NEW p \in Producers, Store(p) PROVE NumberedInv'
  <2>1. Len(Append(storage[p], stored[p] + 1)) = Len(storage[p]) + 1
    BY DEF TypeOK
  <2>2. Len(storage[p]) \in Nat /\ Len(delivered[p]) \in Nat
    BY DEF TypeOK
  <2>3. /\ stored' = [stored EXCEPT ![p] = stored[p] + 1]
        /\ storage' = [storage EXCEPT ![p] = Append(storage[p], stored[p] + 1)]
        /\ delivered' = delivered
    BY <1>2 DEF Store
  <2>4. stored'[p] = Len(storage'[p]) + Len(delivered'[p])
    BY <2>1, <2>2, <2>3 DEF NumberedInv, TypeOK
  <2>5. ASSUME NEW q \in Producers, q # p
        PROVE  stored'[q] = Len(storage'[q]) + Len(delivered'[q])
    BY <2>3, <2>5 DEF NumberedInv, TypeOK
  <2> QED BY <2>4, <2>5 DEF NumberedInv
<1>3. ASSUME NEW c \in Consumers, NEW p \in Producers, Dequeue(c, p)
      PROVE  NumberedInv'
  <2>1. Len(Tail(storage[p])) = Len(storage[p]) - 1 /\ Len(storage[p]) \in Nat
    BY <1>3 DEF Dequeue, TypeOK
  <2>2. Len(Append(delivered[p], Head(storage[p]))) = Len(delivered[p]) + 1
    BY <1>3 DEF Dequeue, TypeOK
  <2> QED BY <1>3, <2>1, <2>2 DEF Dequeue, NumberedInv, TypeOK
<1> QED
  BY <1>1, <1>2, <1>3 DEF Next, Produce, Fault, Consume, Call, StoreEnds,
     Notify, StoreThrows, NotifyThrows, Wake, Drain, DrainEnds, DrainThrows,
     SkipEmpty, Sleep, vars

\* Every step of the queue is a Put, a Take or a stuttering step of the
\* mailbox.
LEMMA MailboxStep == TypeOK /\ NumberedInv /\ [Next]_vars => [Mailbox!Next]_(Mailbox!vars)
<1> SUFFICES ASSUME TypeOK, NumberedInv, [Next]_vars
             PROVE  [Mailbox!Next]_(Mailbox!vars)
  OBVIOUS
<1>1. ASSUME UNCHANGED <<storage, delivered>> PROVE [Mailbox!Next]_(Mailbox!vars)
  BY <1>1 DEF Mailbox!vars
<1>2. ASSUME NEW p \in Producers, Store(p) PROVE Mailbox!Put(p)
  BY <1>2 DEF Store, NumberedInv, TypeOK, Mailbox!Put
<1>3. ASSUME NEW c \in Consumers, NEW p \in Producers, Dequeue(c, p)
      PROVE  Mailbox!Take(p)
  BY <1>3 DEF Dequeue, Mailbox!Take
<1> QED
  BY <1>1, <1>2, <1>3 DEF Next, Produce, Fault, Consume, Call, StoreEnds,
     Notify, StoreThrows, NotifyThrows, Wake, Drain, DrainEnds, DrainThrows,
     SkipEmpty, Sleep, vars, Mailbox!Next

\* The waitable queue implements the mailbox: the items of one producer leave
\* in the order they were stored, each exactly once, for any number of
\* producers and consumers and also when calls throw.
THEOREM QueueIsMailbox == Spec => ImplementsMailbox
<1>1. Init => Mailbox!Init
  BY DEF Init, Mailbox!Init
<1> QED
  BY <1>1, NumberedInit, NumberedStep, MailboxStep, TypeCorrect, PTL
     DEF Spec, ImplementsMailbox, Mailbox!Spec
=============================================================================
