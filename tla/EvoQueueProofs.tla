--------------------------- MODULE EvoQueueProofs ---------------------------
(***************************************************************************)
(* Theorems about EvoQueue, for every set of producers and of consumers,   *)
(* every maxLen, and every number of clears and of spurious wake-ups.      *)
(***************************************************************************)
EXTENDS EvoQueue, FiniteSetTheorems, TLAPS

-----------------------------------------------------------------------------
(***************************************************************************)
(* Types.                                                                  *)
(***************************************************************************)

\* A producer is never a consumer, and waits in a state of its own.
LEMMA Sides ==
  ASSUME QueueTypeOK
  PROVE  /\ Waiting("full_wait") \subseteq Producers
         /\ Waiting("full_woken") \subseteq Producers
         /\ Waiting("empty_wait") \subseteq Consumers
  BY QueueAssumption
  DEF QueueTypeOK, Waiting, Threads, ProducerStates, ConsumerStates

\* notify_one on the condition of the consumers.
LEMMA NotifyConsumer ==
  ASSUME QueueTypeOK, NEW p \in Producers,
         NotifyOne("empty_wait", "empty_woken", p, "idle")
  PROVE  /\ at' \in [Threads -> ProducerStates \cup ConsumerStates]
         /\ at'[p] = "idle"
         /\ \A q \in Producers \ {p} : at'[q] = at[q]
         /\ \A c \in Consumers : at'[c] \in ConsumerStates
         /\ stranded' = stranded
<1> USE QueueAssumption DEF QueueTypeOK, Threads, ProducerStates, ConsumerStates
<1>1. CASE at' = [at EXCEPT ![p] = "idle"] /\ UNCHANGED stranded
  BY <1>1
<1>2. ASSUME NEW u \in Waiting("empty_wait"),
             at' = [at EXCEPT ![p] = "idle", ![u] = "empty_woken"],
             stranded' = stranded \ {u}
      PROVE  /\ at' \in [Threads -> ProducerStates \cup ConsumerStates]
             /\ at'[p] = "idle"
             /\ \A q \in Producers \ {p} : at'[q] = at[q]
             /\ \A c \in Consumers : at'[c] \in ConsumerStates
             /\ stranded' = stranded
  <2>1. u \in Consumers /\ u \notin Producers
    BY Sides
  <2> QED
    BY <1>2, <2>1
<1> QED
  BY <1>1, <1>2 DEF NotifyOne

\* notify_one on the condition of the producers.
LEMMA NotifyProducer ==
  ASSUME QueueTypeOK, NEW c \in Consumers,
         NotifyOne("full_wait", "full_woken", c, "idle")
  PROVE  /\ at' \in [Threads -> ProducerStates \cup ConsumerStates]
         /\ at'[c] = "idle"
         /\ \A d \in Consumers \ {c} : at'[d] = at[d]
         /\ \/ /\ Waiting("full_wait") = {}
               /\ \A p \in Producers : at'[p] = at[p]
               /\ stranded' = stranded
            \/ \E u \in Waiting("full_wait") :
                 /\ at'[u] = "full_woken"
                 /\ \A p \in Producers \ {u} : at'[p] = at[p]
                 /\ stranded' = stranded \ {u}
<1> USE QueueAssumption DEF QueueTypeOK, Threads, ProducerStates, ConsumerStates
<1>1. CASE Waiting("full_wait") = {} /\ at' = [at EXCEPT ![c] = "idle"]
           /\ UNCHANGED stranded
  BY <1>1
<1>2. ASSUME NEW u \in Waiting("full_wait"),
             at' = [at EXCEPT ![c] = "idle", ![u] = "full_woken"],
             stranded' = stranded \ {u}
      PROVE  /\ at' \in [Threads -> ProducerStates \cup ConsumerStates]
             /\ at'[c] = "idle"
             /\ \A d \in Consumers \ {c} : at'[d] = at[d]
             /\ at'[u] = "full_woken"
             /\ \A p \in Producers \ {u} : at'[p] = at[p]
  <2>1. u \in Producers /\ u \notin Consumers
    BY Sides
  <2> QED
    BY <1>2, <2>1
<1> QED
  BY <1>1, <1>2 DEF NotifyOne

\* The types of the initial state.
LEMMA QueueTypeInit ==
  ASSUME QueueInit
  PROVE  QueueTypeOK
<1>1. at \in [Threads -> ProducerStates \cup ConsumerStates]
  BY DEF QueueInit, ProducerStates
<1>2. /\ \A p \in Producers : at[p] \in ProducerStates
      /\ \A c \in Consumers : at[c] \in ConsumerStates
  BY DEF QueueInit, Threads, ProducerStates, ConsumerStates
<1>3. offer \in [Producers -> Nat] /\ list \in Seq(Nat)
  BY DEF QueueInit
<1>4. /\ ctl \in {"idle", "notify", "empty"}
      /\ isStop \in BOOLEAN /\ forceQuit \in BOOLEAN
      /\ clears \in Nat /\ spurious \in Nat
      /\ stranded \subseteq Producers
  BY DEF QueueInit
<1> QED
  BY <1>1, <1>2, <1>3, <1>4 DEF QueueTypeOK

\* What a program may call: Enqueue with any packet, Clear any number of times.
QueueCalls ==
  \/ \E p \in Producers :
       \/ \E v \in Nat : EnqueueTests(p, v)
       \/ EnqueueRefuses(p) \/ EnqueueWaits(p) \/ EnqueuePushes(p)
  \/ \E c \in Consumers : Dequeue(c)
  \/ \E t \in Threads : SpuriousWakeup(t)
  \/ ClearSetsStop \/ ClearNotifies \/ ClearEmpties \/ Restart

\* Every call keeps the types.
LEMMA QueueTypeCalls ==
  ASSUME QueueTypeOK, [QueueCalls]_queueVars
  PROVE  QueueTypeOK'
<1> USE QueueAssumption DEF QueueTypeOK, Threads, ProducerStates, ConsumerStates
<1>1. ASSUME NEW p \in Producers, NEW v \in Nat, EnqueueTests(p, v)
      PROVE  QueueTypeOK'
  BY <1>1 DEF EnqueueTests, flags, history
<1>2. ASSUME NEW p \in Producers, EnqueueWaits(p)
      PROVE  QueueTypeOK'
  BY <1>2 DEF EnqueueWaits, flags, history
<1>3. ASSUME NEW p \in Producers, EnqueuePushes(p)
      PROVE  QueueTypeOK'
  <2>1. UNCHANGED <<offer, ctl, flags, clears, spurious>>
    BY <1>3 DEF EnqueuePushes, Push
  <2>2. CASE at' = [at EXCEPT ![p] = "idle"] /\ UNCHANGED <<list, stranded>>
    BY <2>1, <2>2 DEF flags
  <2>3. CASE /\ list' = Append(list, offer[p])
             /\ NotifyOne("empty_wait", "empty_woken", p, "idle")
    <3>1. list' \in Seq(Nat)
      BY <2>3
    <3> QED
      BY <2>1, <2>3, <3>1, NotifyConsumer DEF flags
  <2> QED
    BY <1>3, <2>2, <2>3 DEF EnqueuePushes, Push
<1>4. ASSUME NEW c \in Consumers,
             DequeueTests(c) \/ DequeueWaits(c) \/ DequeueGivesUp(c)
      PROVE  QueueTypeOK'
  BY <1>4 DEF DequeueTests, DequeueWaits, DequeueGivesUp, flags, history
<1>5. ASSUME NEW c \in Consumers, DequeuePops(c)
      PROVE  QueueTypeOK'
  <2>1. UNCHANGED <<offer, ctl, flags, clears, spurious>> /\ list' \in Seq(Nat)
    BY <1>5 DEF DequeuePops
  <2>2. /\ at' \in [Threads -> ProducerStates \cup ConsumerStates]
        /\ \A p \in Producers : at'[p] \in ProducerStates
        /\ \A d \in Consumers : at'[d] \in ConsumerStates
        /\ stranded' \subseteq Producers
    BY <1>5, NotifyProducer, Sides DEF DequeuePops
  <2> QED
    BY <2>1, <2>2 DEF flags
<1>6. ASSUME NEW t \in Threads, SpuriousWakeup(t)
      PROVE  QueueTypeOK'
  BY <1>6 DEF SpuriousWakeup, flags
<1>7. ASSUME ClearNotifies
      PROVE  QueueTypeOK'
  <2>1. \A t \in Threads :
          at'[t] = CASE at[t] = "full_wait" -> "full_woken"
                     [] at[t] = "empty_wait" -> "empty_woken"
                     [] OTHER -> at[t]
    BY <1>7 DEF ClearNotifies, NotifyAll
  <2>2. at' \in [Threads -> ProducerStates \cup ConsumerStates]
    BY <1>7 DEF ClearNotifies, NotifyAll
  <2>3. \A p \in Producers : at'[p] \in ProducerStates
    BY <2>1
  <2>4. \A c \in Consumers : at'[c] \in ConsumerStates
    BY <2>1
  <2> QED
    BY <1>7, <2>2, <2>3, <2>4 DEF ClearNotifies, NotifyAll, flags
<1>8. CASE ClearSetsStop
  BY <1>8 DEF ClearSetsStop
<1>9. CASE ClearEmpties
  BY <1>9, Sides DEF ClearEmpties, flags
<1>10. CASE Restart
  BY <1>10 DEF Restart, history
<1>11. CASE UNCHANGED queueVars
  BY <1>11 DEF queueVars
<1> QED
  BY <1>1, <1>2, <1>3, <1>4, <1>5, <1>6, <1>7, <1>8, <1>9, <1>10, <1>11
  DEF QueueCalls, EnqueueRefuses, Dequeue

\* Every step keeps the types.
LEMMA QueueTypeStep ==
  ASSUME QueueTypeOK, [QueueNext]_queueVars
  PROVE  QueueTypeOK'
<1>1. clears \in Nat
  BY DEF QueueTypeOK
<1>2. [QueueCalls]_queueVars
  BY <1>1 DEF QueueNext, QueueCalls, Enqueue, ClearAndRestart
<1> QED
  BY <1>2, QueueTypeCalls


-----------------------------------------------------------------------------
(***************************************************************************)
(* Room.                                                                   *)
(***************************************************************************)

\* The producers that wait for a notification that is still to come.
Owed == Waiting("full_wait") \ stranded

\* Committed is the size of a finite set of producers.
LEMMA CommittedType ==
  ASSUME QueueTypeOK
  PROVE  /\ IsFiniteSet(Waiting("full_woken"))
         /\ Committed \in 0 .. Cardinality(Producers)
         /\ Cardinality(Producers) \in Nat
         /\ \A p \in Producers \ Waiting("full_woken") :
              Committed < Cardinality(Producers)
<1>1. Waiting("full_woken") \subseteq Producers
  BY Sides
<1>2. IsFiniteSet(Waiting("full_woken")) /\ Committed <= Cardinality(Producers)
  BY <1>1, QueueAssumption, FS_Subset DEF Committed
<1>3. Committed \in Nat /\ Cardinality(Producers) \in Nat
  BY <1>2, QueueAssumption, FS_CardinalityType DEF Committed
<1>4. ASSUME NEW p \in Producers \ Waiting("full_woken")
      PROVE  Committed # Cardinality(Producers)
  BY <1>1, <1>4, QueueAssumption, FS_Subset DEF Committed
<1> QED
  BY <1>2, <1>3, <1>4

\* One notified producer more.
LEMMA CommittedAdds ==
  ASSUME QueueTypeOK, NEW p \in Producers \ Waiting("full_woken"),
         Waiting("full_woken")' = Waiting("full_woken") \cup {p}
  PROVE  Committed' = Committed + 1
  BY CommittedType, FS_AddElement DEF Committed

\* One notified producer fewer.
LEMMA CommittedRemoves ==
  ASSUME QueueTypeOK, NEW p \in Waiting("full_woken"),
         Waiting("full_woken")' = Waiting("full_woken") \ {p}
  PROVE  Committed' = Committed - 1
  BY CommittedType, FS_RemoveElement DEF Committed

\* Producers that have not changed their states wait for what they waited for.
LEMMA ProducersKeep ==
  ASSUME QueueTypeOK, QueueTypeOK', \A p \in Producers : at'[p] = at[p]
  PROVE  /\ Waiting("full_wait")' = Waiting("full_wait")
         /\ Waiting("full_woken")' = Waiting("full_woken")
  BY Sides, QueueAssumption
  DEF Waiting, QueueTypeOK, Threads, ProducerStates, ConsumerStates

\* What a step does with the room in the list: it leaves it alone, takes a
\* place, makes one, wakes a producer for no reason, wakes all of them, or
\* empties the list.
RoomStays ==
  /\ list' = list /\ Committed' = Committed
  /\ Owed' \subseteq Owed \/ Len(list) >= MaxLen
  /\ spurious' = spurious /\ (ctl' = "empty" <=> ctl = "empty")

RoomTaken ==
  /\ Len(list') = Len(list) + 1
  /\ \/ /\ Committed' = Committed
        /\ Committed < Cardinality(Producers) /\ Len(list) < MaxLen
     \/ Committed' = Committed - 1
  /\ Owed' \subseteq Owed /\ spurious' = spurious /\ ctl' = ctl

RoomMade ==
  /\ Len(list') = Len(list) - 1
  /\ \/ Committed' = Committed /\ Owed' = {}
     \/ Committed' = Committed + 1 /\ Owed' \subseteq Owed
  /\ spurious' = spurious /\ ctl' = ctl

RoomDreamt ==
  /\ list' = list /\ Committed' \in {Committed, Committed + 1}
  /\ Owed' \subseteq Owed /\ spurious' = spurious + 1 /\ ctl' = ctl

RoomPromised ==
  /\ list' = list /\ Owed' = {} /\ spurious' = spurious
  /\ ctl # "empty" /\ ctl' = "empty"

RoomCleared ==
  /\ list' = <<>> /\ Owed' = {} /\ spurious' = spurious /\ ctl' = "idle"

\* A step that leaves the producers where they are leaves the room alone.
LEMMA StayingPut ==
  ASSUME QueueTypeOK, QueueTypeOK', \A p \in Producers : at'[p] = at[p],
         stranded' = stranded
  PROVE  Committed' = Committed /\ Owed' = Owed
  BY ProducersKeep DEF Committed, Owed

\* Every step is of one of the six kinds.
LEMMA RoomSteps ==
  ASSUME QueueTypeOK, ~forceQuit, [QueueNext]_queueVars
  PROVE  \/ RoomStays \/ RoomTaken \/ RoomMade
         \/ RoomDreamt \/ RoomPromised \/ RoomCleared
<1>1. QueueTypeOK'
  BY QueueTypeStep
<1>2. Producers \cap Consumers = {}
  BY QueueAssumption
<1>3. ASSUME NEW p \in Producers, EnqueueTests(p, clears)
      PROVE  RoomStays
  <2>1. /\ Waiting("full_wait")' = Waiting("full_wait")
        /\ Waiting("full_woken")' = Waiting("full_woken")
    BY <1>3 DEF EnqueueTests, Waiting, QueueTypeOK, Threads
  <2> QED
    BY <1>3, <2>1 DEF EnqueueTests, RoomStays, Committed, Owed, history, flags
<1>4. ASSUME NEW p \in Producers, EnqueueWaits(p)
      PROVE  RoomStays
  <2>1. Waiting("full_woken")' = Waiting("full_woken")
    BY <1>4 DEF EnqueueWaits, Waiting, QueueTypeOK, Threads
  <2> QED
    BY <1>4, <2>1 DEF EnqueueWaits, RoomStays, Committed, history, flags
<1>5. ASSUME NEW p \in Producers, EnqueuePushes(p), list' # list
      PROVE  RoomTaken
  <2>1. /\ list' = Append(list, offer[p])
        /\ NotifyOne("empty_wait", "empty_woken", p, "idle")
        /\ UNCHANGED <<ctl, spurious>>
    BY <1>5 DEF EnqueuePushes, Push
  <2>2. Len(list') = Len(list) + 1
    BY <2>1 DEF QueueTypeOK
  <2>3. /\ at'[p] = "idle" /\ stranded' = stranded
        /\ \A q \in Producers \ {p} : at'[q] = at[q]
    BY <2>1, NotifyConsumer
  <2>4. /\ Waiting("full_wait") \subseteq Producers
        /\ Waiting("full_woken") \subseteq Producers
        /\ Waiting("full_wait")' \subseteq Producers
        /\ Waiting("full_woken")' \subseteq Producers
    BY <1>1, QueueAssumption
    DEF QueueTypeOK, Waiting, Threads, ProducerStates, ConsumerStates
  <2>5. /\ Waiting("full_wait")' \subseteq Waiting("full_wait")
        /\ Waiting("full_woken")' = Waiting("full_woken") \ {p}
    BY <2>3, <2>4 DEF Waiting, Threads
  <2>6. CASE at[p] = "enqueue" /\ Len(list) < MaxLen
    <3>1. p \notin Waiting("full_woken")
      BY <2>6 DEF Waiting
    <3>2. Committed' = Committed /\ Committed < Cardinality(Producers)
      BY <2>5, <3>1, CommittedType DEF Committed
    <3> QED
      BY <2>1, <2>2, <2>3, <2>5, <2>6, <3>2 DEF RoomTaken, Owed
  <2>7. CASE at[p] = "full_woken"
    <3>1. p \in Waiting("full_woken")
      BY <2>7 DEF Waiting, Threads
    <3>2. Committed' = Committed - 1
      BY <2>5, <3>1, CommittedRemoves
    <3> QED
      BY <2>1, <2>2, <2>3, <2>5, <3>2 DEF RoomTaken, Owed
  <2> QED
    BY <1>5, <2>6, <2>7 DEF EnqueuePushes
<1>6. ASSUME NEW p \in Producers, EnqueuePushes(p), list' = list
      PROVE  FALSE
  <2>1. list' = Append(list, offer[p])
    BY <1>6 DEF EnqueuePushes, Push
  <2>2. Len(list') = Len(list) + 1
    BY <2>1 DEF QueueTypeOK
  <2> QED
    BY <1>6, <2>2 DEF QueueTypeOK
<1>7. ASSUME NEW c \in Consumers,
             DequeueTests(c) \/ DequeueWaits(c) \/ DequeueGivesUp(c)
      PROVE  RoomStays
  <2>1. /\ \A p \in Producers : at'[p] = at[p]
        /\ UNCHANGED <<list, ctl, spurious, stranded>>
    BY <1>2, <1>7
    DEF DequeueTests, DequeueWaits, DequeueGivesUp, history, QueueTypeOK, Threads
  <2> QED
    BY <1>1, <2>1, StayingPut DEF RoomStays
<1>8. ASSUME NEW c \in Consumers, DequeuePops(c)
      PROVE  RoomMade
  <2>1. /\ list' = Tail(list) /\ list # <<>>
        /\ NotifyOne("full_wait", "full_woken", c, "idle")
        /\ UNCHANGED <<ctl, spurious>>
    BY <1>8 DEF DequeuePops
  <2>2. Len(list') = Len(list) - 1
    BY <2>1 DEF QueueTypeOK
  <2>3. CASE /\ Waiting("full_wait") = {}
             /\ \A p \in Producers : at'[p] = at[p]
             /\ stranded' = stranded
    BY <1>1, <2>1, <2>2, <2>3, StayingPut DEF RoomMade, Owed
  <2>4. ASSUME NEW u \in Waiting("full_wait"),
               at'[u] = "full_woken",
               \A p \in Producers \ {u} : at'[p] = at[p],
               stranded' = stranded \ {u}
        PROVE  Committed' = Committed + 1 /\ Owed' \subseteq Owed
    <3>1. u \in Producers \ Waiting("full_woken")
      BY <2>4, Sides DEF Waiting
    <3>2. /\ Waiting("full_wait") \subseteq Producers
          /\ Waiting("full_woken") \subseteq Producers
          /\ Waiting("full_wait")' \subseteq Producers
          /\ Waiting("full_woken")' \subseteq Producers
      BY <1>1, QueueAssumption
      DEF QueueTypeOK, Waiting, Threads, ProducerStates, ConsumerStates
    <3>3. /\ Waiting("full_woken")' = Waiting("full_woken") \cup {u}
          /\ Waiting("full_wait")' = Waiting("full_wait") \ {u}
      BY <2>4, <3>1, <3>2 DEF Waiting, Threads
    <3> QED
      BY <2>4, <3>1, <3>3, CommittedAdds DEF Owed
  <2> QED
    BY <2>1, <2>2, <2>3, <2>4, NotifyProducer DEF RoomMade
<1>9. ASSUME NEW t \in Threads, SpuriousWakeup(t)
      PROVE  RoomDreamt
  <2>1. /\ UNCHANGED <<list, ctl>> /\ spurious' = spurious + 1
        /\ stranded' = stranded \ {t}
    BY <1>9 DEF SpuriousWakeup
  <2>2. CASE at[t] = "full_wait" /\ at' = [at EXCEPT ![t] = "full_woken"]
    <3>1. t \in Producers \ Waiting("full_woken")
      BY <2>2, Sides DEF Waiting
    <3>2. /\ Waiting("full_woken")' = Waiting("full_woken") \cup {t}
          /\ Waiting("full_wait")' = Waiting("full_wait") \ {t}
      BY <2>2 DEF QueueTypeOK, Waiting
    <3> QED
      BY <2>1, <3>1, <3>2, CommittedAdds DEF RoomDreamt, Owed
  <2>3. CASE at[t] = "empty_wait" /\ at' = [at EXCEPT ![t] = "empty_woken"]
    <3>1. t \in Consumers
      BY <2>3, Sides DEF Waiting
    <3>2. \A p \in Producers : at'[p] = at[p]
      BY <1>2, <2>3, <3>1 DEF QueueTypeOK, Threads
    <3>3. stranded' = stranded
      BY <1>2, <2>1, <3>1 DEF QueueTypeOK
    <3> QED
      BY <1>1, <2>1, <3>2, <3>3, StayingPut DEF RoomDreamt
  <2> QED
    BY <1>9, <2>2, <2>3 DEF SpuriousWakeup
<1>10. ASSUME ClearNotifies
       PROVE  RoomPromised
  <2>1. Waiting("full_wait")' = {}
    BY <1>10 DEF ClearNotifies, NotifyAll, Waiting, QueueTypeOK
  <2> QED
    BY <1>10, <2>1 DEF ClearNotifies, RoomPromised, Owed
<1>11. ASSUME ClearEmpties
       PROVE  RoomCleared
  <2>1. Waiting("full_wait")' = Waiting("full_wait")
    BY <1>11 DEF ClearEmpties, Waiting
  <2> QED
    BY <1>11, <2>1 DEF ClearEmpties, RoomCleared, Owed
<1>12. CASE ClearSetsStop \/ Restart \/ UNCHANGED queueVars
  <2>1. /\ UNCHANGED <<at, stranded, list, spurious>>
        /\ ctl' = "empty" <=> ctl = "empty"
    BY <1>12 DEF ClearSetsStop, Restart, history, queueVars
  <2> QED
    BY <1>1, <2>1, StayingPut DEF RoomStays
<1>13. ASSUME NEW p \in Producers, Enqueue(p)
       PROVE  RoomStays \/ RoomTaken \/ UNCHANGED queueVars
  BY <1>3, <1>4, <1>5, <1>6, <1>13 DEF Enqueue, EnqueueRefuses
<1>14. ASSUME NEW c \in Consumers, Dequeue(c)
       PROVE  RoomStays \/ RoomMade
  BY <1>7, <1>8, <1>14 DEF Dequeue
<1> QED
  BY <1>9, <1>10, <1>11, <1>12, <1>13, <1>14 DEF QueueNext, ClearAndRestart

(***************************************************************************)
(* The inductive invariant for the room.  Clear hides forceQuit, so it     *)
(* stays false and a notified producer always pushes: were it not so, the  *)
(* place it was notified of could stay empty beside a waiting producer.    *)
(* Excess is what BoundedExcess needs: notified producers count like       *)
(* packets, and the second set of them is only there between the           *)
(* notifications of Clear and its emptying of the list.                    *)
(***************************************************************************)
Excess ==
  Len(list) + Committed <= MaxLen + Cardinality(Producers) - 1 + spurious
                           + IF ctl = "empty" THEN Cardinality(Producers) ELSE 0

RoomInv == QueueTypeOK /\ ~forceQuit /\ Excess /\ RoomIsNotified

\* The invariant holds of the new queue.
LEMMA RoomInit == QueueInit => RoomInv
<1> SUFFICES ASSUME QueueInit PROVE RoomInv
  OBVIOUS
<1>1. QueueTypeOK
  BY QueueTypeInit
<1>2. Waiting("full_woken") = {} /\ Waiting("full_wait") = {}
  BY DEF QueueInit, Waiting
<1>3. Committed = 0
  BY <1>2, FS_EmptySet DEF Committed
<1>4. Cardinality(Producers) \in Nat \ {0}
  BY QueueAssumption, FS_EmptySet, FS_CardinalityType
<1>5. Excess
  BY <1>3, <1>4, QueueAssumption DEF QueueInit, Excess
<1> QED
  BY <1>1, <1>2, <1>5 DEF RoomInv, RoomIsNotified, QueueInit

\* Every step keeps the invariant: by arithmetic, from the kind of step.
LEMMA RoomStep ==
  ASSUME RoomInv, [QueueNext]_queueVars
  PROVE  RoomInv'
<1> USE DEF RoomInv
<1> DEFINE P == Cardinality(Producers)
<1>1. QueueTypeOK'
  BY QueueTypeStep
<1>2. ~forceQuit'
  BY DEF QueueNext, Enqueue, EnqueueTests, EnqueueRefuses, EnqueueWaits,
         EnqueuePushes, Push, Dequeue, DequeueTests, DequeueWaits,
         DequeueGivesUp, DequeuePops, SpuriousWakeup, ClearAndRestart,
         ClearSetsStop, ClearNotifies, ClearEmpties, Restart, flags, queueVars
<1>3. /\ P \in Nat \ {0} /\ MaxLen \in Nat \ {0}
      /\ Committed \in 0 .. P /\ Len(list) \in Nat /\ spurious \in Nat
  BY QueueAssumption, CommittedType, FS_EmptySet DEF QueueTypeOK
<1>4. Committed' \in 0 .. P
  <2>1. Waiting("full_woken")' \subseteq Producers
    BY <1>1, QueueAssumption
    DEF QueueTypeOK, Waiting, Threads, ProducerStates, ConsumerStates
  <2> QED
    BY <1>3, <2>1, QueueAssumption, FS_Subset, FS_CardinalityType DEF Committed
<1>5. Owed # {} => Len(list) + Committed >= MaxLen
  BY DEF RoomIsNotified, Owed
<1>6. ASSUME RoomStays
      PROVE  Excess'
  BY <1>3, <1>4, <1>6 DEF RoomStays, Excess
<1>7. ASSUME RoomTaken
      PROVE  Excess'
  BY <1>3, <1>4, <1>7 DEF RoomTaken, Excess
<1>8. ASSUME RoomMade
      PROVE  Excess'
  BY <1>3, <1>4, <1>8, SMTT(20) DEF RoomMade, Excess
<1>9. ASSUME RoomDreamt
      PROVE  Excess'
  BY <1>3, <1>4, <1>9, SMTT(20) DEF RoomDreamt, Excess
<1>10. ASSUME RoomPromised
      PROVE  Excess'
  BY <1>3, <1>4, <1>10 DEF RoomPromised, Excess
<1>11. ASSUME RoomCleared
      PROVE  Excess'
  <2>1. Len(list') = 0 /\ ctl' # "empty" /\ spurious' = spurious
    BY <1>11 DEF RoomCleared
  <2> QED
    BY <1>3, <1>4, <2>1 DEF Excess
<1>12. Excess'
  BY <1>6, <1>7, <1>8, <1>9, <1>10, <1>11, RoomSteps
<1>13. Owed' # {} => Len(list') + Committed' >= MaxLen
  <2> SUFFICES ASSUME Owed' # {} PROVE Len(list') + Committed' >= MaxLen
    OBVIOUS
  <2>1. CASE RoomStays
    BY <1>3, <1>5, <2>1 DEF RoomStays
  <2>2. CASE RoomTaken
    BY <1>3, <1>5, <2>2 DEF RoomTaken
  <2>3. CASE RoomMade
    BY <1>3, <1>5, <2>3 DEF RoomMade
  <2>4. CASE RoomDreamt
    BY <1>3, <1>5, <2>4 DEF RoomDreamt
  <2>5. CASE RoomPromised \/ RoomCleared
    BY <2>5 DEF RoomPromised, RoomCleared
  <2> QED
    BY <2>1, <2>2, <2>3, <2>4, <2>5, RoomSteps
<1> QED
  BY <1>1, <1>2, <1>12, <1>13 DEF RoomIsNotified, Owed

\* The invariant for the room holds of every reachable state.
THEOREM RoomInvariance == QueueSpec => []RoomInv
  BY RoomInit, RoomStep, PTL DEF QueueSpec

\* Every thread is in a state of its own side, and every variable keeps to
\* its type.
THEOREM QueueTyping == QueueSpec => []QueueTypeOK
  BY RoomInvariance, PTL DEF RoomInv

\* For any number of producers, the list outgrows maxLen by less than twice
\* that number, not counting spurious wake-ups.
THEOREM Excesses == QueueSpec => []BoundedExcess
<1>1. RoomInv => BoundedExcess
  <2> SUFFICES ASSUME RoomInv PROVE BoundedExcess
    OBVIOUS
  <2>1. /\ Committed \in 0 .. Cardinality(Producers)
        /\ Cardinality(Producers) \in Nat /\ MaxLen \in Nat
        /\ Len(list) \in Nat /\ spurious \in Nat
    BY CommittedType, QueueAssumption DEF RoomInv, QueueTypeOK
  <2> QED
    BY <2>1 DEF RoomInv, Excess, BoundedExcess
<1> QED
  BY RoomInvariance, <1>1, PTL

\* No notification of room is lost, but to a producer that Clear strands.
THEOREM Notified == QueueSpec => []RoomIsNotified
  BY RoomInvariance, PTL DEF RoomInv

-----------------------------------------------------------------------------
(***************************************************************************)
(* Left-overs of Clear.                                                    *)
(***************************************************************************)

\* The producers inside a call of Enqueue.
Busy == {p \in Producers : at[p] # "idle"}

\* No packet is from a Clear that is still to come.
OldEnough ==
  /\ \A k \in DOMAIN list : list[k] <= clears
  /\ \A p \in Producers : offer[p] <= clears

\* While isStop is set, everything in the queue and on its way there is older
\* than the last Clear.
AllOld ==
  /\ ctl # "idle" => isStop
  /\ isStop => /\ \A k \in DOMAIN list : list[k] < clears
               /\ \A p \in Busy : offer[p] < clears

\* The first part of FewLeftOvers.
FewLeft ==
  ctl = "idle" =>
    Cardinality(LeftOvers) + Cardinality(InFlight) <= Cardinality(Producers)

LeftInv == OldEnough /\ AllOld /\ FewLeft

\* Left-overs and packets in flight can be counted.
LEMMA LeftSizes ==
  ASSUME QueueTypeOK
  PROVE  /\ IsFiniteSet(LeftOvers) /\ Cardinality(LeftOvers) \in Nat
         /\ IsFiniteSet(InFlight) /\ Cardinality(InFlight) \in Nat
         /\ Cardinality(InFlight) <= Cardinality(Producers)
         /\ Cardinality(Producers) \in Nat
<1>1. Len(list) \in Nat /\ DOMAIN list = 1 .. Len(list)
  BY DEF QueueTypeOK
<1>2. IsFiniteSet(LeftOvers)
  <2>1. IsFiniteSet(1 .. Len(list))
    BY <1>1, FS_Interval
  <2>2. LeftOvers \subseteq 1 .. Len(list)
    BY <1>1 DEF LeftOvers
  <2> QED
    BY <2>1, <2>2, FS_Subset
<1>3. InFlight \subseteq Producers
  BY DEF InFlight
<1> QED
  BY <1>2, <1>3, QueueAssumption, FS_Subset, FS_CardinalityType

\* A step that neither moves packets nor begins or ends a call of Enqueue.
Quiet ==
  /\ list' = list /\ clears' = clears /\ offer' = offer /\ Busy' = Busy
  /\ (ctl' = "idle" <=> ctl = "idle") /\ (isStop' => isStop)
  /\ ctl' # "idle" => (isStop => isStop')

\* Every step is quiet, or one of the five that are not.
LEMMA QuietSteps ==
  ASSUME QueueTypeOK, [QueueNext]_queueVars
  PROVE  \/ Quiet \/ ClearSetsStop \/ ClearEmpties
         \/ \E p \in Producers : EnqueueTests(p, clears) \/ EnqueuePushes(p)
         \/ \E c \in Consumers : DequeuePops(c)
<1>0. Producers \cap Consumers = {}
  BY QueueAssumption
<1> USE DEF QueueTypeOK, Threads, Busy
<1>1. ASSUME NEW p \in Producers, EnqueueWaits(p)
      PROVE  Quiet
  BY <1>1 DEF EnqueueWaits, Quiet, flags, history
<1>2. ASSUME NEW c \in Consumers,
             DequeueTests(c) \/ DequeueWaits(c) \/ DequeueGivesUp(c)
      PROVE  Quiet
  <2>1. \A p \in Producers : at'[p] = at[p]
    BY <1>0, <1>2 DEF DequeueTests, DequeueWaits, DequeueGivesUp
  <2> QED
    BY <1>2, <2>1
    DEF DequeueTests, DequeueWaits, DequeueGivesUp, Quiet, flags, history
<1>3. ASSUME NEW t \in Threads, SpuriousWakeup(t)
      PROVE  Quiet
  <2>1. \A p \in Producers : at'[p] = "idle" <=> at[p] = "idle"
    BY <1>3 DEF SpuriousWakeup
  <2> QED
    BY <1>3, <2>1 DEF SpuriousWakeup, Quiet, flags
<1>4. ASSUME ClearNotifies
      PROVE  Quiet
  <2>1. \A p \in Producers : at'[p] = "idle" <=> at[p] = "idle"
    BY <1>4 DEF ClearNotifies, NotifyAll
  <2> QED
    BY <1>4, <2>1 DEF ClearNotifies, Quiet, flags
<1>5. CASE Restart
  BY <1>5 DEF Restart, Quiet, history
<1>6. ASSUME UNCHANGED queueVars
      PROVE  Quiet
  BY <1>6 DEF queueVars, Quiet
<1>7. ASSUME NEW p \in Producers, Enqueue(p)
      PROVE  Quiet \/ EnqueueTests(p, clears) \/ EnqueuePushes(p)
  BY <1>1, <1>6, <1>7 DEF Enqueue, EnqueueRefuses
<1>8. ASSUME NEW c \in Consumers, Dequeue(c)
      PROVE  Quiet \/ DequeuePops(c)
  BY <1>2, <1>8 DEF Dequeue
<1> QED
  BY <1>3, <1>4, <1>5, <1>6, <1>7, <1>8 DEF QueueNext, ClearAndRestart

\* Taking the first packet does not add to the left-overs.
LEMMA PopLeftOvers ==
  ASSUME QueueTypeOK, QueueTypeOK', list # <<>>, list' = Tail(list), clears' = clears
  PROVE  Cardinality(LeftOvers') <= Cardinality(LeftOvers)
<1>1. /\ Len(list) \in Nat \ {0} /\ Len(list') = Len(list) - 1
      /\ DOMAIN list = 1 .. Len(list) /\ DOMAIN list' = 1 .. Len(list')
      /\ \A k \in 1 .. Len(list') : list'[k] = list[k + 1]
  BY DEF QueueTypeOK
<1>2. IsFiniteSet(LeftOvers)
  BY LeftSizes
<1> DEFINE f == [k \in LeftOvers' |-> k + 1]
<1>3. f \in Injection(LeftOvers', LeftOvers)
  <2>1. \A k \in LeftOvers' : k \in Nat /\ k + 1 \in LeftOvers
    BY <1>1 DEF LeftOvers
  <2> QED
    BY <2>1 DEF Injection, IsInjective
<1> QED
  BY <1>2, <1>3, FS_Injection

\* The invariant holds of the new queue.
LEMMA LeftInit == QueueInit => LeftInv
<1> SUFFICES ASSUME QueueInit PROVE LeftInv
  OBVIOUS
<1>1. list = <<>> /\ DOMAIN list = {} /\ isStop = FALSE /\ clears = 0
      /\ (\A p \in Producers : offer[p] = 0 /\ at[p] = "idle")
      /\ ctl = "idle"
  BY DEF QueueInit, Threads
<1>2. LeftOvers = {} /\ InFlight = {}
  BY <1>1 DEF LeftOvers, InFlight
<1>3. Cardinality(Producers) \in Nat
  BY QueueAssumption, FS_CardinalityType
<1>4. Cardinality(LeftOvers) = 0 /\ Cardinality(InFlight) = 0
  BY <1>2, FS_EmptySet
<1> QED
  BY <1>1, <1>3, <1>4 DEF LeftInv, OldEnough, AllOld, FewLeft

\* Every step keeps the invariant.  A push turns a packet in flight into a
\* left-over, and nothing else makes a left-over once Clear is done.
LEMMA LeftStep ==
  ASSUME RoomInv, LeftInv, [QueueNext]_queueVars
  PROVE  LeftInv'
<1> USE DEF LeftInv
<1>1. QueueTypeOK /\ QueueTypeOK' /\ ~forceQuit
  BY QueueTypeStep DEF RoomInv
<1>2. Len(list) \in Nat /\ DOMAIN list = 1 .. Len(list) /\ clears \in Nat
      /\ \A p \in Producers : offer[p] \in Nat
  BY <1>1 DEF QueueTypeOK
<1>3. ASSUME Quiet
      PROVE  LeftInv'
  <2>1. LeftOvers' = LeftOvers
    BY <1>3 DEF Quiet, LeftOvers
  <2>2. InFlight' = InFlight
    BY <1>3 DEF Quiet, Busy, InFlight
  <2>3. OldEnough'
    BY <1>3 DEF Quiet, OldEnough
  <2>4. AllOld'
    BY <1>3, Zenon DEF Quiet, AllOld
  <2>5. FewLeft'
    BY <1>3, <2>1, <2>2 DEF Quiet, FewLeft
  <2> QED
    BY <2>3, <2>4, <2>5
<1>4. ASSUME NEW p \in Producers, EnqueueTests(p, clears)
      PROVE  LeftInv'
  <2>1. /\ UNCHANGED <<ctl, list, isStop, clears>> /\ ~isStop
        /\ offer' = [offer EXCEPT ![p] = clears]
        /\ at' = [at EXCEPT ![p] = "enqueue"]
        /\ at[p] = "idle"
    BY <1>4 DEF EnqueueTests, flags, history
  <2>2. LeftOvers' = LeftOvers
    BY <2>1 DEF LeftOvers
  <2>3. InFlight' = InFlight
    BY <1>1, <1>2, <2>1 DEF InFlight, QueueTypeOK, Threads
  <2>4. OldEnough'
    BY <1>1, <1>2, <2>1 DEF OldEnough, QueueTypeOK
  <2>5. AllOld'
    BY <2>1 DEF AllOld
  <2> QED
    BY <2>1, <2>2, <2>3, <2>4, <2>5 DEF FewLeft
<1>5. ASSUME NEW p \in Producers, EnqueuePushes(p)
      PROVE  LeftInv'
  <2>1. /\ list' = Append(list, offer[p])
        /\ UNCHANGED <<offer, ctl, isStop, clears>>
        /\ NotifyOne("empty_wait", "empty_woken", p, "idle")
        /\ at[p] # "idle"
    BY <1>1, <1>5 DEF EnqueuePushes, Push, flags
  <2>2. at'[p] = "idle" /\ \A q \in Producers \ {p} : at'[q] = at[q]
    BY <1>1, <2>1, NotifyConsumer
  <2>3. /\ DOMAIN list' = 1 .. Len(list) + 1 /\ list'[Len(list) + 1] = offer[p]
        /\ \A k \in 1 .. Len(list) : list'[k] = list[k]
    BY <1>1, <1>2, <2>1 DEF QueueTypeOK
  <2>4. InFlight' = InFlight \ {p}
    BY <2>1, <2>2 DEF InFlight
  <2>5. LeftOvers' = IF offer[p] < clears THEN LeftOvers \cup {Len(list) + 1}
                     ELSE LeftOvers
    BY <1>2, <2>1, <2>3 DEF LeftOvers
  <2>6. OldEnough'
    BY <1>2, <2>1, <2>3 DEF OldEnough
  <2>7. AllOld'
    <3>1. p \in Busy /\ Busy' \subseteq Busy
      BY <2>1, <2>2 DEF Busy
    <3>2. ASSUME offer[p] < clears, \A k \in DOMAIN list : list[k] < clears
          PROVE  \A k \in DOMAIN list' : list'[k] < clears
      BY <1>2, <2>3, <3>2
    <3>3. AllOld
      OBVIOUS
    <3>4. ASSUME isStop
          PROVE  /\ \A k \in DOMAIN list' : list'[k] < clears
                 /\ \A q \in Busy' : offer[q] < clears
      <4>1. /\ \A k \in DOMAIN list : list[k] < clears
            /\ \A q \in Busy : offer[q] < clears
        BY <3>3, <3>4, Zenon DEF AllOld
      <4>2. \A k \in DOMAIN list' : list'[k] < clears
        BY <3>1, <3>2, <4>1
      <4> QED
        BY <3>1, <4>1, <4>2
    <3> QED
      BY <2>1, <3>3, <3>4, Zenon DEF AllOld
  <2>8. FewLeft'
    <3>1. CASE offer[p] < clears
      <4>1. p \in InFlight /\ Len(list) + 1 \notin LeftOvers
        BY <1>2, <2>1, <3>1 DEF InFlight, LeftOvers
      <4>2. Cardinality(InFlight') = Cardinality(InFlight) - 1
        BY <1>1, <2>4, <4>1, LeftSizes, FS_RemoveElement
      <4>3. Cardinality(LeftOvers') = Cardinality(LeftOvers) + 1
        BY <1>1, <2>5, <3>1, <4>1, LeftSizes, FS_AddElement
      <4> QED
        BY <1>1, <2>1, <4>2, <4>3, LeftSizes DEF FewLeft
    <3>2. CASE ~(offer[p] < clears)
      <4>1. InFlight' = InFlight /\ LeftOvers' = LeftOvers
        BY <2>4, <2>5, <3>2 DEF InFlight
      <4> QED
        BY <2>1, <4>1 DEF FewLeft
    <3> QED
      BY <3>1, <3>2
  <2> QED
    BY <2>6, <2>7, <2>8
<1>6. ASSUME NEW c \in Consumers, DequeuePops(c)
      PROVE  LeftInv'
  <2>1. /\ list # <<>> /\ list' = Tail(list)
        /\ UNCHANGED <<offer, ctl, isStop, clears>>
        /\ NotifyOne("full_wait", "full_woken", c, "idle")
    BY <1>6 DEF DequeuePops, flags
  <2>2. \A p \in Producers : at'[p] = "idle" <=> at[p] = "idle"
    BY <1>1, <2>1, NotifyProducer DEF Waiting
  <2>3. InFlight' = InFlight /\ Busy' = Busy
    BY <2>1, <2>2 DEF InFlight, Busy
  <2>4. Cardinality(LeftOvers') <= Cardinality(LeftOvers)
    BY <1>1, <2>1, PopLeftOvers
  <2>5. \A k \in DOMAIN list' : k + 1 \in DOMAIN list /\ list'[k] = list[k + 1]
    BY <1>1, <2>1 DEF QueueTypeOK
  <2>6. OldEnough' /\ AllOld'
    BY <2>1, <2>3, <2>5 DEF OldEnough, AllOld
  <2>7. Cardinality(LeftOvers') \in Nat
    <3>1. IsFiniteSet(LeftOvers')
      <4>1. DOMAIN list' \subseteq 1 .. Len(list)
        BY <1>1, <1>2, <2>1 DEF QueueTypeOK
      <4>2. LeftOvers' \subseteq 1 .. Len(list)
        BY <4>1 DEF LeftOvers
      <4>3. IsFiniteSet(1 .. Len(list))
        BY <1>2, FS_Interval
      <4> QED
        BY <4>2, <4>3, FS_Subset
    <3> QED
      BY <3>1, FS_CardinalityType
  <2>8. FewLeft'
    BY <1>1, <2>1, <2>3, <2>4, <2>7, LeftSizes DEF FewLeft
  <2> QED
    BY <2>6, <2>8
<1>7. ASSUME ClearSetsStop
      PROVE  LeftInv'
  <2>1. /\ clears' = clears + 1 /\ ctl' = "notify" /\ isStop' = TRUE
        /\ UNCHANGED <<at, offer, list>>
    BY <1>7 DEF ClearSetsStop
  <2>2. \A k \in DOMAIN list : list[k] \in Nat
    BY <1>1 DEF QueueTypeOK
  <2>3. OldEnough'
    BY <1>2, <2>1, <2>2 DEF OldEnough
  <2>4. AllOld'
    BY <1>2, <2>1, <2>2 DEF OldEnough, AllOld, Busy
  <2> QED
    BY <2>1, <2>3, <2>4 DEF FewLeft
<1>8. ASSUME ClearEmpties
      PROVE  LeftInv'
  <2>1. /\ list' = <<>> /\ ctl' = "idle" /\ ctl = "empty"
        /\ UNCHANGED <<at, offer, isStop, clears>>
    BY <1>8 DEF ClearEmpties, flags
  <2>2. DOMAIN list' = {}
    BY <2>1
  <2>3. OldEnough' /\ AllOld'
    BY <2>1, <2>2 DEF OldEnough, AllOld, Busy
  <2>4. LeftOvers' = {} /\ InFlight' = InFlight
    BY <2>1, <2>2 DEF LeftOvers, InFlight
  <2>5. Cardinality(LeftOvers') = 0
    BY <2>4, FS_EmptySet
  <2>6. FewLeft'
    BY <1>1, <2>4, <2>5, LeftSizes DEF FewLeft
  <2> QED
    BY <2>3, <2>6
<1> QED
  BY <1>1, <1>3, <1>4, <1>5, <1>6, <1>7, <1>8, QuietSteps

\* The invariant for the left-overs holds of every reachable state.
THEOREM LeftInvariance == QueueSpec => []LeftInv
  BY LeftInit, LeftStep, RoomInvariance, PTL DEF QueueSpec

\* For any number of producers, at most one packet of each survives a Clear,
\* and nothing gets in after it before Restart.
THEOREM FewSurvive == QueueSpec => []FewLeftOvers
<1>1. LeftInv => FewLeftOvers
  BY DEF LeftInv, AllOld, FewLeft, FewLeftOvers, LeftOvers
<1> QED
  BY LeftInvariance, <1>1, PTL

=============================================================================
