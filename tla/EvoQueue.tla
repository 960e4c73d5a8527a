------------------------------ MODULE EvoQueue ------------------------------
(***************************************************************************)
(* The blocking queue of src/getmedia/FFModule/MemManager/EvoQueue.hpp:    *)
(* Enqueue(p), Dequeue(timeout), Clear(true) and Restart, the operations   *)
(* the program calls.                                                      *)
(*                                                                         *)
(* What a thread does while it holds listMutex is one action.  isStop and  *)
(* forceQuit are read and written without the mutex too, in actions of     *)
(* their own.  A thread that waits on a condition variable is in the state *)
(* "full_wait" or "empty_wait"; notified, it has yet to take the mutex     *)
(* again.  The waits test their condition with an if, not a while, and     *)
(* may wake spuriously.                                                    *)
(*                                                                         *)
(* A packet is the number of calls of Clear that had begun when it was     *)
(* offered, so a packet that is less than clears is a left-over.           *)
(***************************************************************************)
EXTENDS Integers, Sequences, FiniteSets

CONSTANTS
  Producers, Consumers,   \* the threads that call Enqueue, and Dequeue
  MaxLen,                 \* the queue's maxLen
  MaxClears,              \* bound: calls of Clear
  MaxSpurious             \* bound: spurious wake-ups

ASSUME QueueAssumption ==
  /\ IsFiniteSet(Producers) /\ Producers # {}
  /\ Producers \cap Consumers = {}
  /\ MaxLen \in Nat \ {0}
  /\ MaxClears \in Nat /\ MaxSpurious \in Nat

Threads == Producers \cup Consumers

VARIABLES
  at,          \* what each producer and consumer does next
  offer,       \* the packet of each producer's call
  ctl,         \* what the caller of Clear and Restart does next
  list,        \* dataList
  isStop, forceQuit,
  clears,      \* calls of Clear that have begun
  spurious,    \* spurious wake-ups so far
  stranded     \* producers that were waiting for room when Clear made it

flags == <<isStop, forceQuit>>
history == <<clears, spurious, stranded>>
queueVars == <<at, offer, ctl, list, isStop, forceQuit, clears, spurious, stranded>>

QueueInit ==
  /\ at = [t \in Threads |-> "idle"]
  /\ offer = [p \in Producers |-> 0]
  /\ ctl = "idle"
  /\ list = <<>>
  /\ isStop = FALSE /\ forceQuit = FALSE
  /\ clears = 0 /\ spurious = 0 /\ stranded = {}

Waiting(s) == {t \in Threads : at[t] = s}

\* notify_one on the condition that the threads in state s wait for, by a
\* thread t that then goes on to state next.
NotifyOne(s, woken, t, next) ==
  \/ Waiting(s) = {} /\ at' = [at EXCEPT ![t] = next] /\ UNCHANGED stranded
  \/ \E u \in Waiting(s) :
       /\ at' = [at EXCEPT ![t] = next, ![u] = woken]
       /\ stranded' = stranded \ {u}

\* Faulty: each condition wakes the other's threads.
NotifyAllSwapped ==
  /\ at' = [t \in Threads |-> CASE at[t] = "full_wait" -> "empty_woken"
                                [] at[t] = "empty_wait" -> "full_woken"
                                [] OTHER -> at[t]]
  /\ stranded' = {}

\* notify_all on both conditions.
NotifyAll ==
  /\ at' = [t \in Threads |-> CASE at[t] = "full_wait" -> "full_woken"
                                [] at[t] = "empty_wait" -> "empty_woken"
                                [] OTHER -> at[t]]
  /\ stranded' = {}

SpuriousWakeup(t) ==
  /\ spurious < MaxSpurious
  /\ \/ at[t] = "full_wait" /\ at' = [at EXCEPT ![t] = "full_woken"]
     \/ at[t] = "empty_wait" /\ at' = [at EXCEPT ![t] = "empty_woken"]
  /\ spurious' = spurious + 1
  /\ stranded' = stranded \ {t}
  /\ UNCHANGED <<offer, ctl, list, flags, clears>>

-----------------------------------------------------------------------------
\* Faulty: no test.
EnqueueTestsNothing(p, v) ==
  /\ at[p] = "idle"
  /\ at' = [at EXCEPT ![p] = "enqueue"]
  /\ offer' = [offer EXCEPT ![p] = v]
  /\ UNCHANGED <<ctl, list, flags, history>>

\* Enqueue of packet v: the test of the flags that precedes the lock.
EnqueueTests(p, v) ==
  /\ at[p] = "idle"
  /\ ~(isStop \/ forceQuit)
  /\ at' = [at EXCEPT ![p] = "enqueue"]
  /\ offer' = [offer EXCEPT ![p] = v]
  /\ UNCHANGED <<ctl, list, flags, history>>

\* The call that finds the flags set returns false: the packet is not taken.
EnqueueRefuses(p) ==
  /\ at[p] = "idle"
  /\ isStop \/ forceQuit
  /\ UNCHANGED queueVars

\* The end of Enqueue, after the wait if there is one.
Push(p) ==
  /\ IF isStop /\ forceQuit
     THEN /\ at' = [at EXCEPT ![p] = "idle"]
          /\ UNCHANGED <<list, stranded>>
     ELSE /\ list' = Append(list, offer[p])
          /\ NotifyOne("empty_wait", "empty_woken", p, "idle")
  /\ UNCHANGED <<offer, ctl, flags, clears, spurious>>

EnqueueWaits(p) ==
  /\ at[p] = "enqueue"
  /\ Len(list) >= MaxLen
  /\ at' = [at EXCEPT ![p] = "full_wait"]
  /\ UNCHANGED <<offer, ctl, list, flags, history>>

\* Faulty: no wait for room.
EnqueuePushesAlways(p) ==
  /\ at[p] \in {"enqueue", "full_woken"}
  /\ Push(p)

EnqueuePushes(p) ==
  /\ \/ at[p] = "enqueue" /\ Len(list) < MaxLen
     \/ at[p] = "full_woken"
  /\ Push(p)

-----------------------------------------------------------------------------
\* Dequeue(timeout): the test of the flag that precedes the lock.
DequeueTests(c) ==
  /\ at[c] = "idle"
  /\ ~forceQuit
  /\ at' = [at EXCEPT ![c] = "dequeue"]
  /\ UNCHANGED <<offer, ctl, list, flags, history>>

DequeueWaits(c) ==
  /\ at[c] = "dequeue"
  /\ list = <<>>
  /\ at' = [at EXCEPT ![c] = "empty_wait"]
  /\ UNCHANGED <<offer, ctl, list, flags, history>>

\* The wait has timed out, whether or not a notification has come in time, or
\* the thread woke and the list is empty, or about to be cleared by force:
\* Dequeue returns nullptr.
DequeueGivesUp(c) ==
  /\ \/ at[c] \in {"empty_wait", "empty_woken"}
     \/ at[c] = "dequeue" /\ list # <<>> /\ isStop /\ forceQuit
  /\ at' = [at EXCEPT ![c] = "idle"]
  /\ UNCHANGED <<offer, ctl, list, flags, history>>

\* Faulty: the producers are not notified.
DequeuePopsSilently(c) ==
  /\ at[c] \in {"dequeue", "empty_woken"}
  /\ list # <<>>
  /\ list' = Tail(list)
  /\ at' = [at EXCEPT ![c] = "idle"]
  /\ UNCHANGED <<offer, ctl, flags, history>>

DequeuePops(c) ==
  /\ at[c] \in {"dequeue", "empty_woken"}
  /\ list # <<>>
  /\ ~(isStop /\ forceQuit)
  /\ list' = Tail(list)
  /\ NotifyOne("full_wait", "full_woken", c, "idle")
  /\ UNCHANGED <<offer, ctl, flags, clears, spurious>>

-----------------------------------------------------------------------------
\* Clear(true).  The parameter hides the member forceQuit, which is assigned
\* to itself.
ClearSetsStop ==
  /\ ctl = "idle"
  /\ isStop' = TRUE
  /\ clears' = clears + 1
  /\ ctl' = "notify"
  /\ UNCHANGED <<at, offer, list, forceQuit, spurious, stranded>>

ClearNotifies ==
  /\ ctl = "notify"
  /\ NotifyAll
  /\ ctl' = "empty"
  /\ UNCHANGED <<offer, list, flags, clears, spurious>>

ClearEmpties ==
  /\ ctl = "empty"
  /\ list' = <<>>
  /\ stranded' = Waiting("full_wait")
  /\ ctl' = "idle"
  /\ UNCHANGED <<at, offer, flags, clears, spurious>>

Restart ==
  /\ ctl = "idle"
  /\ isStop' = FALSE /\ forceQuit' = FALSE
  /\ UNCHANGED <<at, offer, ctl, list, history>>

-----------------------------------------------------------------------------
Enqueue(p) ==
  \/ EnqueueTests(p, clears) \/ EnqueueRefuses(p)
  \/ EnqueueWaits(p) \/ EnqueuePushes(p)

Dequeue(c) ==
  DequeueTests(c) \/ DequeueWaits(c) \/ DequeueGivesUp(c) \/ DequeuePops(c)

ClearAndRestart ==
  \/ clears < MaxClears /\ ClearSetsStop
  \/ ClearNotifies \/ ClearEmpties
  \/ Restart

QueueNext ==
  \/ \E p \in Producers : Enqueue(p)
  \/ \E c \in Consumers : Dequeue(c)
  \/ \E t \in Threads : SpuriousWakeup(t)
  \/ ClearAndRestart

QueueSpec == QueueInit /\ [][QueueNext]_queueVars

(***************************************************************************)
(* Fairness.  A thread inside a call goes on with it, and the consumer     *)
(* calls Dequeue again and again, as a player does for every frame.        *)
(* Nobody has to call Enqueue, Clear or Restart.                           *)
(***************************************************************************)
QueueFairness ==
  /\ \A p \in Producers : WF_queueVars(EnqueueWaits(p) \/ EnqueuePushes(p))
  /\ \A c \in Consumers : WF_queueVars(Dequeue(c))
  /\ WF_queueVars(ClearNotifies \/ ClearEmpties)

QueueFairSpec == QueueSpec /\ QueueFairness

-----------------------------------------------------------------------------
ProducerStates == {"idle", "enqueue", "full_wait", "full_woken"}
ConsumerStates == {"idle", "dequeue", "empty_wait", "empty_woken"}

QueueTypeOK ==
  /\ at \in [Threads -> ProducerStates \cup ConsumerStates]
  /\ \A p \in Producers : at[p] \in ProducerStates
  /\ \A c \in Consumers : at[c] \in ConsumerStates
  /\ offer \in [Producers -> Nat]
  /\ ctl \in {"idle", "notify", "empty"}
  /\ list \in Seq(Nat)
  /\ isStop \in BOOLEAN /\ forceQuit \in BOOLEAN
  /\ clears \in Nat /\ spurious \in Nat
  /\ stranded \subseteq Producers

\* Producers that will push without looking at the length of the list.
Committed == Cardinality(Waiting("full_woken"))

(***************************************************************************)
(* The if around fullCondition.wait lets the list grow past maxLen: a      *)
(* producer that was notified pushes even if another took the room first,  *)
(* and Clear wakes all of them while the list is still full.  The excess   *)
(* is bounded by the number of producers all the same, plus one packet for *)
(* every spurious wake-up.                                                 *)
(***************************************************************************)
BoundedExcess ==
  Len(list) <= MaxLen + 2 * Cardinality(Producers) - 1 + spurious

(***************************************************************************)
(* No notification for a producer is lost: while one waits for room there  *)
(* is none, or another thread has been notified of it.  The exception are  *)
(* the producers that were between the test of isStop and the wait when    *)
(* Clear notified, and that waited when it emptied the list.               *)
(***************************************************************************)
RoomIsNotified ==
  Waiting("full_wait") \ stranded # {} => Len(list) + Committed >= MaxLen

(***************************************************************************)
(* Clear leaves at most one packet per producer in circulation: one that   *)
(* was already past the test of isStop may still push after the list has   *)
(* been emptied, but only once; and until Restart nothing else gets in.    *)
(***************************************************************************)
LeftOvers == {k \in DOMAIN list : list[k] < clears}

InFlight == {p \in Producers : at[p] # "idle" /\ offer[p] < clears}

FewLeftOvers ==
  ctl = "idle" =>
    /\ Cardinality(LeftOvers) + Cardinality(InFlight) <= Cardinality(Producers)
    /\ isStop => LeftOvers = DOMAIN list

(***************************************************************************)
(* A call of Enqueue ends, as long as the consumer keeps calling Dequeue,  *)
(* unless Clear strands it: then it sleeps on an empty list, and nobody is *)
(* left to notify it.  With several producers notify_one may forget one of *)
(* them, so this is about a queue that has one.                            *)
(***************************************************************************)
EnqueueReturnsOrStranded ==
  \A p \in Producers :
    at[p] # "idle" ~> \/ at[p] = "idle"
                      \/ p \in stranded /\ at[p] = "full_wait"

=============================================================================
