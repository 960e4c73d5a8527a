------------------------------ MODULE UvBarrier ------------------------------
(***************************************************************************)
(* uv_barrier_t of src/getmedia/FFModule/core/thread_win.cpp: two          *)
(* turnstiles, so that a fast thread cannot lap the others.                *)
(*                                                                         *)
(* Every line of uv_barrier_wait that can block is an action.              *)
(***************************************************************************)
EXTENDS UvSemaphore, FiniteSets

CONSTANTS
  Parties,      \* the threads that meet at the barrier
  MaxRounds     \* bound: calls of uv_barrier_wait by each of them

ASSUME BarrierAssumption ==
  /\ IsFiniteSet(Parties) /\ Parties # {} /\ Nobody \notin Parties
  /\ MaxRounds \in Nat

VARIABLES
  bar,                      \* where each thread stands in uv_barrier_wait
  count, barMutex, turnstile1, turnstile2,
  entered, left,            \* calls begun and returned, per thread
  serial                    \* calls that have returned 1, so far

barVars == <<bar, count, barMutex, turnstile1, turnstile2, entered, left, serial>>

BarInit ==
  /\ bar = [t \in Parties |-> "out"]
  /\ count = 0 /\ barMutex = Nobody
  /\ turnstile1 = 0 /\ turnstile2 = 1
  /\ entered = [t \in Parties |-> 0] /\ left = [t \in Parties |-> 0]
  /\ serial = 0

BarGo(t, from, to) == bar[t] = from /\ bar' = [bar EXCEPT ![t] = to]

\* Lock and count; the last one closes turnstile2 and opens turnstile1.
BarEnter(t) ==
  /\ entered[t] < MaxRounds
  /\ BarGo(t, "out", IF count + 1 = Cardinality(Parties) THEN "last" ELSE "unlock1")
  /\ MutexLock(barMutex, t, barMutex')
  /\ count' = count + 1
  /\ entered' = [entered EXCEPT ![t] = @ + 1]
  /\ UNCHANGED <<turnstile1, turnstile2, left, serial>>

BarOpensFirst(t) ==
  /\ BarGo(t, "last", "unlock1")
  /\ SemWait(turnstile2, turnstile2') /\ SemPost(turnstile1, turnstile1')
  /\ UNCHANGED <<count, barMutex, entered, left, serial>>

BarUnlock(t) ==
  /\ BarGo(t, "unlock1", "first") \/ BarGo(t, "unlock2", "second")
  /\ MutexUnlock(barMutex, t, barMutex')
  /\ UNCHANGED <<count, turnstile1, turnstile2, entered, left, serial>>

\* Faulty: turnstile1 is passed without waiting.
BarTakesNothing(t) ==
  /\ BarGo(t, "first", "through")
  /\ UNCHANGED <<count, barMutex, turnstile1, turnstile2, entered, left, serial>>

BarTakesFirst(t) ==
  /\ BarGo(t, "first", "through")
  /\ SemWait(turnstile1, turnstile1')
  /\ UNCHANGED <<count, barMutex, turnstile2, entered, left, serial>>

BarPostsFirst(t) ==
  /\ BarGo(t, "through", "leave")
  /\ SemPost(turnstile1, turnstile1')
  /\ UNCHANGED <<count, barMutex, turnstile2, entered, left, serial>>

\* Lock and count down; the last one closes turnstile1 and opens turnstile2.
BarLeave(t) ==
  /\ BarGo(t, "leave", IF count = 1 THEN "reset" ELSE "unlock2")
  /\ MutexLock(barMutex, t, barMutex')
  /\ count' = count - 1
  /\ serial' = IF count = 1 THEN serial + 1 ELSE serial
  /\ UNCHANGED <<turnstile1, turnstile2, entered, left>>

BarOpensSecond(t) ==
  /\ BarGo(t, "reset", "unlock2")
  /\ SemWait(turnstile1, turnstile1') /\ SemPost(turnstile2, turnstile2')
  /\ UNCHANGED <<count, barMutex, entered, left, serial>>

BarTakesSecond(t) ==
  /\ BarGo(t, "second", "return")
  /\ SemWait(turnstile2, turnstile2')
  /\ UNCHANGED <<count, barMutex, turnstile1, entered, left, serial>>

BarReturns(t) ==
  /\ BarGo(t, "return", "out")
  /\ SemPost(turnstile2, turnstile2')
  /\ left' = [left EXCEPT ![t] = @ + 1]
  /\ UNCHANGED <<count, barMutex, turnstile1, entered, serial>>

BarFinished ==
  /\ \A t \in Parties : left[t] = MaxRounds
  /\ UNCHANGED barVars

BarStep(t) ==
  \/ BarEnter(t) \/ BarOpensFirst(t) \/ BarUnlock(t) \/ BarTakesFirst(t)
  \/ BarPostsFirst(t) \/ BarLeave(t) \/ BarOpensSecond(t) \/ BarTakesSecond(t)
  \/ BarReturns(t)

BarNext == (\E t \in Parties : BarStep(t)) \/ BarFinished

BarSpec == BarInit /\ [][BarNext]_barVars

-----------------------------------------------------------------------------
BarTypeOK ==
  /\ bar \in [Parties -> {"out", "last", "unlock1", "first", "through", "leave",
                          "reset", "unlock2", "second", "return"}]
  /\ count \in 0 .. Cardinality(Parties)
  /\ barMutex \in Parties \cup {Nobody}
  /\ turnstile1 \in {0, 1} /\ turnstile2 \in {0, 1}
  /\ entered \in [Parties -> 0 .. MaxRounds] /\ left \in [Parties -> 0 .. MaxRounds]
  /\ serial \in Nat

(***************************************************************************)
(* Nobody returns from its k-th uv_barrier_wait before everybody has begun *)
(* its own, however fast it comes back for the next round, and one call of *)
(* each round returns 1: those that have returned from k rounds know of at *)
(* least k such calls and at most one more.                                *)
(***************************************************************************)
BarrierHolds ==
  \A t, u \in Parties :
    /\ left[t] <= entered[u]
    /\ serial \in left[t] .. left[t] + 1

=============================================================================
