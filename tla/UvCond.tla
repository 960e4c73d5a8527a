------------------------------- MODULE UvCond --------------------------------
(***************************************************************************)
(* uv_cond_t of src/getmedia/FFModule/core/thread_win.cpp.  Where Windows  *)
(* has condition variables it is one of them; otherwise it is a count of   *)
(* waiters, an auto-reset event for signal and a manual-reset event for    *)
(* broadcast, which the last waiter has to reset.                          *)
(*                                                                         *)
(* The count is read or written under its own critical section, so that is *)
(* one action.  An event is set and reset outside of it, and a thread that *)
(* has counted itself is not waiting yet.  The caller of signal and        *)
(* broadcast need not hold the mutex.                                      *)
(***************************************************************************)
EXTENDS UvSemaphore, FiniteSets

CONSTANTS
  CvThreads,    \* threads that call uv_cond_wait or uv_cond_timedwait
  MaxWakes      \* bound: calls of uv_cond_signal and uv_cond_broadcast

ASSUME CondAssumption ==
  IsFiniteSet(CvThreads) /\ Nobody \notin CvThreads /\ MaxWakes \in Nat

VARIABLES
  haveApi,       \* HAVE_CONDVAR_API
  cv,            \* where each waiting thread stands
  cvMutex,       \* the caller's mutex
  waitersCount, signalEvent, broadcastEvent,
  waker,         \* what the caller of signal or broadcast does next
  wakes,         \* its calls so far
  late,          \* threads that counted themselves before a reset that was due
  owed           \* threads that a broadcast has found waiting

cvHistory == <<late, owed>>
cvVars == <<haveApi, cv, cvMutex, waitersCount, signalEvent, broadcastEvent,
            waker, wakes, late, owed>>

CvInit ==
  /\ haveApi \in BOOLEAN
  /\ cv = [t \in CvThreads |-> "out"]
  /\ cvMutex = Nobody
  /\ waitersCount = 0 /\ signalEvent = FALSE /\ broadcastEvent = FALSE
  /\ waker = "idle" /\ wakes = 0
  /\ late = {} /\ owed = {}

At(s) == {t \in CvThreads : cv[t] = s}

CvGo(t, from, to) == cv[t] = from /\ cv' = [cv EXCEPT ![t] = to]

\* The caller locks its mutex before, and unlocks it after the wait.
CallerLocks(t) ==
  /\ CvGo(t, "out", "locked") \/ CvGo(t, "relock", "returned")
  /\ MutexLock(cvMutex, t, cvMutex')
  /\ UNCHANGED <<haveApi, waitersCount, signalEvent, broadcastEvent, waker, wakes,
                 cvHistory>>

CallerUnlocks(t) ==
  /\ CvGo(t, "returned", "out")
  /\ MutexUnlock(cvMutex, t, cvMutex')
  /\ UNCHANGED <<haveApi, waitersCount, signalEvent, broadcastEvent, waker, wakes,
                 cvHistory>>

-----------------------------------------------------------------------------
\* SleepConditionVariableCS: the mutex is released as the wait begins.
ApiWait(t) ==
  /\ haveApi
  /\ CvGo(t, "locked", "asleep")
  /\ MutexUnlock(cvMutex, t, cvMutex')
  /\ UNCHANGED <<haveApi, waitersCount, signalEvent, broadcastEvent, waker, wakes,
                 cvHistory>>

ApiTimesOut(t) ==
  /\ haveApi
  /\ CvGo(t, "asleep", "relock")
  /\ owed' = owed \ {t}
  /\ UNCHANGED <<haveApi, cvMutex, waitersCount, signalEvent, broadcastEvent, waker,
                 wakes, late>>

WakeConditionVariable ==
  /\ \/ At("asleep") = {} /\ UNCHANGED cv
     \/ \E t \in CvThreads : CvGo(t, "asleep", "relock")
  /\ UNCHANGED <<signalEvent, broadcastEvent, waker, late, owed>>

WakeAllConditionVariable ==
  /\ cv' = [t \in CvThreads |-> IF cv[t] = "asleep" THEN "relock" ELSE cv[t]]
  /\ UNCHANGED <<signalEvent, broadcastEvent, waker, late, owed>>

-----------------------------------------------------------------------------
\* uv_cond_wait_helper up to the release of the mutex.
CountsItself(t) ==
  /\ ~haveApi
  /\ CvGo(t, "locked", "counted")
  /\ waitersCount' = waitersCount + 1
  /\ late' = IF At("reset") = {} THEN late \ {t} ELSE late \cup {t}
  /\ UNCHANGED <<haveApi, cvMutex, signalEvent, broadcastEvent, waker, wakes, owed>>

ReleasesMutex(t) ==
  /\ CvGo(t, "counted", "waiting")
  /\ MutexUnlock(cvMutex, t, cvMutex')
  /\ UNCHANGED <<haveApi, waitersCount, signalEvent, broadcastEvent, waker, wakes,
                 cvHistory>>

\* WaitForMultipleObjects: the signal first, which is reset by the wait, or the
\* broadcast, or the timeout.
Wakes(t) ==
  /\ \/ signalEvent /\ signalEvent' = FALSE /\ CvGo(t, "waiting", "signalled")
     \/ /\ ~signalEvent /\ broadcastEvent
        /\ CvGo(t, "waiting", "broadcast") /\ UNCHANGED signalEvent
     \/ /\ ~signalEvent /\ ~broadcastEvent
        /\ CvGo(t, "waiting", "timeout") /\ UNCHANGED signalEvent
  /\ owed' = owed \ {t}
  /\ UNCHANGED <<haveApi, cvMutex, waitersCount, broadcastEvent, waker, wakes, late>>

\* Faulty: whoever leaves resets the event, not only the last one.
UncountsItselfAndResets(t) ==
  /\ \/ CvGo(t, "broadcast", "reset")
     \/ CvGo(t, "signalled", "relock") \/ CvGo(t, "timeout", "relock")
  /\ waitersCount' = waitersCount - 1
  /\ UNCHANGED <<haveApi, cvMutex, signalEvent, broadcastEvent, waker, wakes, cvHistory>>

\* last_waiter is decided under the lock of the count.
UncountsItself(t) ==
  /\ \/ CvGo(t, "broadcast", IF waitersCount = 1 THEN "reset" ELSE "relock")
     \/ CvGo(t, "signalled", "relock") \/ CvGo(t, "timeout", "relock")
  /\ waitersCount' = waitersCount - 1
  /\ UNCHANGED <<haveApi, cvMutex, signalEvent, broadcastEvent, waker, wakes, cvHistory>>

ResetsEvent(t) ==
  /\ CvGo(t, "reset", "relock")
  /\ broadcastEvent' = FALSE
  /\ UNCHANGED <<haveApi, cvMutex, waitersCount, signalEvent, waker, wakes, cvHistory>>

\* uv_cond_fallback_signal and _broadcast: have_waiters, and then the event.
LooksForWaiters(what) ==
  /\ waker' = IF waitersCount > 0 THEN what ELSE "idle"
  /\ UNCHANGED <<cv, signalEvent, broadcastEvent, late, owed>>

SetsEvent ==
  /\ \/ waker = "signal" /\ signalEvent' = TRUE /\ UNCHANGED <<broadcastEvent, owed>>
     \/ /\ waker = "broadcast" /\ broadcastEvent' = TRUE
        /\ owed' = owed \cup At("counted") \cup At("waiting")
        /\ UNCHANGED signalEvent
  /\ waker' = "idle"
  /\ UNCHANGED <<haveApi, cv, cvMutex, waitersCount, wakes, late>>

-----------------------------------------------------------------------------
CondSignal ==
  /\ waker = "idle" /\ wakes < MaxWakes /\ wakes' = wakes + 1
  /\ IF haveApi THEN WakeConditionVariable ELSE LooksForWaiters("signal")
  /\ UNCHANGED <<haveApi, cvMutex, waitersCount>>

CondBroadcast ==
  /\ waker = "idle" /\ wakes < MaxWakes /\ wakes' = wakes + 1
  /\ IF haveApi THEN WakeAllConditionVariable ELSE LooksForWaiters("broadcast")
  /\ UNCHANGED <<haveApi, cvMutex, waitersCount>>

CvNext ==
  \/ \E t \in CvThreads :
       \/ CallerLocks(t) \/ CallerUnlocks(t) \/ ApiWait(t) \/ ApiTimesOut(t)
       \/ CountsItself(t) \/ ReleasesMutex(t) \/ Wakes(t) \/ UncountsItself(t)
       \/ ResetsEvent(t)
  \/ CondSignal \/ CondBroadcast \/ SetsEvent

CvSpec == CvInit /\ [][CvNext]_cvVars

-----------------------------------------------------------------------------
CvTypeOK ==
  /\ haveApi \in BOOLEAN
  /\ cv \in [CvThreads -> {"out", "locked", "asleep", "counted", "waiting",
                           "signalled", "broadcast", "timeout", "reset", "relock",
                           "returned"}]
  /\ cvMutex \in CvThreads \cup {Nobody}
  /\ waitersCount = Cardinality({t \in CvThreads : cv[t] \in
                      {"counted", "waiting", "signalled", "broadcast", "timeout"}})
  /\ signalEvent \in BOOLEAN /\ broadcastEvent \in BOOLEAN
  /\ waker \in {"idle", "signal", "broadcast"} /\ wakes \in 0 .. MaxWakes
  /\ late \subseteq CvThreads /\ owed \subseteq CvThreads

(***************************************************************************)
(* A broadcast reaches everyone who had begun to wait: while a thread that *)
(* it found has yet to wake, the event is set.  There is one way around    *)
(* it: the thread counted itself when the last waiter of an earlier        *)
(* broadcast had decided to reset the event but had not done so.           *)
(***************************************************************************)
BroadcastReaches ==
  \A t \in owed \ late : cv[t] \in {"counted", "waiting"} => broadcastEvent

=============================================================================
