---------------------------- MODULE ReadWriteLock ----------------------------
(***************************************************************************)
(* uv_rwlock_t of src/getmedia/FFModule/core/thread_win.cpp: a semaphore   *)
(* that is the write lock, taken by the first reader for all readers, and  *)
(* a critical section around the count of readers.                         *)
(*                                                                         *)
(* Inside the critical section the count is nobody else's business, but    *)
(* the semaphore is taken and released in steps that writers can see.      *)
(***************************************************************************)
EXTENDS UvSemaphore, FiniteSets

CONSTANT RwThreads

ASSUME RwAssumption == Nobody \notin RwThreads /\ IsFiniteSet(RwThreads)

VARIABLES
  rw,           \* where each thread stands: "idle", "reading", "writing", ...
  numReaders, numReadersLock, writeSemaphore

rwVars == <<rw, numReaders, numReadersLock, writeSemaphore>>

RwInit ==
  /\ rw = [t \in RwThreads |-> "idle"]
  /\ numReaders = 0 /\ numReadersLock = Nobody /\ writeSemaphore = 1

RwGo(t, from, to) == rw[t] = from /\ rw' = [rw EXCEPT ![t] = to]

\* The first reader waits for the semaphore inside the critical section.
RdLock(t) ==
  /\ RwGo(t, "idle", IF numReaders = 0 THEN "rd_wait" ELSE "rd_leave")
  /\ MutexLock(numReadersLock, t, numReadersLock')
  /\ numReaders' = numReaders + 1
  /\ UNCHANGED writeSemaphore

RdLockWaits(t) ==
  /\ RwGo(t, "rd_wait", "rd_leave")
  /\ SemWait(writeSemaphore, writeSemaphore')
  /\ UNCHANGED <<numReaders, numReadersLock>>

\* uv_rwlock_tryrdlock; if the critical section is taken it returns at once.
TryRdLock(t) ==
  /\ RwGo(t, "idle", "try")
  /\ MutexLock(numReadersLock, t, numReadersLock')
  /\ UNCHANGED <<numReaders, writeSemaphore>>

\* Faulty: the semaphore is not taken for the first reader.
TryRdLockCountsOnly(t) ==
  /\ RwGo(t, "try", "rd_leave")
  /\ numReaders' = numReaders + 1
  /\ UNCHANGED <<numReadersLock, writeSemaphore>>

TryRdLockCounts(t) ==
  /\ \/ /\ numReaders = 0 /\ SemWait(writeSemaphore, writeSemaphore')
        /\ numReaders' = 1
        /\ RwGo(t, "try", "rd_leave")
     \/ /\ numReaders = 0 /\ writeSemaphore = 0
        /\ RwGo(t, "try", "leave")
        /\ UNCHANGED <<numReaders, writeSemaphore>>
     \/ /\ numReaders > 0 /\ numReaders' = numReaders + 1
        /\ RwGo(t, "try", "rd_leave")
        /\ UNCHANGED writeSemaphore
  /\ UNCHANGED numReadersLock

\* LeaveCriticalSection, and the call returns.
RdReturns(t) ==
  /\ RwGo(t, "rd_leave", "reading") \/ RwGo(t, "leave", "idle")
  /\ MutexUnlock(numReadersLock, t, numReadersLock')
  /\ UNCHANGED <<numReaders, writeSemaphore>>

RdUnlock(t) ==
  /\ RwGo(t, "reading", "leave")
  /\ MutexLock(numReadersLock, t, numReadersLock')
  /\ numReaders' = numReaders - 1
  /\ IF numReaders = 1 THEN SemPost(writeSemaphore, writeSemaphore')
                       ELSE UNCHANGED writeSemaphore

\* uv_rwlock_wrlock, and uv_rwlock_trywrlock when it succeeds.
WrLock(t) ==
  /\ RwGo(t, "idle", "writing")
  /\ SemWait(writeSemaphore, writeSemaphore')
  /\ UNCHANGED <<numReaders, numReadersLock>>

WrUnlock(t) ==
  /\ RwGo(t, "writing", "idle")
  /\ SemPost(writeSemaphore, writeSemaphore')
  /\ UNCHANGED <<numReaders, numReadersLock>>

RwNext ==
  \E t \in RwThreads :
    \/ RdLock(t) \/ RdLockWaits(t) \/ TryRdLock(t) \/ TryRdLockCounts(t)
    \/ RdReturns(t) \/ RdUnlock(t) \/ WrLock(t) \/ WrUnlock(t)

RwSpec == RwInit /\ [][RwNext]_rwVars

-----------------------------------------------------------------------------
RwTypeOK ==
  /\ rw \in [RwThreads -> {"idle", "rd_wait", "try", "rd_leave", "leave",
                           "reading", "writing"}]
  /\ numReaders \in Nat
  /\ numReadersLock \in RwThreads \cup {Nobody}
  /\ writeSemaphore \in {0, 1}

Readers == {t \in RwThreads : rw[t] = "reading"}
Writers == {t \in RwThreads : rw[t] = "writing"}

Shared == INSTANCE SharedLock
            WITH Threads <- RwThreads, readers <- Readers, writers <- Writers

(***************************************************************************)
(* The count, the critical section and the semaphore together make a       *)
(* read-write lock: the last reader that leaves and the first that comes   *)
(* hand the semaphore over correctly, also against the calls that only     *)
(* try.                                                                    *)
(***************************************************************************)
IsSharedLock == Shared!Spec

=============================================================================
