--------------------------- MODULE ThreadWinProofs ---------------------------
(***************************************************************************)
(* Theorems about the read-write lock, the barrier, the condition variable *)
(* and uv_once and the threads of thread_win.cpp, for every finite set of  *)
(* threads and any number of calls.                                        *)
(***************************************************************************)
EXTENDS ReadWriteLock, UvBarrier, UvCond, UvThread, FiniteSetTheorems, TLAPS

(***************************************************************************)
(* The read-write lock.                                                    *)
(***************************************************************************)

\* Where a thread that numReaders counts can stand, and where one that is
\* inside the critical section can.
CountedAt == {"rd_wait", "rd_leave", "reading"}
InsideAt  == {"rd_wait", "try", "rd_leave", "leave"}
RwPlaces  == {"idle", "rd_wait", "try", "rd_leave", "leave", "reading", "writing"}

\* The threads that numReaders counts, the first reader while it still waits for
\* the semaphore, and the threads inside the critical section.
InCount == {t \in RwThreads : rw[t] \in CountedAt}
Waiting == {t \in RwThreads : rw[t] = "rd_wait"}
Inside  == {t \in RwThreads : rw[t] \in InsideAt}

CountIsRight == numReaders = Cardinality(InCount)

\* The critical section has at most one thread in it, and it holds the section.
InsideHolds == \A t \in RwThreads : t \in Inside <=> numReadersLock = t

\* Only the first reader waits, before anybody else is counted.
FirstWaits == \A t \in Waiting : InCount = {t}

\* The semaphore has one owner: a writer, or all counted readers together.
OneOwner ==
  /\ (writeSemaphore = 1) <=> (Writers = {} /\ InCount \subseteq Waiting)
  /\ Writers = {} \/ InCount \subseteq Waiting
  /\ \A t, u \in Writers : t = u

(***************************************************************************)
(* The inductive invariant.  What the lock promises is about Readers and   *)
(* Writers alone; that it goes on so also rests on who is counted, who     *)
(* waits and who is inside.                                                *)
(***************************************************************************)
RwInv == RwTypeOK /\ CountIsRight /\ InsideHolds /\ FirstWaits /\ OneOwner

-----------------------------------------------------------------------------
\* What a step of t means for the sets: it moves that thread between them and no
\* other.
RwMoved(t, from, to) ==
  /\ rw' \in [RwThreads -> RwPlaces]
  /\ t \in InCount <=> from \in CountedAt
  /\ t \in Waiting <=> from = "rd_wait"
  /\ t \in Inside <=> from \in InsideAt
  /\ t \in Writers <=> from = "writing"
  /\ t \in Readers <=> from = "reading"
  /\ InCount' = IF to \in CountedAt THEN InCount \cup {t} ELSE InCount \ {t}
  /\ Waiting' = IF to = "rd_wait" THEN Waiting \cup {t} ELSE Waiting \ {t}
  /\ Inside' = IF to \in InsideAt THEN Inside \cup {t} ELSE Inside \ {t}
  /\ Writers' = IF to = "writing" THEN Writers \cup {t} ELSE Writers \ {t}
  /\ Readers' = IF to = "reading" THEN Readers \cup {t} ELSE Readers \ {t}

LEMMA RwMoves ==
  ASSUME RwInv, NEW t \in RwThreads, NEW from, NEW to \in RwPlaces, RwGo(t, from, to)
  PROVE  RwMoved(t, from, to)
<1>1. rw \in [RwThreads -> RwPlaces]
  BY DEF RwInv, RwTypeOK, RwPlaces, CountedAt, InsideAt
<1>2. rw[t] = from /\ rw' = [rw EXCEPT ![t] = to]
  BY DEF RwGo
<1>3. rw' \in [RwThreads -> RwPlaces] /\ rw'[t] = to
  BY <1>1, <1>2
<1>4. \A u \in RwThreads : u # t => rw'[u] = rw[u]
  BY <1>1, <1>2
<1>5. /\ t \in InCount <=> from \in CountedAt
      /\ InCount' = IF to \in CountedAt THEN InCount \cup {t} ELSE InCount \ {t}
  BY <1>2, <1>3, <1>4 DEF InCount
<1>6. /\ t \in Waiting <=> from = "rd_wait"
      /\ Waiting' = IF to = "rd_wait" THEN Waiting \cup {t} ELSE Waiting \ {t}
  BY <1>2, <1>3, <1>4 DEF Waiting
<1>7. /\ t \in Inside <=> from \in InsideAt
      /\ Inside' = IF to \in InsideAt THEN Inside \cup {t} ELSE Inside \ {t}
  BY <1>2, <1>3, <1>4 DEF Inside
<1>8. /\ t \in Writers <=> from = "writing"
      /\ Writers' = IF to = "writing" THEN Writers \cup {t} ELSE Writers \ {t}
  BY <1>2, <1>3, <1>4 DEF Writers
<1>9. /\ t \in Readers <=> from = "reading"
      /\ Readers' = IF to = "reading" THEN Readers \cup {t} ELSE Readers \ {t}
  BY <1>2, <1>3, <1>4 DEF Readers
<1> QED
  BY <1>3, <1>5, <1>6, <1>7, <1>8, <1>9 DEF RwMoved

\* The readers are finitely many.
LEMMA RwCounts ==
  ASSUME NEW t \in RwThreads
  PROVE  /\ Cardinality(InCount) \in Nat
         /\ Cardinality(InCount) = 0 <=> InCount = {}
         /\ t \notin InCount => Cardinality(InCount \cup {t}) = Cardinality(InCount) + 1
         /\ t \in InCount => Cardinality(InCount \ {t}) = Cardinality(InCount) - 1
         /\ t \in InCount /\ Cardinality(InCount) = 1 => InCount = {t}
<1>1. IsFiniteSet(InCount)
  BY RwAssumption, FS_Subset DEF InCount
<1>2. /\ Cardinality(InCount) \in Nat
      /\ Cardinality(InCount) = 0 <=> InCount = {}
  BY <1>1, FS_CardinalityType, FS_EmptySet
<1>3. t \notin InCount => Cardinality(InCount \cup {t}) = Cardinality(InCount) + 1
  BY <1>1, FS_AddElement
<1>4. t \in InCount => Cardinality(InCount \ {t}) = Cardinality(InCount) - 1
  BY <1>1, FS_RemoveElement
<1>5. ASSUME t \in InCount, Cardinality(InCount) = 1
      PROVE  InCount = {t}
  <2>1. IsFiniteSet(InCount \ {t}) /\ Cardinality(InCount \ {t}) = 0
    BY <1>1, <1>4, <1>5, FS_RemoveElement
  <2>2. InCount \ {t} = {}
    BY <2>1, FS_EmptySet
  <2> QED
    BY <1>5, <2>2
<1> QED
  BY <1>2, <1>3, <1>4, <1>5

\* Whoever takes the critical section finds nobody in it.
LEMMA RwEnters ==
  ASSUME RwInv, numReadersLock = Nobody
  PROVE  Inside = {} /\ Waiting = {}
<1>1. Inside = {}
  BY RwAssumption DEF RwInv, InsideHolds, Inside
<1> QED
  BY <1>1 DEF Inside, Waiting, InsideAt

\* Whoever is in the critical section is alone in it.
LEMMA RwAlone ==
  ASSUME RwInv, NEW t \in RwThreads, t \in Inside
  PROVE  Inside = {t} /\ numReadersLock = t /\ Waiting \subseteq {t}
<1>1. Inside = {t} /\ numReadersLock = t
  BY DEF RwInv, InsideHolds, Inside
<1> QED
  BY <1>1 DEF Inside, Waiting, InsideAt

LEMMA RwStart == RwInit => RwInv
<1> SUFFICES ASSUME RwInit PROVE RwInv
  OBVIOUS
<1>1. InCount = {} /\ Waiting = {} /\ Inside = {} /\ Writers = {}
  BY DEF RwInit, InCount, Waiting, Inside, Writers, CountedAt, InsideAt
<1>2. Cardinality(InCount) = 0
  BY <1>1, FS_EmptySet
<1>3. RwTypeOK
  BY DEF RwInit, RwTypeOK
<1> QED
  BY <1>1, <1>2, <1>3, RwAssumption
  DEF RwInit, RwInv, CountIsRight, InsideHolds, FirstWaits, OneOwner, Inside

-----------------------------------------------------------------------------
LEMMA RdLockKeeps ==
  ASSUME RwInv, NEW t \in RwThreads, RdLock(t)
  PROVE  RwInv' /\ Readers' = Readers /\ Writers' = Writers
<1>1. Inside = {} /\ Waiting = {}
  BY RwEnters DEF RdLock, MutexLock
<1>2. CASE numReaders = 0
  <2>1. RwGo(t, "idle", "rd_wait")
    BY <1>2 DEF RdLock
  <2>2. /\ rw' \in [RwThreads -> RwPlaces] /\ InCount = {}
        /\ t \notin InCount \cup Writers \cup Readers
        /\ InCount' = {t} /\ Waiting' = {t} /\ Inside' = {t}
        /\ Writers' = Writers /\ Readers' = Readers
    <3>1. RwMoved(t, "idle", "rd_wait")
      BY <2>1, RwMoves DEF RwPlaces
    <3>2. InCount = {}
      BY <1>2, RwCounts DEF RwInv, CountIsRight
    <3> QED
      BY <1>1, <3>1, <3>2 DEF RwMoved, CountedAt, InsideAt
  <2> QED
    BY <1>2, <2>2, RwCounts, FS_Singleton, RwAssumption
    DEF RdLock, MutexLock, RwInv, RwTypeOK, CountIsRight, InsideHolds, FirstWaits,
        OneOwner, RwPlaces, CountedAt, InsideAt
<1>3. CASE numReaders # 0
  <2>1. RwGo(t, "idle", "rd_leave")
    BY <1>3 DEF RdLock
  <2>2. /\ rw' \in [RwThreads -> RwPlaces] /\ InCount # {}
        /\ t \notin InCount \cup Writers \cup Readers
        /\ InCount' = InCount \cup {t} /\ Waiting' = {} /\ Inside' = {t}
        /\ Writers' = Writers /\ Readers' = Readers
    <3>1. InCount # {}
      BY <1>3, RwCounts DEF RwInv, CountIsRight
    <3>2. /\ t \notin InCount \cup Writers \cup Readers
          /\ rw' \in [RwThreads -> RwPlaces] /\ InCount' = InCount \cup {t}
          /\ Waiting' = Waiting \ {t} /\ Inside' = Inside \cup {t}
          /\ Writers' = Writers \ {t} /\ Readers' = Readers \ {t}
      <4>1. RwMoved(t, "idle", "rd_leave")
        BY <2>1, RwMoves DEF RwPlaces
      <4> QED
        BY <4>1 DEF RwMoved, CountedAt, InsideAt
    <3> QED
      BY <1>1, <3>1, <3>2
  <2>3. numReadersLock' = t /\ UNCHANGED writeSemaphore
    BY DEF RdLock, MutexLock
  <2>4. numReaders' \in Nat /\ CountIsRight'
    BY <1>3, <2>2, RwCounts DEF RdLock, RwInv, CountIsRight
  <2>5. InsideHolds' /\ FirstWaits'
    BY <2>2, <2>3, RwAssumption DEF InsideHolds, FirstWaits
  <2>6. OneOwner'
    BY <1>1, <2>2, <2>3 DEF RwInv, OneOwner
  <2> QED
    BY <2>2, <2>3, <2>4, <2>5, <2>6 DEF RwInv, RwTypeOK, RwPlaces
<1> QED
  BY <1>2, <1>3

LEMMA RdLockWaitsKeeps ==
  ASSUME RwInv, NEW t \in RwThreads, RdLockWaits(t)
  PROVE  RwInv' /\ Readers' = Readers /\ Writers' = Writers
<1>1. RwGo(t, "rd_wait", "rd_leave")
  BY DEF RdLockWaits
<1>moved. RwMoved(t, "rd_wait", "rd_leave")
  BY <1>1, RwMoves DEF RwPlaces
<1>2. t \in Inside /\ t \in Waiting
  BY <1>moved DEF RwMoved, CountedAt, InsideAt
<1>3. /\ rw' \in [RwThreads -> RwPlaces]
      /\ InCount = {t} /\ Waiting = {t} /\ Inside = {t}
      /\ InCount' = {t} /\ Waiting' = {} /\ Inside' = {t}
      /\ Writers' = Writers /\ Readers' = Readers
  <2>1. InCount = {t} /\ Inside = {t} /\ Waiting = {t}
    BY <1>2, RwAlone DEF RwInv, FirstWaits
  <2> QED
    BY <1>moved, <2>1 DEF RwMoved, CountedAt, InsideAt
<1> QED
  BY <1>3, RwAssumption
  DEF RdLockWaits, SemWait, RwInv, RwTypeOK, CountIsRight, InsideHolds, FirstWaits,
      OneOwner, RwPlaces, CountedAt, InsideAt

LEMMA TryRdLockKeeps ==
  ASSUME RwInv, NEW t \in RwThreads, TryRdLock(t)
  PROVE  RwInv' /\ Readers' = Readers /\ Writers' = Writers
<1>1. Inside = {} /\ Waiting = {} /\ RwGo(t, "idle", "try")
  BY RwEnters DEF TryRdLock, MutexLock
<1>2. /\ rw' \in [RwThreads -> RwPlaces]
      /\ InCount' = InCount /\ Waiting' = {} /\ Inside' = {t}
      /\ Writers' = Writers /\ Readers' = Readers
  <2>1. RwMoved(t, "idle", "try")
    BY <1>1, RwMoves DEF RwPlaces
  <2> QED
    BY <1>1, <2>1 DEF RwMoved, CountedAt, InsideAt
<1> QED
  BY <1>1, <1>2, RwAssumption
  DEF TryRdLock, MutexLock, RwInv, RwTypeOK, CountIsRight, InsideHolds, FirstWaits,
      OneOwner, RwPlaces, CountedAt, InsideAt

LEMMA TryRdLockCountsKeeps ==
  ASSUME RwInv, NEW t \in RwThreads, TryRdLockCounts(t)
  PROVE  RwInv' /\ Readers' = Readers /\ Writers' = Writers
<1>1. t \in Inside /\ t \notin Waiting \cup InCount
  BY DEF TryRdLockCounts, RwGo, Inside, Waiting, InCount, InsideAt, CountedAt
<1>2. Inside = {t} /\ Waiting = {}
  BY <1>1, RwAlone
<1>3. CASE RwGo(t, "try", "rd_leave")
  <2>1. /\ rw' \in [RwThreads -> RwPlaces]
        /\ InCount' = InCount \cup {t} /\ Waiting' = {} /\ Inside' = {t}
        /\ Writers' = Writers /\ Readers' = Readers
    <3>1. RwMoved(t, "try", "rd_leave")
      BY <1>3, RwMoves DEF RwPlaces
    <3> QED
      BY <1>1, <1>2, <3>1 DEF RwMoved, CountedAt, InsideAt
  <2>2. \/ numReaders = 0 /\ SemWait(writeSemaphore, writeSemaphore')
        \/ numReaders > 0 /\ UNCHANGED writeSemaphore
    BY <1>2, <1>3, <2>1, RwAssumption
    DEF TryRdLockCounts, RwGo, RwInv, RwTypeOK
  <2>3. numReaders' = numReaders + 1 /\ numReadersLock' = numReadersLock
    BY <1>3 DEF TryRdLockCounts, RwGo, RwInv, RwTypeOK
  <2> QED
    BY <1>1, <1>2, <2>1, <2>2, <2>3, RwCounts, RwAssumption
    DEF SemWait, RwInv, RwTypeOK, CountIsRight, InsideHolds, FirstWaits,
        OneOwner, RwPlaces, CountedAt, InsideAt
<1>4. CASE RwGo(t, "try", "leave") /\ UNCHANGED <<numReaders, numReadersLock, writeSemaphore>>
  <2>1. /\ rw' \in [RwThreads -> RwPlaces]
        /\ InCount' = InCount /\ Waiting' = {} /\ Inside' = {t}
        /\ Writers' = Writers /\ Readers' = Readers
    <3>1. RwMoved(t, "try", "leave")
      BY <1>4, RwMoves DEF RwPlaces
    <3> QED
      BY <1>1, <1>2, <3>1 DEF RwMoved, CountedAt, InsideAt
  <2> QED
    BY <1>2, <1>4, <2>1, RwAssumption
    DEF RwInv, RwTypeOK, CountIsRight, InsideHolds, FirstWaits,
        OneOwner, RwPlaces, CountedAt, InsideAt
<1> QED
  BY <1>3, <1>4 DEF TryRdLockCounts

\* The call returns: with the lock shared, or from a try that failed or an unlock.
LEMMA RdReturnsKeeps ==
  ASSUME RwInv, NEW t \in RwThreads, RdReturns(t)
  PROVE  /\ RwInv' /\ Writers' = Writers
         /\ \/ Readers' = Readers
            \/ Writers = {} /\ t \notin Readers /\ Readers' = Readers \cup {t}
<1>1. CASE RwGo(t, "rd_leave", "reading")
  <2>moved. RwMoved(t, "rd_leave", "reading")
    BY <1>1, RwMoves DEF RwPlaces
  <2>1. t \in Inside /\ t \in InCount /\ t \notin Waiting \cup Readers \cup Writers
    BY <2>moved DEF RwMoved, CountedAt, InsideAt
  <2>2. Inside = {t} /\ Waiting = {} /\ Writers = {}
    BY <2>1, RwAlone DEF RwInv, OneOwner
  <2>3. /\ rw' \in [RwThreads -> RwPlaces]
        /\ InCount' = InCount /\ Waiting' = {} /\ Inside' = {}
        /\ Writers' = Writers /\ Readers' = Readers \cup {t}
    BY <2>moved, <2>1, <2>2 DEF RwMoved, CountedAt, InsideAt
  <2> QED
    BY <2>1, <2>2, <2>3, RwAssumption
    DEF RdReturns, MutexUnlock, RwInv, RwTypeOK, CountIsRight, InsideHolds, FirstWaits,
        OneOwner, RwPlaces, CountedAt, InsideAt
<1>2. CASE RwGo(t, "leave", "idle")
  <2>moved. RwMoved(t, "leave", "idle")
    BY <1>2, RwMoves DEF RwPlaces
  <2>1. t \in Inside /\ t \notin InCount \cup Waiting \cup Readers \cup Writers
    BY <2>moved DEF RwMoved, CountedAt, InsideAt
  <2>2. Inside = {t} /\ Waiting = {}
    BY <2>1, RwAlone
  <2>3. /\ rw' \in [RwThreads -> RwPlaces]
        /\ InCount' = InCount \ {t} /\ Waiting' = Waiting \ {t} /\ Inside' = Inside \ {t}
        /\ Writers' = Writers \ {t} /\ Readers' = Readers \ {t}
    BY <2>moved DEF RwMoved, CountedAt, InsideAt
  <2>4. /\ InCount' = InCount /\ Waiting' = {} /\ Inside' = {}
        /\ Writers' = Writers /\ Readers' = Readers
    BY <2>1, <2>2, <2>3
  <2> QED
    BY <2>1, <2>2, <2>3, <2>4, RwAssumption
    DEF RdReturns, MutexUnlock, RwInv, RwTypeOK, CountIsRight, InsideHolds, FirstWaits,
        OneOwner, RwPlaces, CountedAt, InsideAt
<1> QED
  BY <1>1, <1>2 DEF RdReturns

\* The last reader that leaves hands the semaphore back.
LEMMA RdUnlockKeeps ==
  ASSUME RwInv, NEW t \in RwThreads, RdUnlock(t)
  PROVE  RwInv' /\ Writers' = Writers /\ t \in Readers /\ Readers' = Readers \ {t}
<1>1. Inside = {} /\ Waiting = {} /\ RwGo(t, "reading", "leave")
  BY RwEnters DEF RdUnlock, MutexLock
<1>moved. RwMoved(t, "reading", "leave")
  BY <1>1, RwMoves DEF RwPlaces
<1>2. t \in InCount /\ t \in Readers /\ t \notin Writers
  BY <1>moved DEF RwMoved, CountedAt, InsideAt
<1>3. Writers = {} /\ writeSemaphore = 0
  BY <1>1, <1>2 DEF RwInv, RwTypeOK, OneOwner
<1>4. /\ rw' \in [RwThreads -> RwPlaces]
      /\ InCount' = InCount \ {t} /\ Waiting' = {} /\ Inside' = {t}
      /\ Writers' = {} /\ Readers' = Readers \ {t}
  BY <1>moved, <1>1, <1>2, <1>3 DEF RwMoved, CountedAt, InsideAt
<1>5. /\ numReaders = Cardinality(InCount) /\ Cardinality(InCount) \in Nat
      /\ Cardinality(InCount') = numReaders - 1
      /\ numReaders # 0 /\ numReaders' = numReaders - 1
      /\ numReaders = 1 <=> InCount = {t}
  BY <1>2, <1>4, RwCounts, FS_Singleton DEF RdUnlock, RwInv, CountIsRight
<1>6. (writeSemaphore' = 1) <=> InCount' = {}
  BY <1>2, <1>3, <1>4, <1>5 DEF RdUnlock, SemPost
<1>7. writeSemaphore' \in {0, 1} /\ numReadersLock' = t
  BY <1>3 DEF RdUnlock, SemPost, MutexLock
<1> QED
  BY <1>2, <1>3, <1>4, <1>5, <1>6, <1>7, RwAssumption
  DEF RwInv, RwTypeOK, CountIsRight, InsideHolds, FirstWaits,
      OneOwner, RwPlaces, CountedAt, InsideAt

LEMMA WrLockKeeps ==
  ASSUME RwInv, NEW t \in RwThreads, WrLock(t)
  PROVE  /\ RwInv' /\ Readers' = Readers
         /\ Readers = {} /\ Writers = {} /\ Writers' = {t}
<1>1. RwGo(t, "idle", "writing") /\ writeSemaphore = 1 /\ writeSemaphore' = 0
  BY DEF WrLock, SemWait, RwInv, RwTypeOK
<1>2. Writers = {} /\ InCount \subseteq Waiting
  BY <1>1 DEF RwInv, OneOwner
<1>3. /\ rw' \in [RwThreads -> RwPlaces]
      /\ InCount' = InCount /\ Waiting' = Waiting /\ Inside' = Inside
      /\ Writers' = {t} /\ Readers' = Readers
  <2>1. RwMoved(t, "idle", "writing")
    BY <1>1, RwMoves DEF RwPlaces
  <2> QED
    BY <1>2, <2>1 DEF RwMoved, CountedAt, InsideAt
<1>4. Readers = {}
  BY <1>2 DEF Readers, InCount, Waiting, CountedAt
<1> QED
  BY <1>1, <1>2, <1>3, <1>4, RwAssumption
  DEF WrLock, RwInv, RwTypeOK, CountIsRight, InsideHolds, FirstWaits,
      OneOwner, RwPlaces, CountedAt, InsideAt

LEMMA WrUnlockKeeps ==
  ASSUME RwInv, NEW t \in RwThreads, WrUnlock(t)
  PROVE  /\ RwInv' /\ t \in Writers
         /\ t \notin Readers /\ Readers' = Readers /\ Writers' = Writers \ {t}
<1>1. RwGo(t, "writing", "idle")
  BY DEF WrUnlock
<1>moved. RwMoved(t, "writing", "idle")
  BY <1>1, RwMoves DEF RwPlaces
<1>2. t \in Writers /\ t \notin Readers \cup InCount \cup Waiting \cup Inside
  BY <1>moved DEF RwMoved, CountedAt, InsideAt
<1>3. Writers = {t} /\ InCount \subseteq Waiting /\ writeSemaphore = 0
  BY <1>2 DEF RwInv, RwTypeOK, OneOwner
<1>4. /\ rw' \in [RwThreads -> RwPlaces]
      /\ InCount' = InCount /\ Waiting' = Waiting /\ Inside' = Inside
      /\ Writers' = {} /\ Readers' = Readers
  <2>1. /\ rw' \in [RwThreads -> RwPlaces]
        /\ InCount' = InCount \ {t} /\ Waiting' = Waiting \ {t} /\ Inside' = Inside \ {t}
        /\ Writers' = Writers \ {t} /\ Readers' = Readers \ {t}
    BY <1>moved DEF RwMoved, CountedAt, InsideAt
  <2> QED
    BY <1>2, <1>3, <2>1
<1>5. writeSemaphore' = 1 /\ UNCHANGED <<numReaders, numReadersLock>>
  BY <1>3 DEF WrUnlock, SemPost
<1>6. CountIsRight' /\ InsideHolds'
  BY <1>4, <1>5 DEF RwInv, CountIsRight, InsideHolds
<1>7. FirstWaits' /\ OneOwner'
  BY <1>3, <1>4, <1>5 DEF RwInv, FirstWaits, OneOwner
<1> QED
  BY <1>2, <1>3, <1>4, <1>5, <1>6, <1>7 DEF RwInv, RwTypeOK, RwPlaces

-----------------------------------------------------------------------------
LEMMA RwStutters ==
  ASSUME RwInv, UNCHANGED rwVars
  PROVE  RwInv' /\ Readers' = Readers /\ Writers' = Writers
BY DEF rwVars, RwInv, RwTypeOK, CountIsRight, InsideHolds, FirstWaits, OneOwner,
       InCount, Waiting, Inside, Readers, Writers

\* Every step keeps the invariant and is a step of the abstract lock or none.
LEMMA RwStep ==
  ASSUME RwInv, [RwNext]_rwVars
  PROVE  RwInv' /\ [Shared!Next]_<<Readers, Writers>>
<1>1. ASSUME NEW t \in RwThreads, RdLock(t) \/ RdLockWaits(t) \/ TryRdLock(t)
                                  \/ TryRdLockCounts(t)
      PROVE  RwInv' /\ UNCHANGED <<Readers, Writers>>
  BY <1>1, RdLockKeeps, RdLockWaitsKeeps, TryRdLockKeeps, TryRdLockCountsKeeps
<1>2. ASSUME NEW t \in RwThreads, RdReturns(t)
      PROVE  RwInv' /\ (Shared!AcquireShared(t) \/ UNCHANGED <<Readers, Writers>>)
  BY <1>2, RdReturnsKeeps DEF Shared!AcquireShared
<1>3. ASSUME NEW t \in RwThreads, RdUnlock(t)
      PROVE  RwInv' /\ Shared!Release(t)
  <2>1. t \notin Writers
    BY <1>3 DEF RdUnlock, RwGo, Writers
  <2> QED
    BY <1>3, <2>1, RdUnlockKeeps DEF Shared!Release
<1>4. ASSUME NEW t \in RwThreads, WrLock(t)
      PROVE  RwInv' /\ Shared!AcquireExclusive(t)
  BY <1>4, WrLockKeeps DEF Shared!AcquireExclusive
<1>5. ASSUME NEW t \in RwThreads, WrUnlock(t)
      PROVE  RwInv' /\ Shared!Release(t)
  BY <1>5, WrUnlockKeeps DEF Shared!Release
<1>6. CASE UNCHANGED rwVars
  BY <1>6, RwStutters
<1> QED
  BY <1>1, <1>2, <1>3, <1>4, <1>5, <1>6 DEF RwNext, Shared!Next

\* uv_rwlock_t: the count, the section, the semaphore and the readers agree in
\* every reachable state, also while threads stand inside the calls.
THEOREM RwLockSound == RwSpec => []RwInv
<1>1. RwInit => RwInv
  BY RwStart
<1>2. RwInv /\ [RwNext]_rwVars => RwInv'
  BY RwStep
<1> QED
  BY <1>1, <1>2, PTL DEF RwSpec

(***************************************************************************)
(* uv_rwlock_t of thread_win.cpp is a read-write lock for any number of    *)
(* threads: many readers or one writer, and nobody enters who did not      *)
(* acquire.                                                                *)
(***************************************************************************)
THEOREM RwLockRefines == RwSpec => IsSharedLock
<1>1. RwInit => Shared!Init
  BY DEF RwInit, Shared!Init, Readers, Writers
<1>2. RwInv /\ [RwNext]_rwVars => [Shared!Next]_<<Readers, Writers>>
  BY RwStep
<1> QED
  BY <1>1, <1>2, RwLockSound, PTL DEF RwSpec, IsSharedLock, Shared!Spec

-----------------------------------------------------------------------------
(***************************************************************************)
(* The barrier.                                                            *)
(***************************************************************************)

\* Where the threads stand that count counts, and that are in the mutex.
ArrivedAt == {"last", "unlock1", "first", "through", "leave"}
LeavingAt == {"unlock2", "second", "return"}
MutexAt == {"last", "unlock1", "reset", "unlock2"}

Arrived == {t \in Parties : bar[t] \in ArrivedAt}

BarCount == count = Cardinality(Arrived)

BarMutex == \A t \in Parties : bar[t] \in MutexAt <=> barMutex = t

\* The turnstile is open, or one thread is on its way through and will open it.
Sole(turnstile, way) ==
  \/ turnstile = 1 /\ \A t \in Parties : bar[t] # way
  \/ turnstile = 0 /\ \E t \in Parties : \A u \in Parties : bar[u] = way <=> u = t

\* Rounds that thread t has begun and ended.
Rounds(t, begun, ended) == entered[t] = begun /\ left[t] = ended

(***************************************************************************)
(* The second turnstile is open: threads arrive for round serial + 1, and  *)
(* others have yet to leave the one before.                                *)
(***************************************************************************)
Filling ==
  /\ turnstile1 = 0 /\ Sole(turnstile2, "return")
  /\ \A t \in Parties :
       \/ bar[t] = "out" /\ Rounds(t, serial, serial)
       \/ bar[t] \in {"last", "unlock1", "first"} /\ Rounds(t, serial + 1, serial)
       \/ bar[t] \in LeavingAt /\ Rounds(t, serial, serial - 1)

\* The first turnstile is open: all have arrived, and go to the second.
Draining ==
  /\ turnstile2 = 0 /\ Sole(turnstile1, "through")
  /\ \A t \in Parties :
       /\ bar[t] \in {"unlock1", "first", "through", "leave", "unlock2", "second"}
       /\ Rounds(t, serial + 1, serial)

\* The last one of them has gone through, and has to turn the barrier round.
Turning ==
  /\ turnstile2 = 0 /\ turnstile1 = 1
  /\ \A t \in Parties :
       bar[t] \in {"reset", "unlock2", "second"} /\ Rounds(t, serial, serial - 1)

(***************************************************************************)
(* The inductive invariant: the barrier is in one of three phases, of      *)
(* which each says where the threads can be and how many rounds they have  *)
(* behind them, so that no thread is a round ahead of another.  Who is     *)
(* last is known from the count.                                           *)
(***************************************************************************)
BarInv ==
  /\ BarTypeOK /\ BarCount /\ BarMutex
  /\ \A t \in Parties : bar[t] = "last" => Arrived = Parties
  /\ Filling \/ Draining \/ Turning

LEMMA BarCounts ==
  ASSUME NEW t \in Parties
  PROVE  /\ Cardinality(Arrived) \in 0 .. Cardinality(Parties)
         /\ Cardinality(Parties) \in Nat
         /\ t \notin Arrived =>
              /\ Cardinality(Arrived \cup {t}) = Cardinality(Arrived) + 1
              /\ Cardinality(Arrived) + 1 <= Cardinality(Parties)
              /\ Cardinality(Arrived) + 1 = Cardinality(Parties) => Arrived \cup {t} = Parties
         /\ t \in Arrived =>
              /\ Cardinality(Arrived \ {t}) = Cardinality(Arrived) - 1
              /\ Cardinality(Arrived) >= 1
              /\ Cardinality(Arrived) = 1 => Arrived = {t}
<1>1. /\ IsFiniteSet(Parties) /\ IsFiniteSet(Arrived) /\ Arrived \subseteq Parties
      /\ Cardinality(Parties) \in Nat /\ Cardinality(Arrived) \in Nat
      /\ Cardinality(Arrived) <= Cardinality(Parties)
  BY BarrierAssumption, FS_Subset, FS_CardinalityType DEF Arrived
<1>2. ASSUME t \notin Arrived
      PROVE  /\ Cardinality(Arrived \cup {t}) = Cardinality(Arrived) + 1
             /\ Cardinality(Arrived) + 1 <= Cardinality(Parties)
             /\ Cardinality(Arrived) + 1 = Cardinality(Parties) => Arrived \cup {t} = Parties
  <2>1. Cardinality(Arrived \cup {t}) = Cardinality(Arrived) + 1
    BY <1>1, <1>2, FS_AddElement
  <2>2. Arrived \cup {t} \subseteq Parties
    BY <1>1
  <2>3. /\ Cardinality(Arrived \cup {t}) <= Cardinality(Parties)
        /\ Cardinality(Arrived \cup {t}) = Cardinality(Parties) => Arrived \cup {t} = Parties
    BY <1>1, <2>2, FS_Subset
  <2> QED
    BY <2>1, <2>3
<1>3. ASSUME t \in Arrived
      PROVE  /\ Cardinality(Arrived \ {t}) = Cardinality(Arrived) - 1
             /\ Cardinality(Arrived) >= 1
             /\ Cardinality(Arrived) = 1 => Arrived = {t}
  <2>1. /\ Cardinality(Arrived \ {t}) = Cardinality(Arrived) - 1
        /\ IsFiniteSet(Arrived \ {t})
    BY <1>1, <1>3, FS_RemoveElement
  <2>2. Cardinality(Arrived \ {t}) \in Nat
    BY <2>1, FS_CardinalityType
  <2>3. Cardinality(Arrived \ {t}) = 0 => Arrived \ {t} = {}
    BY <2>1, FS_EmptySet
  <2> QED
    BY <1>1, <1>3, <2>1, <2>2, <2>3
<1> QED
  BY <1>1, <1>2, <1>3

\* A step of one thread moves no other.
LEMMA BarMoves ==
  ASSUME BarTypeOK, NEW t \in Parties, NEW from, NEW to, BarGo(t, from, to)
  PROVE  /\ bar[t] = from /\ bar'[t] = to
         /\ \A u \in Parties \ {t} : bar'[u] = bar[u]
         /\ t \in Arrived <=> from \in ArrivedAt
         /\ Arrived' = IF to \in ArrivedAt THEN Arrived \cup {t} ELSE Arrived \ {t}
<1>1. bar[t] = from /\ bar'[t] = to /\ \A u \in Parties \ {t} : bar'[u] = bar[u]
  BY DEF BarGo, BarTypeOK
<1>2. t \in Arrived <=> from \in ArrivedAt
  BY <1>1 DEF Arrived
<1>3. Arrived' = IF to \in ArrivedAt THEN Arrived \cup {t} ELSE Arrived \ {t}
  BY <1>1 DEF Arrived
<1> QED
  BY <1>1, <1>2, <1>3

LEMMA BarTypeStep ==
  ASSUME BarInv, NEW t \in Parties, BarStep(t)
  PROVE  BarTypeOK' /\ BarCount'
<1> DEFINE BarPlaces == {"out", "last", "unlock1", "first", "through", "leave",
                      "reset", "unlock2", "second", "return"}
<1> USE DEF BarInv
<1>0. /\ count \in Nat /\ count = Cardinality(Arrived) /\ serial \in Nat
      /\ turnstile1 \in {0, 1} /\ turnstile2 \in {0, 1}
  BY BarCounts DEF BarCount, BarTypeOK
<1>1. CASE BarEnter(t)
  <2>1. PICK to \in {"last", "unlock1"} : BarGo(t, "out", to)
    BY <1>1 DEF BarEnter
  <2>2. t \notin Arrived /\ Arrived' = Arrived \cup {t}
    BY <2>1, BarMoves DEF ArrivedAt
  <2>3. count' = Cardinality(Arrived') /\ count' \in 0 .. Cardinality(Parties)
    BY <1>0, <1>1, <2>2, BarCounts DEF BarEnter
  <2>4. bar' \in [Parties -> BarPlaces]
    BY <2>1 DEF BarGo, BarTypeOK
  <2>5. entered' \in [Parties -> 0 .. MaxRounds]
    <3>1. entered[t] + 1 \in 0 .. MaxRounds
      BY <1>1, BarrierAssumption DEF BarEnter, BarTypeOK
    <3> QED
      BY <1>1, <3>1 DEF BarEnter, BarTypeOK
  <2>6. /\ UNCHANGED <<turnstile1, turnstile2, left, serial>> /\ barMutex' = t
    BY <1>1 DEF BarEnter, MutexLock
  <2> QED
    BY <2>3, <2>4, <2>5, <2>6 DEF BarTypeOK, BarCount
<1>2. CASE BarLeave(t)
  <2>1. PICK to \in {"reset", "unlock2"} : BarGo(t, "leave", to)
    BY <1>2 DEF BarLeave
  <2>2. t \in Arrived /\ Arrived' = Arrived \ {t}
    BY <2>1, BarMoves DEF ArrivedAt
  <2>3. count' = Cardinality(Arrived') /\ count' \in 0 .. Cardinality(Parties)
    BY <1>0, <1>2, <2>2, BarCounts DEF BarLeave
  <2>4. bar' \in [Parties -> BarPlaces]
    BY <2>1 DEF BarGo, BarTypeOK
  <2>5. serial' \in Nat
    BY <1>0, <1>2 DEF BarLeave
  <2>6. UNCHANGED <<turnstile1, turnstile2, entered, left>> /\ barMutex' = t
    BY <1>2 DEF BarLeave, MutexLock
  <2> QED
    BY <2>3, <2>4, <2>5, <2>6 DEF BarTypeOK, BarCount
<1>3. CASE BarUnlock(t)
  <2>1. PICK from, to \in BarPlaces :
          BarGo(t, from, to) /\ (from \in ArrivedAt <=> to \in ArrivedAt)
    BY <1>3 DEF BarUnlock, ArrivedAt
  <2>2. Arrived' = Arrived
    BY <2>1, BarMoves
  <2>3. bar' \in [Parties -> BarPlaces]
    BY <2>1 DEF BarGo, BarTypeOK
  <2>4. UNCHANGED <<count, turnstile1, turnstile2, entered, left, serial>> /\ barMutex' = Nobody
    BY <1>3 DEF BarUnlock, MutexUnlock
  <2> QED
    BY <2>2, <2>3, <2>4 DEF BarTypeOK, BarCount
<1>4. CASE BarOpensFirst(t) \/ BarTakesFirst(t) \/ BarPostsFirst(t) \/ BarOpensSecond(t)
           \/ BarTakesSecond(t)
  <2>1. PICK from, to \in BarPlaces :
          BarGo(t, from, to) /\ (from \in ArrivedAt <=> to \in ArrivedAt)
    BY <1>4
    DEF BarOpensFirst, BarTakesFirst, BarPostsFirst, BarOpensSecond, BarTakesSecond, ArrivedAt
  <2>2. Arrived' = Arrived
    BY <2>1, BarMoves
  <2>3. bar' \in [Parties -> BarPlaces]
    BY <2>1 DEF BarGo, BarTypeOK
  <2>4. UNCHANGED <<count, barMutex, entered, left, serial>>
    BY <1>4 DEF BarOpensFirst, BarTakesFirst, BarPostsFirst, BarOpensSecond, BarTakesSecond
  <2>5. bar[t] = "last" => turnstile1 = 0
    BY DEF Filling, Draining, Turning
  <2>6. bar[t] = "through" => turnstile1 = 0
    BY DEF Filling, Draining, Turning, Sole, LeavingAt
  <2>7. bar[t] = "reset" => turnstile2 = 0
    BY DEF Filling, Draining, Turning, LeavingAt
  <2>8. turnstile1' \in {0, 1} /\ turnstile2' \in {0, 1}
    BY <1>0, <1>4, <2>5, <2>6, <2>7
    DEF BarOpensFirst, BarTakesFirst, BarPostsFirst, BarOpensSecond, BarTakesSecond, BarGo,
        SemWait, SemPost
  <2> QED
    BY <2>2, <2>3, <2>4, <2>8 DEF BarTypeOK, BarCount
<1>5. CASE BarReturns(t)
  <2>1. BarGo(t, "return", "out") /\ UNCHANGED <<count, barMutex, turnstile1, entered, serial>>
    BY <1>5 DEF BarReturns
  <2>2. Arrived' = Arrived
    BY <2>1, BarMoves DEF ArrivedAt
  <2>3. bar' \in [Parties -> BarPlaces]
    BY <2>1 DEF BarGo, BarTypeOK
  <2>4. bar[t] = "return" => turnstile2 = 0 /\ Rounds(t, serial, serial - 1)
    BY DEF Filling, Draining, Turning, Sole, LeavingAt
  <2>5. turnstile2' \in {0, 1}
    BY <1>5, <2>1, <2>4 DEF BarReturns, SemPost, BarGo
  <2>6. left' \in [Parties -> 0 .. MaxRounds]
    <3>1. left[t] \in 0 .. MaxRounds /\ entered[t] \in 0 .. MaxRounds
      BY DEF BarTypeOK
    <3>2. left[t] + 1 = entered[t]
      BY <1>0, <2>1, <2>4 DEF BarGo, Rounds
    <3>3. left[t] + 1 \in 0 .. MaxRounds
      BY <3>1, <3>2
    <3> QED
      BY <1>5, <3>3 DEF BarReturns, BarTypeOK
  <2> QED
    BY <2>1, <2>2, <2>3, <2>5, <2>6 DEF BarTypeOK, BarCount
<1> QED
  BY <1>1, <1>2, <1>3, <1>4, <1>5 DEF BarStep

LEMMA BarMutexStep ==
  ASSUME BarInv, NEW t \in Parties, BarStep(t)
  PROVE  BarMutex'
<1> USE BarrierAssumption DEF BarInv
<1>1. CASE BarEnter(t) \/ BarLeave(t)
  <2>1. PICK from \in {"out", "leave"}, to \in MutexAt : BarGo(t, from, to)
    BY <1>1 DEF BarEnter, BarLeave, MutexAt
  <2>2. barMutex = Nobody /\ barMutex' = t
    BY <1>1 DEF BarEnter, BarLeave, MutexLock
  <2> QED
    BY <2>1, <2>2, BarMoves DEF BarMutex
<1>2. CASE BarUnlock(t)
  <2>1. PICK from \in MutexAt, to \in {"first", "second"} : BarGo(t, from, to)
    BY <1>2 DEF BarUnlock, MutexAt
  <2>2. barMutex = t /\ barMutex' = Nobody
    BY <1>2 DEF BarUnlock, MutexUnlock
  <2> QED
    BY <2>1, <2>2, BarMoves DEF BarMutex, MutexAt
<1>3. CASE BarOpensFirst(t) \/ BarTakesFirst(t) \/ BarPostsFirst(t) \/ BarOpensSecond(t)
           \/ BarTakesSecond(t) \/ BarReturns(t)
  <2>1. PICK from, to : BarGo(t, from, to) /\ (from \in MutexAt <=> to \in MutexAt)
    BY <1>3
    DEF BarOpensFirst, BarTakesFirst, BarPostsFirst, BarOpensSecond, BarTakesSecond,
        BarReturns, MutexAt
  <2>2. barMutex' = barMutex
    BY <1>3
    DEF BarOpensFirst, BarTakesFirst, BarPostsFirst, BarOpensSecond, BarTakesSecond,
        BarReturns
  <2> QED
    BY <2>1, <2>2, BarMoves DEF BarMutex
<1> QED
  BY <1>1, <1>2, <1>3 DEF BarStep

LEMMA BarLastStep ==
  ASSUME BarInv, NEW t \in Parties, BarStep(t)
  PROVE  \A u \in Parties : bar'[u] = "last" => Arrived' = Parties
<1> USE DEF BarInv
<1>1. CASE BarEnter(t)
  <2>1. PICK to \in {"last", "unlock1"} :
          /\ BarGo(t, "out", to)
          /\ to = "last" => count + 1 = Cardinality(Parties)
    BY <1>1 DEF BarEnter
  <2>2. t \notin Arrived /\ Arrived' = Arrived \cup {t}
    BY <2>1, BarMoves DEF ArrivedAt
  <2>3. to = "last" => Arrived' = Parties
    BY <2>1, <2>2, BarCounts DEF BarCount
  <2>4. \A u \in Parties \ {t} : bar[u] # "last"
    BY <2>2
  <2> QED
    BY <2>1, <2>3, <2>4, BarMoves
<1>2. CASE BarOpensFirst(t) \/ BarTakesFirst(t) \/ BarPostsFirst(t)
  <2>1. PICK from, to \in ArrivedAt : BarGo(t, from, to) /\ to # "last"
    BY <1>2 DEF BarOpensFirst, BarTakesFirst, BarPostsFirst, ArrivedAt
  <2>2. Arrived' = Arrived
    BY <2>1, BarMoves
  <2> QED
    BY <2>1, <2>2, BarMoves
<1>3. CASE BarLeave(t)
  <2>1. bar[t] = "leave" /\ bar'[t] # "last" /\ \A u \in Parties \ {t} : bar'[u] = bar[u]
    BY <1>3, BarMoves DEF BarLeave
  <2>2. \A u \in Parties : bar[u] # "last"
    BY <2>1 DEF Filling, Draining, Turning, LeavingAt
  <2> QED
    BY <2>1, <2>2
<1>4. CASE BarUnlock(t) \/ BarOpensSecond(t) \/ BarTakesSecond(t) \/ BarReturns(t)
  <2>1. PICK from, to : /\ BarGo(t, from, to) /\ to # "last"
                        /\ from \in ArrivedAt <=> to \in ArrivedAt
    BY <1>4 DEF BarUnlock, BarOpensSecond, BarTakesSecond, BarReturns, ArrivedAt
  <2>2. Arrived' = Arrived
    BY <2>1, BarMoves
  <2> QED
    BY <2>1, <2>2, BarMoves
<1> QED
  BY <1>1, <1>2, <1>3, <1>4 DEF BarStep

LEMMA BarPhaseStep ==
  ASSUME BarInv, NEW t \in Parties, BarStep(t)
  PROVE  Filling' \/ Draining' \/ Turning'
<1> USE DEF BarInv, Rounds
<1>0. serial \in Nat /\ \A u \in Parties : entered[u] \in Int /\ left[u] \in Int
  BY DEF BarTypeOK
<1>1. CASE BarEnter(t)
  <2>1. PICK to \in {"last", "unlock1"} : BarGo(t, "out", to)
    BY <1>1 DEF BarEnter
  <2>2. /\ bar[t] = "out" /\ bar'[t] \in {"last", "unlock1"}
        /\ \A u \in Parties \ {t} : bar'[u] = bar[u]
    BY <2>1, BarMoves
  <2>3. Filling
    BY <2>2 DEF Draining, Turning
  <2>4. /\ UNCHANGED <<turnstile1, turnstile2, left, serial>>
        /\ entered'[t] = entered[t] + 1 /\ \A u \in Parties \ {t} : entered'[u] = entered[u]
    BY <1>1 DEF BarEnter, BarTypeOK
  <2>5. Filling'
    BY <1>0, <2>2, <2>3, <2>4 DEF Filling, Sole, LeavingAt
  <2> QED
    BY <2>5
<1>2. CASE BarOpensFirst(t)
  <2>1. /\ bar[t] = "last" /\ bar'[t] = "unlock1"
        /\ \A u \in Parties \ {t} : bar'[u] = bar[u]
    BY <1>2, BarMoves DEF BarOpensFirst
  <2>2. Filling /\ Arrived = Parties
    BY <2>1 DEF Draining, Turning
  <2>3. \A u \in Parties : bar[u] \in ArrivedAt
    BY <2>2 DEF Arrived
  <2>4. \A u \in Parties \ {t} : bar[u] # "last"
    BY <2>1 DEF BarMutex, MutexAt
  <2>5. \A u \in Parties : /\ bar[u] \in {"last", "unlock1", "first"}
                           /\ Rounds(u, serial + 1, serial)
    BY <2>2, <2>3 DEF Filling, ArrivedAt, LeavingAt
  <2>6. UNCHANGED <<entered, left, serial>> /\ turnstile1' = 1 /\ turnstile2' = 0
    BY <1>2, <2>2 DEF BarOpensFirst, SemWait, SemPost, Filling, BarTypeOK
  <2>7. Draining'
    BY <2>1, <2>4, <2>5, <2>6 DEF Draining, Sole
  <2> QED
    BY <2>7
<1>3. CASE BarUnlock(t)
  <2>1. /\ \/ bar[t] = "unlock1" /\ bar'[t] = "first"
           \/ bar[t] = "unlock2" /\ bar'[t] = "second"
        /\ \A u \in Parties \ {t} : bar'[u] = bar[u]
    BY <1>3, BarMoves DEF BarUnlock
  <2>2. UNCHANGED <<turnstile1, turnstile2, entered, left, serial>>
    BY <1>3 DEF BarUnlock
  <2>3. Filling => Filling'
    BY <2>1, <2>2 DEF Filling, Sole, LeavingAt
  <2>4. Draining => Draining'
    BY <2>1, <2>2 DEF Draining, Sole
  <2>5. Turning => Turning'
    BY <2>1, <2>2 DEF Turning
  <2> QED
    BY <2>3, <2>4, <2>5
<1>4. CASE BarTakesFirst(t)
  <2>1. /\ bar[t] = "first" /\ bar'[t] = "through"
        /\ \A u \in Parties \ {t} : bar'[u] = bar[u]
    BY <1>4, BarMoves DEF BarTakesFirst
  <2>2. /\ UNCHANGED <<turnstile2, entered, left, serial>>
        /\ turnstile1 = 1 /\ turnstile1' = 0
    BY <1>4 DEF BarTakesFirst, SemWait, BarTypeOK
  <2>3. Draining
    BY <2>1, <2>2 DEF Filling, Turning
  <2>4. \A u \in Parties : bar[u] # "through"
    BY <2>2, <2>3 DEF Draining, Sole
  <2>5. Draining'
    BY <2>1, <2>2, <2>3, <2>4 DEF Draining, Sole
  <2> QED
    BY <2>5
<1>5. CASE BarPostsFirst(t)
  <2>1. /\ bar[t] = "through" /\ bar'[t] = "leave"
        /\ \A u \in Parties \ {t} : bar'[u] = bar[u]
    BY <1>5, BarMoves DEF BarPostsFirst
  <2>2. Draining
    BY <2>1 DEF Filling, Turning, LeavingAt
  <2>3. turnstile1 = 0 /\ \A u \in Parties \ {t} : bar[u] # "through"
    BY <2>1, <2>2 DEF Draining, Sole
  <2>4. UNCHANGED <<turnstile2, entered, left, serial>> /\ turnstile1' = 1
    BY <1>5, <2>3 DEF BarPostsFirst, SemPost
  <2>5. Draining'
    BY <2>1, <2>2, <2>3, <2>4 DEF Draining, Sole
  <2> QED
    BY <2>5
<1>6. CASE BarLeave(t)
  <2>1. /\ bar[t] = "leave" /\ bar'[t] = IF count = 1 THEN "reset" ELSE "unlock2"
        /\ \A u \in Parties \ {t} : bar'[u] = bar[u]
    BY <1>6, BarMoves DEF BarLeave
  <2>2. Draining
    BY <2>1 DEF Filling, Turning, LeavingAt
  <2>3. /\ UNCHANGED <<turnstile1, turnstile2, entered, left>>
        /\ serial' = IF count = 1 THEN serial + 1 ELSE serial
    BY <1>6 DEF BarLeave
  <2>4. CASE count = 1
    <3>1. Arrived = {t}
      BY <2>1, <2>4, BarCounts DEF BarCount, Arrived, ArrivedAt
    <3>2. \A u \in Parties \ {t} : bar[u] \in {"unlock2", "second"}
      BY <2>2, <3>1 DEF Draining, Arrived, ArrivedAt
    <3>3. turnstile1 = 1
      BY <2>1, <2>2, <3>2 DEF Draining, Sole
    <3>4. Turning'
      BY <1>0, <2>1, <2>2, <2>3, <2>4, <3>2, <3>3 DEF Draining, Turning
    <3> QED
      BY <3>4
  <2>5. CASE count # 1
    <3>1. Draining'
      BY <2>1, <2>2, <2>3, <2>5 DEF Draining, Sole
    <3> QED
      BY <3>1
  <2> QED
    BY <2>4, <2>5
<1>7. CASE BarOpensSecond(t)
  <2>1. /\ bar[t] = "reset" /\ bar'[t] = "unlock2"
        /\ \A u \in Parties \ {t} : bar'[u] = bar[u]
    BY <1>7, BarMoves DEF BarOpensSecond
  <2>2. Turning
    BY <2>1 DEF Filling, Draining, LeavingAt
  <2>3. \A u \in Parties \ {t} : bar[u] # "reset"
    BY <2>1 DEF BarMutex, MutexAt
  <2>4. UNCHANGED <<entered, left, serial>> /\ turnstile1' = 0 /\ turnstile2' = 1
    BY <1>7, <2>2 DEF BarOpensSecond, SemWait, SemPost, Turning
  <2>5. Filling'
    BY <2>1, <2>2, <2>3, <2>4 DEF Turning, Filling, Sole, LeavingAt
  <2> QED
    BY <2>5
<1>8. CASE BarTakesSecond(t)
  <2>1. /\ bar[t] = "second" /\ bar'[t] = "return"
        /\ \A u \in Parties \ {t} : bar'[u] = bar[u]
    BY <1>8, BarMoves DEF BarTakesSecond
  <2>2. /\ UNCHANGED <<turnstile1, entered, left, serial>>
        /\ turnstile2 = 1 /\ turnstile2' = 0
    BY <1>8 DEF BarTakesSecond, SemWait, BarTypeOK
  <2>3. Filling
    BY <2>2 DEF Draining, Turning
  <2>4. \A u \in Parties : bar[u] # "return"
    BY <2>2, <2>3 DEF Filling, Sole
  <2>5. Filling'
    BY <2>1, <2>2, <2>3, <2>4 DEF Filling, Sole, LeavingAt
  <2> QED
    BY <2>5
<1>9. CASE BarReturns(t)
  <2>1. /\ bar[t] = "return" /\ bar'[t] = "out"
        /\ \A u \in Parties \ {t} : bar'[u] = bar[u]
    BY <1>9, BarMoves DEF BarReturns
  <2>2. Filling
    BY <2>1 DEF Draining, Turning
  <2>3. turnstile2 = 0 /\ \A u \in Parties \ {t} : bar[u] # "return"
    BY <2>1, <2>2 DEF Filling, Sole
  <2>4. /\ UNCHANGED <<turnstile1, entered, serial>> /\ turnstile2' = 1
        /\ left'[t] = left[t] + 1 /\ \A u \in Parties \ {t} : left'[u] = left[u]
    BY <1>9, <2>3 DEF BarReturns, SemPost, BarTypeOK
  <2>5. Filling'
    BY <1>0, <2>1, <2>2, <2>3, <2>4 DEF Filling, Sole, LeavingAt
  <2> QED
    BY <2>5
<1> QED
  BY <1>1, <1>2, <1>3, <1>4, <1>5, <1>6, <1>7, <1>8, <1>9 DEF BarStep

LEMMA BarStart == BarInit => BarInv
<1> SUFFICES ASSUME BarInit PROVE BarInv
  OBVIOUS
<1>1. BarTypeOK
  BY BarrierAssumption, FS_CardinalityType DEF BarInit, BarTypeOK
<1>2. Arrived = {} /\ Cardinality({}) = 0
  BY FS_EmptySet DEF BarInit, Arrived, ArrivedAt
<1>3. BarMutex
  BY BarrierAssumption DEF BarInit, BarMutex, MutexAt
<1>4. Filling
  BY DEF BarInit, Filling, Sole, Rounds
<1> QED
  BY <1>1, <1>2, <1>3, <1>4 DEF BarInit, BarInv, BarCount

THEOREM BarInvariance == BarSpec => []BarInv
<1>1. BarInv /\ [BarNext]_barVars => BarInv'
  <2> SUFFICES ASSUME BarInv, [BarNext]_barVars PROVE BarInv'
    OBVIOUS
  <2>1. ASSUME NEW t \in Parties, BarStep(t)
        PROVE  BarInv'
    BY <2>1, BarTypeStep, BarMutexStep, BarLastStep, BarPhaseStep DEF BarInv
  <2>2. CASE UNCHANGED barVars
    BY <2>2
    DEF barVars, BarInv, BarTypeOK, BarCount, BarMutex, Arrived, Filling, Draining,
        Turning, Sole, Rounds
  <2> QED
    BY <2>1, <2>2 DEF BarNext, BarFinished
<1> QED
  BY <1>1, BarStart, PTL DEF BarSpec

\* However many threads meet and however often, none is let out of a round that
\* another has not begun, and each round has one serial thread.
THEOREM BarrierIsOne == BarSpec => []BarrierHolds
<1>1. BarInv => BarrierHolds
  <2> SUFFICES ASSUME BarInv PROVE BarrierHolds
    OBVIOUS
  <2>1. serial \in Nat /\ \A t \in Parties : entered[t] \in Nat /\ left[t] \in Nat
    BY DEF BarInv, BarTypeOK
  <2>2. \A t \in Parties : left[t] \in {serial - 1, serial}
    BY DEF BarInv, Filling, Draining, Turning, Rounds
  <2>3. \A t \in Parties : entered[t] \in {serial, serial + 1}
    BY DEF BarInv, Filling, Draining, Turning, Rounds
  <2> QED
    BY <2>1, <2>2, <2>3 DEF BarrierHolds
<1> QED
  BY <1>1, BarInvariance, PTL

-----------------------------------------------------------------------------
(***************************************************************************)
(* The condition variable.                                                 *)
(***************************************************************************)

\* The threads that waiters_count counts.
CountsAt == {"counted", "waiting", "signalled", "broadcast", "timeout"}
Waiters == {t \in CvThreads : cv[t] \in CountsAt}

\* As long as a reset is due, every thread that is counted has been since the last
\* waiter left.
ResetIsDue ==
  \A u \in CvThreads : cv[u] = "reset" => Waiters \subseteq late

\* A thread that has woken is no longer owed its broadcast.
OwedWait == \A t \in owed : cv[t] \in {"counted", "waiting"}

(***************************************************************************)
(* The inductive invariant: the event is reset by nobody but a last        *)
(* waiter, and whoever could miss it then is among the late.               *)
(***************************************************************************)
CvInv == CvTypeOK /\ ResetIsDue /\ OwedWait /\ BroadcastReaches

CvPlaces == {"out", "locked", "asleep", "counted", "waiting", "signalled", "broadcast",
             "timeout", "reset", "relock", "returned"}

LEMMA CvCounts ==
  ASSUME NEW t \in CvThreads
  PROVE  /\ Cardinality(Waiters) \in Nat
         /\ t \notin Waiters => Cardinality(Waiters \cup {t}) = Cardinality(Waiters) + 1
         /\ t \in Waiters => /\ Cardinality(Waiters \ {t}) = Cardinality(Waiters) - 1
                             /\ Cardinality(Waiters) = 1 => Waiters = {t}
<1>1. IsFiniteSet(Waiters)
  BY CondAssumption, FS_Subset DEF Waiters
<1>2. t \notin Waiters => Cardinality(Waiters \cup {t}) = Cardinality(Waiters) + 1
  BY <1>1, FS_AddElement
<1>3. ASSUME t \in Waiters
      PROVE  /\ Cardinality(Waiters \ {t}) = Cardinality(Waiters) - 1
             /\ Cardinality(Waiters) = 1 => Waiters = {t}
  <2>1. /\ Cardinality(Waiters \ {t}) = Cardinality(Waiters) - 1
        /\ IsFiniteSet(Waiters \ {t})
    BY <1>1, <1>3, FS_RemoveElement
  <2>2. Cardinality(Waiters \ {t}) = 0 => Waiters \ {t} = {}
    BY <2>1, FS_EmptySet
  <2> QED
    BY <1>3, <2>1, <2>2
<1> QED
  BY <1>1, <1>2, <1>3, FS_CardinalityType

\* A step of one waiting thread moves no other.
LEMMA CvMoves ==
  ASSUME CvTypeOK, NEW t \in CvThreads, NEW from, NEW to \in CvPlaces, CvGo(t, from, to)
  PROVE  /\ cv' \in [CvThreads -> CvPlaces]
         /\ cv[t] = from /\ cv'[t] = to
         /\ \A u \in CvThreads \ {t} : cv'[u] = cv[u]
         /\ t \in Waiters <=> from \in CountsAt
         /\ Waiters' = IF to \in CountsAt THEN Waiters \cup {t} ELSE Waiters \ {t}
<1>1. cv \in [CvThreads -> CvPlaces]
  BY DEF CvTypeOK, CvPlaces
<1>2. cv' \in [CvThreads -> CvPlaces]
  BY <1>1 DEF CvGo
<1>3. cv[t] = from /\ cv'[t] = to /\ \A u \in CvThreads \ {t} : cv'[u] = cv[u]
  BY <1>1 DEF CvGo
<1>4. t \in Waiters <=> from \in CountsAt
  BY <1>3 DEF Waiters
<1>5. Waiters' = IF to \in CountsAt THEN Waiters \cup {t} ELSE Waiters \ {t}
  BY <1>3 DEF Waiters
<1> QED
  BY <1>2, <1>3, <1>4, <1>5

\* A step that moves one thread and leaves the counted ones, the event and the
\* debts alone.
LEMMA CvElsewhere ==
  ASSUME CvInv, NEW t \in CvThreads, NEW from, NEW to \in CvPlaces, CvGo(t, from, to),
         from \in CountsAt <=> to \in CountsAt,
         to \notin {"counted", "waiting"} => t \notin owed',
         to \in {"counted", "waiting"} => from \in {"counted", "waiting"},
         to # "reset", owed' \subseteq owed, late' = late, broadcastEvent' = broadcastEvent
  PROVE  /\ cv' \in [CvThreads -> CvPlaces]
         /\ Waiters' = Waiters /\ ResetIsDue' /\ OwedWait' /\ BroadcastReaches'
<1>1. /\ cv' \in [CvThreads -> CvPlaces] /\ Waiters' = Waiters
      /\ cv[t] = from /\ cv'[t] = to
      /\ \A u \in CvThreads \ {t} : cv'[u] = cv[u]
  BY CvMoves DEF CvInv
<1>2. owed \subseteq CvThreads
  BY DEF CvInv, CvTypeOK
<1>3. ResetIsDue'
  BY <1>1 DEF CvInv, ResetIsDue
<1>4. OwedWait'
  BY <1>1, <1>2 DEF CvInv, OwedWait
<1>5. BroadcastReaches'
  BY <1>1, <1>2 DEF CvInv, BroadcastReaches
<1> QED
  BY <1>1, <1>3, <1>4, <1>5

LEMMA CvThreadStep ==
  ASSUME CvInv, NEW t \in CvThreads,
         \/ CallerLocks(t) \/ CallerUnlocks(t) \/ ApiWait(t) \/ ApiTimesOut(t)
         \/ CountsItself(t) \/ ReleasesMutex(t) \/ Wakes(t) \/ UncountsItself(t)
         \/ ResetsEvent(t)
  PROVE  CvInv'
<1>0. /\ waitersCount = Cardinality(Waiters)
      /\ cv \in [CvThreads -> CvPlaces] /\ owed \subseteq CvThreads
  BY DEF CvInv, CvTypeOK, CvPlaces, Waiters, CountsAt
<1>1. CASE CallerLocks(t) \/ CallerUnlocks(t) \/ ApiWait(t) \/ ReleasesMutex(t)
  <2>1. PICK from \in CvPlaces, to \in CvPlaces :
          /\ CvGo(t, from, to)
          /\ \/ from = "counted" /\ to = "waiting"
             \/ from \notin CountsAt /\ to \notin CountsAt /\ to # "reset"
    <3>1. \/ CvGo(t, "out", "locked") \/ CvGo(t, "relock", "returned")
          \/ CvGo(t, "returned", "out") \/ CvGo(t, "locked", "asleep")
          \/ CvGo(t, "counted", "waiting")
      BY <1>1 DEF CallerLocks, CallerUnlocks, ApiWait, ReleasesMutex
    <3> QED
      BY <3>1 DEF CvPlaces, CountsAt
  <2>2. /\ UNCHANGED <<haveApi, waitersCount, signalEvent, broadcastEvent, waker, wakes,
                       late, owed>>
        /\ cvMutex' \in {t, Nobody}
    BY <1>1
    DEF CallerLocks, CallerUnlocks, ApiWait, ReleasesMutex, cvHistory, MutexLock, MutexUnlock
  <2>3. to \notin {"counted", "waiting"} => t \notin owed
    BY <2>1 DEF CvInv, OwedWait, CvGo, CountsAt
  <2>4. /\ cv' \in [CvThreads -> CvPlaces]
        /\ Waiters' = Waiters /\ ResetIsDue' /\ OwedWait' /\ BroadcastReaches'
    BY <2>1, <2>2, <2>3, CvElsewhere DEF CountsAt
  <2> QED
    BY <2>2, <2>4 DEF CvInv, CvTypeOK, CvPlaces, Waiters, CountsAt
<1>2. CASE ApiTimesOut(t)
  <2>1. /\ CvGo(t, "asleep", "relock") /\ owed' = owed \ {t}
        /\ UNCHANGED <<haveApi, cvMutex, waitersCount, signalEvent, broadcastEvent, waker,
                       wakes, late>>
    BY <1>2 DEF ApiTimesOut
  <2>2. /\ cv' \in [CvThreads -> CvPlaces]
        /\ Waiters' = Waiters /\ ResetIsDue' /\ OwedWait' /\ BroadcastReaches'
    BY <2>1, CvElsewhere DEF CountsAt, CvPlaces
  <2> QED
    BY <2>1, <2>2 DEF CvInv, CvTypeOK, CvPlaces, Waiters, CountsAt
<1>3. CASE Wakes(t)
  <2>1. PICK to \in {"signalled", "broadcast", "timeout"} : CvGo(t, "waiting", to)
    BY <1>3 DEF Wakes
  <2>2. /\ owed' = owed \ {t}
        /\ UNCHANGED <<haveApi, cvMutex, waitersCount, broadcastEvent, waker, wakes, late>>
    BY <1>3 DEF Wakes
  <2>3. /\ cv' \in [CvThreads -> CvPlaces]
        /\ Waiters' = Waiters /\ ResetIsDue' /\ OwedWait' /\ BroadcastReaches'
    BY <2>1, <2>2, CvElsewhere DEF CountsAt, CvPlaces
  <2>4. signalEvent' = FALSE \/ signalEvent' = signalEvent
    BY <1>3 DEF Wakes
  <2>5. signalEvent' \in BOOLEAN
    BY <2>4 DEF CvInv, CvTypeOK
  <2> QED
    BY <2>2, <2>3, <2>5 DEF CvInv, CvTypeOK, CvPlaces, Waiters, CountsAt
<1>4. CASE CountsItself(t)
  <2>1. /\ CvGo(t, "locked", "counted") /\ waitersCount' = waitersCount + 1
        /\ late' = IF At("reset") = {} THEN late \ {t} ELSE late \cup {t}
        /\ UNCHANGED <<haveApi, cvMutex, signalEvent, broadcastEvent, waker, wakes, owed>>
    BY <1>4 DEF CountsItself
  <2>2. /\ cv' \in [CvThreads -> CvPlaces]
        /\ cv[t] = "locked" /\ cv'[t] = "counted"
        /\ \A u \in CvThreads \ {t} : cv'[u] = cv[u]
        /\ t \notin Waiters /\ Waiters' = Waiters \cup {t}
    BY <2>1, CvMoves DEF CvInv, CvPlaces, CountsAt
  <2>3. waitersCount' = Cardinality(Waiters')
    BY <1>0, <2>1, <2>2, CvCounts
  <2>4. t \notin owed
    BY <2>2 DEF CvInv, OwedWait
  <2>5. ResetIsDue'
    BY <2>1, <2>2 DEF CvInv, ResetIsDue, At
  <2>6. OwedWait'
    BY <1>0, <2>1, <2>2, <2>4 DEF CvInv, OwedWait
  <2>7. BroadcastReaches'
    BY <1>0, <2>1, <2>2, <2>4 DEF CvInv, BroadcastReaches
  <2>8. late' \subseteq CvThreads
    BY <2>1 DEF CvInv, CvTypeOK
  <2> QED
    BY <2>1, <2>2, <2>3, <2>5, <2>6, <2>7, <2>8
    DEF CvInv, CvTypeOK, CvPlaces, Waiters, CountsAt
<1>5. CASE UncountsItself(t)
  <2>1. PICK from \in {"broadcast", "signalled", "timeout"}, to \in {"reset", "relock"} :
          CvGo(t, from, to) /\ (to = "reset" => waitersCount = 1)
    BY <1>5 DEF UncountsItself
  <2>2. /\ waitersCount' = waitersCount - 1
        /\ UNCHANGED <<haveApi, cvMutex, signalEvent, broadcastEvent, waker, wakes, late, owed>>
    BY <1>5 DEF UncountsItself, cvHistory
  <2>3. /\ cv' \in [CvThreads -> CvPlaces]
        /\ cv[t] = from /\ cv'[t] = to
        /\ \A u \in CvThreads \ {t} : cv'[u] = cv[u]
        /\ t \in Waiters /\ Waiters' = Waiters \ {t}
    BY <2>1, CvMoves DEF CvInv, CvPlaces, CountsAt
  <2>4. waitersCount' = Cardinality(Waiters')
    BY <1>0, <2>2, <2>3, CvCounts
  <2>5. to = "reset" => Waiters' = {}
    BY <1>0, <2>1, <2>3, CvCounts
  <2>6. ResetIsDue'
    BY <2>2, <2>3, <2>5 DEF CvInv, ResetIsDue
  <2>7. t \notin owed
    BY <2>1, <2>3 DEF CvInv, OwedWait
  <2>8. OwedWait'
    BY <1>0, <2>2, <2>3, <2>7 DEF CvInv, OwedWait
  <2>9. BroadcastReaches'
    BY <1>0, <2>2, <2>3, <2>7 DEF CvInv, BroadcastReaches
  <2> QED
    BY <2>2, <2>3, <2>4, <2>6, <2>8, <2>9 DEF CvInv, CvTypeOK, CvPlaces, Waiters, CountsAt
<1>6. CASE ResetsEvent(t)
  <2>1. /\ CvGo(t, "reset", "relock") /\ broadcastEvent' = FALSE
        /\ UNCHANGED <<haveApi, cvMutex, waitersCount, signalEvent, waker, wakes, late, owed>>
    BY <1>6 DEF ResetsEvent, cvHistory
  <2>2. /\ cv' \in [CvThreads -> CvPlaces]
        /\ cv[t] = "reset" /\ cv'[t] = "relock"
        /\ \A u \in CvThreads \ {t} : cv'[u] = cv[u]
        /\ Waiters' = Waiters
    BY <2>1, CvMoves DEF CvInv, CvPlaces, CountsAt
  <2>3. Waiters \subseteq late
    BY <2>2 DEF CvInv, ResetIsDue
  <2>4. ResetIsDue'
    BY <2>1, <2>2, <2>3 DEF ResetIsDue
  <2>5. OwedWait'
    BY <1>0, <2>1, <2>2 DEF CvInv, OwedWait
  <2>6. owed \subseteq Waiters
    BY <1>0 DEF CvInv, OwedWait, Waiters, CountsAt
  <2>7. BroadcastReaches'
    BY <2>1, <2>3, <2>6 DEF BroadcastReaches
  <2> QED
    BY <2>1, <2>2, <2>4, <2>5, <2>7 DEF CvInv, CvTypeOK, CvPlaces, Waiters, CountsAt
<1> QED
  BY <1>1, <1>2, <1>3, <1>4, <1>5, <1>6

LEMMA CvWakerStep ==
  ASSUME CvInv, CondSignal \/ CondBroadcast
  PROVE  CvInv'
<1>0. owed \subseteq CvThreads /\ cv \in [CvThreads -> CvPlaces]
  BY DEF CvInv, CvTypeOK, CvPlaces
<1>1. /\ UNCHANGED <<haveApi, cvMutex, waitersCount, signalEvent, broadcastEvent, late, owed>>
      /\ wakes' = wakes + 1 /\ wakes < MaxWakes
  BY DEF CondSignal, CondBroadcast, WakeConditionVariable, WakeAllConditionVariable,
         LooksForWaiters
<1>2. wakes' \in 0 .. MaxWakes
  BY <1>1, CondAssumption DEF CvInv, CvTypeOK
<1>3. waker' \in {"idle", "signal", "broadcast"}
  BY DEF CondSignal, CondBroadcast, WakeConditionVariable, WakeAllConditionVariable,
         LooksForWaiters, CvInv, CvTypeOK
<1>4. /\ cv' \in [CvThreads -> CvPlaces]
      /\ \A t \in CvThreads : cv'[t] = cv[t] \/ (cv[t] = "asleep" /\ cv'[t] = "relock")
  <2>1. CASE UNCHANGED cv
    BY <1>0, <2>1
  <2>2. CASE WakeConditionVariable
    BY <1>0, <2>2 DEF WakeConditionVariable, CvGo, CvPlaces
  <2>3. CASE WakeAllConditionVariable
    BY <1>0, <2>3 DEF WakeAllConditionVariable, CvPlaces
  <2> QED
    BY <2>1, <2>2, <2>3 DEF CondSignal, CondBroadcast, LooksForWaiters
<1>5. Waiters' = Waiters
  BY <1>4 DEF Waiters, CountsAt
<1>6. ResetIsDue'
  BY <1>1, <1>4, <1>5 DEF CvInv, ResetIsDue
<1>7. OwedWait'
  BY <1>0, <1>1, <1>4 DEF CvInv, OwedWait
<1>8. BroadcastReaches'
  BY <1>0, <1>1, <1>4 DEF CvInv, BroadcastReaches
<1> QED
  BY <1>1, <1>2, <1>3, <1>4, <1>5, <1>6, <1>7, <1>8
  DEF CvInv, CvTypeOK, CvPlaces, Waiters, CountsAt

LEMMA CvSetStep ==
  ASSUME CvInv, SetsEvent
  PROVE  CvInv'
<1>1. UNCHANGED <<haveApi, cv, cvMutex, waitersCount, wakes, late>> /\ waker' = "idle"
  BY DEF SetsEvent
<1>2. /\ broadcastEvent' = TRUE \/ broadcastEvent' = broadcastEvent
      /\ signalEvent' = TRUE \/ signalEvent' = signalEvent
      /\ \/ owed' = owed /\ broadcastEvent' = broadcastEvent
         \/ owed' = owed \cup At("counted") \cup At("waiting") /\ broadcastEvent' = TRUE
  BY DEF SetsEvent
<1>3. broadcastEvent' \in BOOLEAN /\ signalEvent' \in BOOLEAN
  BY <1>2 DEF CvInv, CvTypeOK
<1>4. owed' \subseteq CvThreads /\ OwedWait'
  BY <1>1, <1>2 DEF CvInv, CvTypeOK, OwedWait, At
<1>5. BroadcastReaches'
  BY <1>1, <1>2 DEF CvInv, BroadcastReaches
<1>6. ResetIsDue'
  BY <1>1 DEF CvInv, ResetIsDue, Waiters
<1> QED
  BY <1>1, <1>3, <1>4, <1>5, <1>6 DEF CvInv, CvTypeOK

LEMMA CvStart == CvInit => CvInv
<1> SUFFICES ASSUME CvInit PROVE CvInv
  OBVIOUS
<1>1. Waiters = {} /\ Cardinality({}) = 0
  BY FS_EmptySet DEF CvInit, Waiters, CountsAt
<1>2. waitersCount = Cardinality(Waiters)
  BY <1>1 DEF CvInit
<1>3. haveApi \in BOOLEAN
  BY DEF CvInit
<1>4. CvTypeOK
  <2>1. cv \in [CvThreads -> CvPlaces]
    BY DEF CvInit, CvPlaces
  <2>2. signalEvent \in BOOLEAN /\ broadcastEvent \in BOOLEAN
    BY DEF CvInit
  <2>3. /\ cvMutex \in CvThreads \cup {Nobody}
        /\ waker \in {"idle", "signal", "broadcast"}
        /\ late \subseteq CvThreads /\ owed \subseteq CvThreads
    BY DEF CvInit
  <2>4. wakes \in 0 .. MaxWakes
    BY CondAssumption DEF CvInit
  <2> QED
    BY <1>2, <1>3, <2>1, <2>2, <2>3, <2>4 DEF CvTypeOK, CvPlaces, Waiters, CountsAt
<1> QED
  BY <1>4 DEF CvInit, CvInv, ResetIsDue, OwedWait, BroadcastReaches

THEOREM CvInvariance == CvSpec => []CvInv
<1>1. CvInv /\ [CvNext]_cvVars => CvInv'
  <2> SUFFICES ASSUME CvInv, [CvNext]_cvVars PROVE CvInv'
    OBVIOUS
  <2>1. CASE UNCHANGED cvVars
    BY <2>1
    DEF cvVars, CvInv, CvTypeOK, ResetIsDue, Waiters, OwedWait, BroadcastReaches
  <2> QED
    BY <2>1, CvThreadStep, CvWakerStep, CvSetStep DEF CvNext
<1> QED
  BY <1>1, CvStart, PTL DEF CvSpec

\* A broadcast of the fallback wakes whoever it found waiting, but for those that
\* came between a last waiter's decision to reset the event and the reset.
THEOREM BroadcastIsKept == CvSpec => []BroadcastReaches
<1>1. CvInv => BroadcastReaches
  BY DEF CvInv
<1> QED
  BY <1>1, CvInvariance, PTL

-----------------------------------------------------------------------------
(***************************************************************************)
(* uv_once and the threads' handles.                                       *)
(***************************************************************************)

\* What becomes of the winner of the exchange.
WinnerStates == {"callback", "set", "ran", "done"}

(***************************************************************************)
(* The exchange has one winner.  It alone goes through the callback, and   *)
(* only what it sets after that, the event and ran, lets others out; the   *)
(* open events are its own and those of the threads that have not tried    *)
(* the exchange yet.                                                       *)
(***************************************************************************)
OneWinner ==
  /\ event = "null" =>
       runs = 0 /\ ~signalled /\ ~ran /\ \A t \in All : once[t] \in {"out", "exchange"}
  /\ event # "null" =>
       /\ once[event] \in WinnerStates
       /\ runs = IF once[event] = "callback" THEN 0 ELSE 1
       /\ signalled => once[event] \in {"ran", "done"}
       /\ ran => once[event] = "done"
  /\ \A t \in All : once[t] \in {"callback", "set", "ran"} => event = t
  /\ \A t \in All : once[t] = "done" => event # "null" /\ once[event] \in {"ran", "done"}
  /\ opened = {u \in All : once[u] = "exchange" \/ u = event}

\* A thread that runs has been given its handle, and one that has come to its
\* entry has kept it under the key that the callback made.
Handles ==
  \A t \in Workers :
    /\ life[t] # "lost"
    /\ life[t] = "starts" => ctx[t] = "complete"
    /\ life[t] \in {"starts", "once", "entry", "ended"} => tid[t] = t
    /\ life[t] \in {"entry", "ended"} => key[t] = t /\ once[t] = "done"

UtInv == UtTypeOK /\ OneWinner /\ Handles

LEMMA UtInitially == UtInit => UtInv
<1> SUFFICES ASSUME UtInit PROVE UtInv
  OBVIOUS
<1>1. UtTypeOK
  BY DEF UtInit, UtTypeOK
<1>2. {u \in All : once[u] = "exchange" \/ u = event} = {}
  BY ThreadAssumption DEF UtInit, All
<1>3. OneWinner
  BY <1>2 DEF UtInit, OneWinner
<1>4. Handles
  BY DEF UtInit, Handles
<1> QED
  BY <1>1, <1>3, <1>4 DEF UtInv

\* The steps that do not concern uv_once.
LEMMA LifeStep ==
  ASSUME UtInv, NEW t \in Workers,
         CreateSuspended(t) \/ ResumeThread(t) \/ StartCopies(t) \/ StartSetsKey(t)
           \/ EntryReturns(t) \/ ThreadJoin(t)
  PROVE  UtInv'
<1> USE DEF UtInv
<1>1. UNCHANGED onceVars
  BY DEF CreateSuspended, ResumeThread, StartCopies, StartSetsKey, EntryReturns, ThreadJoin
<1>2. OneWinner'
  BY <1>1 DEF OneWinner, onceVars
<1>3. \A u \in Workers \ {t} :
        life'[u] = life[u] /\ ctx'[u] = ctx[u] /\ tid'[u] = tid[u] /\ key'[u] = key[u]
  BY DEF CreateSuspended, ResumeThread, StartCopies, StartSetsKey, EntryReturns, ThreadJoin,
         UtTypeOK, All
<1>4. UtTypeOK'
  <2>1. CASE CreateSuspended(t) \/ ResumeThread(t)
    BY <1>1, <2>1 DEF CreateSuspended, ResumeThread, UtTypeOK, onceVars
  <2>2. CASE StartCopies(t) \/ StartSetsKey(t)
    BY <1>1, <2>2 DEF StartCopies, StartSetsKey, UtTypeOK, onceVars, All
  <2>3. CASE EntryReturns(t) \/ ThreadJoin(t)
    BY <1>1, <2>3 DEF EntryReturns, ThreadJoin, UtTypeOK, onceVars
  <2> QED
    BY <2>1, <2>2, <2>3
<1>5. /\ life'[t] # "lost"
      /\ life'[t] = "starts" => ctx'[t] = "complete"
      /\ life'[t] \in {"starts", "once", "entry", "ended"} => tid'[t] = t
      /\ life'[t] \in {"entry", "ended"} => key'[t] = t /\ once[t] = "done"
  BY DEF CreateSuspended, ResumeThread, StartCopies, StartSetsKey, EntryReturns, ThreadJoin,
         UtTypeOK, Handles, All
<1>6. Handles'
  BY <1>1, <1>3, <1>5 DEF Handles, onceVars
<1> QED
  BY <1>2, <1>4, <1>6

LEMMA OnceStep ==
  ASSUME UtInv, NEW t \in All, Once(t)
  PROVE  UtInv'
<1> USE ThreadAssumption DEF UtInv
<1>0. "null" \notin All /\ t # "null"
  BY DEF All
<1>1. UNCHANGED <<life, ctx, tid>>
  BY DEF Once, OnceTests, OnceWins, OnceLoses, OnceCalls, OnceSetsEvent, OnceSetsRan, OnceWaits
<1>2. UtTypeOK'
  <2>1. CASE OnceTests(t) \/ OnceWins(t) \/ OnceLoses(t)
    BY <1>1, <2>1 DEF OnceTests, OnceWins, OnceLoses, OnceGo, UtTypeOK
  <2>2. CASE OnceCalls(t)
    BY <1>1, <2>2 DEF OnceCalls, OnceGo, UtTypeOK
  <2>3. CASE OnceSetsEvent(t) \/ OnceSetsRan(t) \/ OnceWaits(t)
    <3>1. UNCHANGED <<event, runs, key, opened>>
      BY <2>3 DEF OnceSetsEvent, OnceSetsRan, OnceWaits
    <3>2. /\ signalled' = TRUE \/ signalled' = signalled
          /\ ran' = TRUE \/ ran' = ran
      BY <2>3 DEF OnceSetsEvent, OnceSetsRan, OnceWaits
    <3>3. signalled' \in BOOLEAN /\ ran' \in BOOLEAN
      BY <3>2 DEF UtTypeOK
    <3>4. once' \in [All -> {"out", "exchange", "callback", "set", "ran", "wait", "done"}]
      BY <2>3 DEF OnceSetsEvent, OnceSetsRan, OnceWaits, OnceGo, UtTypeOK
    <3> QED
      BY <1>1, <3>1, <3>3, <3>4 DEF UtTypeOK
  <2> QED
    BY <2>1, <2>2, <2>3 DEF Once
<1>3. \A u \in All \ {t} : once'[u] = once[u]
  BY DEF Once, OnceTests, OnceWins, OnceLoses, OnceCalls, OnceSetsEvent, OnceSetsRan,
         OnceWaits, OnceGo, UtTypeOK
<1>4. once[t] # "done"
  BY DEF Once, OnceTests, OnceWins, OnceLoses, OnceCalls, OnceSetsEvent, OnceSetsRan,
         OnceWaits, OnceGo
<1>5. OneWinner'
  <2>1. CASE OnceTests(t)
    <3>1. UNCHANGED <<event, signalled, ran, runs>>
      BY <2>1 DEF OnceTests
    <3>2. \/ ran /\ once[t] = "out" /\ once'[t] = "done" /\ opened' = opened
          \/ /\ ~ran /\ once[t] = "out" /\ once'[t] = "exchange"
             /\ opened' = opened \cup {t}
      BY <2>1 DEF OnceTests, OnceGo, UtTypeOK
    <3>3. t # event
      BY <1>0, <3>2 DEF OneWinner, WinnerStates
    <3>4. opened' = {u \in All : once'[u] = "exchange" \/ u = event}
      BY <1>3, <3>2, <3>3 DEF OneWinner
    <3> QED
      BY <1>3, <3>1, <3>2, <3>3, <3>4 DEF OneWinner, UtTypeOK
  <2>2. CASE OnceWins(t)
    <3>1. UNCHANGED <<signalled, ran, runs, opened>> /\ event = "null" /\ event' = t
      BY <2>2 DEF OnceWins
    <3>2. once[t] = "exchange" /\ once'[t] = "callback"
      BY <2>2 DEF OnceWins, OnceGo, UtTypeOK
    <3>3. opened = {u \in All : once'[u] = "exchange" \/ u = t}
      BY <1>0, <1>3, <3>1, <3>2 DEF OneWinner
    <3>4. runs = 0 /\ ~signalled /\ ~ran /\ \A u \in All : once[u] \in {"out", "exchange"}
      BY <3>1 DEF OneWinner
    <3>5. \A u \in All \ {t} : once'[u] \in {"out", "exchange"}
      BY <1>3, <3>4
    <3> QED
      BY <1>0, <3>1, <3>2, <3>3, <3>4, <3>5 DEF OneWinner, WinnerStates
  <2>3. CASE OnceLoses(t)
    <3>1. /\ UNCHANGED <<event, signalled, ran, runs>> /\ event # "null"
          /\ opened' = opened \ {t}
      BY <2>3 DEF OnceLoses
    <3>2. once[t] = "exchange" /\ once'[t] = "wait"
      BY <2>3 DEF OnceLoses, OnceGo, UtTypeOK
    <3>3. t # event
      BY <3>1, <3>2 DEF OneWinner, WinnerStates
    <3>4. opened' = {u \in All : once'[u] = "exchange" \/ u = event}
      BY <1>3, <3>1, <3>2, <3>3 DEF OneWinner
    <3> QED
      BY <1>3, <3>1, <3>2, <3>3, <3>4 DEF OneWinner, UtTypeOK
  <2>4. CASE OnceCalls(t) \/ OnceSetsEvent(t) \/ OnceSetsRan(t)
    <3>1. once[t] \in {"callback", "set", "ran"} /\ UNCHANGED <<event, opened>>
      BY <2>4 DEF OnceCalls, OnceSetsEvent, OnceSetsRan, OnceGo
    <3>2. event = t
      BY <3>1 DEF OneWinner
    <3>3. \/ /\ once[t] = "callback" /\ once'[t] = "set" /\ runs' = runs + 1
             /\ UNCHANGED <<signalled, ran>>
          \/ /\ once[t] = "set" /\ once'[t] = "ran" /\ signalled' = TRUE
             /\ UNCHANGED <<runs, ran>>
          \/ /\ once[t] = "ran" /\ once'[t] = "done" /\ ran' = TRUE
             /\ UNCHANGED <<runs, signalled>>
      BY <2>4 DEF OnceCalls, OnceSetsEvent, OnceSetsRan, OnceGo, UtTypeOK
    <3>4. opened' = {u \in All : once'[u] = "exchange" \/ u = event}
      BY <1>3, <3>1, <3>2, <3>3 DEF OneWinner
    <3>5. /\ runs' = 1
          /\ signalled' => once'[t] \in {"ran", "done"}
          /\ ran' => once'[t] = "done"
      BY <1>0, <3>2, <3>3 DEF OneWinner
    <3>6. \A u \in All \ {t} : once[u] \notin {"callback", "set", "ran"}
      BY <3>2 DEF OneWinner
    <3>7. ASSUME NEW u \in All, once'[u] = "done"
          PROVE  once'[t] \in {"ran", "done"}
      BY <1>3, <3>2, <3>3, <3>7 DEF OneWinner
    <3> QED
      BY <1>0, <1>3, <3>1, <3>2, <3>3, <3>4, <3>5, <3>6, <3>7 DEF OneWinner, WinnerStates
  <2>5. CASE OnceWaits(t)
    <3>1. UNCHANGED <<event, signalled, ran, runs, opened>> /\ signalled
      BY <2>5 DEF OnceWaits
    <3>2. once[t] = "wait" /\ once'[t] = "done"
      BY <2>5 DEF OnceWaits, OnceGo, UtTypeOK
    <3>3. t # event /\ event # "null"
      BY <3>1, <3>2 DEF OneWinner, WinnerStates
    <3>4. opened = {u \in All : once'[u] = "exchange" \/ u = event}
      BY <1>3, <3>1, <3>2, <3>3 DEF OneWinner
    <3> QED
      BY <1>3, <3>1, <3>2, <3>3, <3>4 DEF OneWinner, UtTypeOK
  <2> QED
    BY <2>1, <2>2, <2>3, <2>4, <2>5 DEF Once
<1>6. ASSUME NEW u \in Workers, life[u] \in {"entry", "ended"}
      PROVE  key'[u] = u /\ once'[u] = "done"
  <2>1. key[u] = u /\ once[u] = "done" /\ u \in All
    BY <1>6 DEF Handles, All
  <2>2. once[t] # "callback"
    BY <2>1 DEF OneWinner
  <2>3. key' = key
    BY <2>2 DEF Once, OnceTests, OnceWins, OnceLoses, OnceCalls, OnceSetsEvent, OnceSetsRan,
                OnceWaits, OnceGo
  <2> QED
    BY <1>3, <1>4, <2>1, <2>3
<1>7. Handles'
  BY <1>1, <1>6 DEF Handles
<1> QED
  BY <1>2, <1>5, <1>7

THEOREM UtInvariance == UtSpec => []UtInv
<1>1. UtInv /\ [UtNext]_utVars => UtInv'
  <2> SUFFICES ASSUME UtInv, [UtNext]_utVars PROVE UtInv'
    OBVIOUS
  <2>1. CASE UNCHANGED utVars
    BY <2>1 DEF utVars, UtInv, UtTypeOK, OneWinner, Handles, All
  <2> QED
    BY <2>1, LifeStep, OnceStep DEF UtNext, UtFinished
<1> QED
  BY <1>1, UtInitially, PTL DEF UtSpec

\* uv_once calls its callback once, whichever thread wins the exchange, and lets
\* nobody out before; and a thread finds its own handle, the one its creator joins.
THEOREM OnceAndSelf == UtSpec => []UtSound
<1>1. UtInv => UtSound
  <2> SUFFICES ASSUME UtInv PROVE UtSound
    OBVIOUS
  <2>1. runs <= 1
    BY DEF UtInv, OneWinner, UtTypeOK
  <2>2. ASSUME NEW t \in All, once[t] = "done"
        PROVE  runs = 1 /\ opened \ {event} = {u \in All : once[u] = "exchange"}
    <3>1. event # "null" /\ once[event] \in {"ran", "done"}
      BY <2>2 DEF UtInv, OneWinner
    <3>2. once[event] # "exchange"
      BY <3>1
    <3> QED
      BY <3>1, <3>2 DEF UtInv, OneWinner
  <2>3. SelfIsTid
    BY DEF UtInv, Handles, SelfIsTid
  <2> QED
    BY <2>1, <2>2, <2>3 DEF UtSound, OnceOnly
<1> QED
  BY <1>1, UtInvariance, PTL

=============================================================================
