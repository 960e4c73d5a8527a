----------------------------- MODULE UvSemaphore -----------------------------
(***************************************************************************)
(* Semaphores and mutexes of src/getmedia/FFModule/core/thread_win.cpp, as *)
(* operators on a count and on a holder.  A call that would block is a     *)
(* step that is not enabled.                                               *)
(***************************************************************************)
EXTENDS Integers

\* uv_sem_wait: the count before and after.
SemWait(count, after) == count > 0 /\ after = count - 1

\* uv_sem_post.
SemPost(count, after) == after = count + 1

\* A critical section without a holder.
Nobody == "nobody"

MutexLock(holder, t, after) == holder = Nobody /\ after = t

MutexUnlock(holder, t, after) == holder = t /\ after = Nobody

=============================================================================
