----------------------------- MODULE SharedLock ------------------------------
(***************************************************************************)
(* What a read-write lock promises: any number of readers or one writer.   *)
(***************************************************************************)
CONSTANT Threads

VARIABLES readers, writers

Init == readers = {} /\ writers = {}

AcquireShared(t) ==
  /\ writers = {} /\ t \notin readers
  /\ readers' = readers \cup {t} /\ UNCHANGED writers

AcquireExclusive(t) ==
  /\ writers = {} /\ readers = {}
  /\ writers' = {t} /\ UNCHANGED readers

Release(t) ==
  /\ t \in readers \cup writers
  /\ readers' = readers \ {t} /\ writers' = writers \ {t}

Next ==
  \E t \in Threads : AcquireShared(t) \/ AcquireExclusive(t) \/ Release(t)

Spec == Init /\ [][Next]_<<readers, writers>>

=============================================================================
