---------------------- MODULE FFMPEGGetMediaDataProcess ----------------------
(***************************************************************************)
(* src/getmedia/FFMPEGGetMediaDataProcess.h, as testStream in getMedia.cpp *)
(* uses it: the main thread starts ThreadPlay, runs one GetMedia request   *)
(* to its end, in which DataReceivedEventHandler gets each chunk, stops    *)
(* and destroys the object.  The handler and Fill, which the demuxer calls *)
(* on the other thread, meet in the ring.                                  *)
(*                                                                         *)
(* What is done under the spin lock is one step; the demuxer is external:  *)
(* Open and ReadFrame call Fill any number of times and return anything.   *)
(***************************************************************************)
EXTENDS RingBuffer, Sequences

CONSTANTS
  MaxChunk,     \* the longest chunk, which is smaller than the ring
  MaxRead,      \* the longest read of the demuxer
  MaxBytes      \* bound: bytes received

ASSUME BatchAssumption ==
  MaxChunk \in 1 .. Size /\ MaxRead \in Nat \ {0} /\ MaxBytes \in Nat

VARIABLES
  main, thread,         \* where the two threads stand
  phase,                \* what ThreadPlay is in: Open or ReadFrame
  stop, openSuccess, sem,
  ring, cells,          \* buffer: its indices and its bytes
  rest,                 \* what is left of the chunk
  sent, got             \* bytes received, bytes given to the demuxer

batchVars == <<main, thread, phase, stop, openSuccess, sem, ring, cells, rest, sent, got>>

BatchInit ==
  /\ main = "created" /\ thread = "none" /\ phase = "open"
  /\ stop = FALSE /\ openSuccess = TRUE /\ sem = 0
  /\ ring = Clear /\ cells = [i \in Index |-> 0]
  /\ rest = 0 /\ sent = 0 /\ got = <<>>

MainGoes(from, to) == main = from /\ main' = to

-----------------------------------------------------------------------------
Start ==
  /\ MainGoes("created", "request")
  /\ openSuccess' = TRUE /\ thread' = "demux"
  /\ UNCHANGED <<phase, stop, sem, ring, cells, rest, sent, got>>

\* The client asks ContinueHandler whether it may hand over another chunk,
\* which DataReceivedEventHandler takes unless stop is set.
ReceivesChunk(n) ==
  /\ MainGoes("request", "copy")
  /\ openSuccess /\ ~stop
  /\ sent + n <= MaxBytes /\ rest' = n
  /\ UNCHANGED <<thread, phase, stop, openSuccess, sem, ring, cells, sent, got>>

\* One turn of the loop; it turns on when the ring is full.
CopiesChunk ==
  /\ main = "copy" /\ rest > 0 /\ WritePtr(ring) > 0
  /\ LET copy == IF WritePtr(ring) < rest THEN WritePtr(ring) ELSE rest
     IN  /\ cells' = [i \in Index |-> IF i \in ring.w .. ring.w + copy - 1
                                      THEN sent + 1 + i - ring.w ELSE cells[i]]
         /\ ring' = Write(ring, copy)
         /\ rest' = rest - copy /\ sent' = sent + copy
  /\ UNCHANGED <<main, thread, phase, stop, openSuccess, sem, got>>

\* Faulty: only a chunk that filled the ring is posted.
PostsChunkWhenFull ==
  /\ MainGoes("copy", "request") /\ rest = 0
  /\ sem' = IF WritePtr(ring) = 0 THEN sem + 1 ELSE sem
  /\ UNCHANGED <<thread, phase, stop, openSuccess, ring, cells, rest, sent, got>>

PostsChunk ==
  /\ MainGoes("copy", "request") /\ rest = 0
  /\ sem' = sem + 1
  /\ UNCHANGED <<thread, phase, stop, openSuccess, ring, cells, rest, sent, got>>

\* The request ends by itself or because ContinueHandler says so, and Stop is
\* called.
SetsStop ==
  /\ MainGoes("request", "post")
  /\ stop' = TRUE
  /\ UNCHANGED <<thread, phase, openSuccess, sem, ring, cells, rest, sent, got>>

PostsStop ==
  /\ MainGoes("post", "join")
  /\ sem' = sem + 1
  /\ UNCHANGED <<thread, phase, stop, openSuccess, ring, cells, rest, sent, got>>

JoinsThread ==
  /\ MainGoes("join", "destroy") /\ thread = "exited"
  /\ UNCHANGED <<thread, phase, stop, openSuccess, sem, ring, cells, rest, sent, got>>

\* The destructor: Stop again, whose join of a joined thread fails at once,
\* delete source and Free.
Destroys ==
  /\ MainGoes("destroy", "gone")
  /\ sem' = sem + 1
  /\ UNCHANGED <<thread, phase, stop, openSuccess, ring, cells, rest, sent, got>>

-----------------------------------------------------------------------------
ThreadGoes(from, to) == thread = from /\ thread' = to

\* Fill returns at once when stop is set; its loop tests it again and again.
FillBegins ==
  /\ thread = "demux"
  /\ thread' = IF stop THEN "demux" ELSE "loop"
  /\ UNCHANGED <<main, phase, stop, openSuccess, sem, ring, cells, rest, sent, got>>

FillTests ==
  /\ thread = "loop"
  /\ thread' = IF stop THEN "demux" ELSE "fill"
  /\ UNCHANGED <<main, phase, stop, openSuccess, sem, ring, cells, rest, sent, got>>

FillCopies(n) ==
  /\ ThreadGoes("fill", "demux") /\ ReadPtr(ring) > 0
  /\ LET copy == IF n < ReadPtr(ring) THEN n ELSE ReadPtr(ring)
     IN  /\ got' = got \o [i \in 1 .. copy |-> cells[ring.r + i - 1]]
         /\ ring' = Read(ring, copy)
  /\ UNCHANGED <<main, phase, stop, openSuccess, sem, cells, rest, sent>>

FillFindsNothing ==
  /\ ThreadGoes("fill", "wait") /\ ReadPtr(ring) = 0
  /\ UNCHANGED <<main, phase, stop, openSuccess, sem, ring, cells, rest, sent, got>>

FillWakes ==
  /\ ThreadGoes("wait", "loop") /\ sem > 0
  /\ sem' = sem - 1
  /\ UNCHANGED <<main, phase, stop, openSuccess, ring, cells, rest, sent, got>>

\* Open succeeds, and frames are read until stop or an error.
OpenSucceeds ==
  /\ thread = "demux" /\ phase = "open" /\ phase' = "read"
  /\ UNCHANGED <<main, thread, stop, openSuccess, sem, ring, cells, rest, sent, got>>

OpenFailsToo ==
  /\ ThreadGoes("demux", "exited") /\ phase = "open" /\ phase' = "failed"
  /\ openSuccess' = FALSE
  /\ UNCHANGED <<main, stop, sem, ring, cells, rest, sent, got>>

ReadFails ==
  /\ ThreadGoes("demux", "exited") /\ phase = "read" /\ phase' = "failed"
  /\ UNCHANGED <<main, stop, openSuccess, sem, ring, cells, rest, sent, got>>

ThreadStops ==
  /\ ThreadGoes("demux", "exited") /\ phase = "read" /\ stop
  /\ UNCHANGED <<main, phase, stop, openSuccess, sem, ring, cells, rest, sent, got>>

\* The object is gone, or DataReceivedEventHandler spins on a full ring that
\* nobody empties.
BatchRests ==
  /\ main = "gone" \/ (main = "copy" /\ thread = "exited" /\ WritePtr(ring) = 0)
  /\ UNCHANGED batchVars

BatchNext ==
  \/ Start \/ (\E n \in 1 .. MaxChunk : ReceivesChunk(n)) \/ CopiesChunk \/ PostsChunk
  \/ SetsStop \/ PostsStop \/ JoinsThread \/ Destroys
  \/ FillBegins \/ FillTests \/ (\E n \in 1 .. MaxRead : FillCopies(n)) \/ FillFindsNothing
  \/ FillWakes
  \/ OpenSucceeds \/ OpenFailsToo \/ ReadFails \/ ThreadStops
  \/ BatchRests

BatchSpec == BatchInit /\ [][BatchNext]_batchVars

-----------------------------------------------------------------------------
BatchTypeOK ==
  /\ main \in {"created", "request", "copy", "post", "join", "destroy", "gone"}
  /\ thread \in {"none", "demux", "loop", "fill", "wait", "exited"}
  /\ phase \in {"open", "read", "failed"}
  /\ ring \in Ring /\ rest \in 0 .. MaxChunk
  /\ sem \in Nat /\ sent \in 0 .. MaxBytes

(***************************************************************************)
(* The demuxer gets the received bytes in their order, and the ring holds  *)
(* the rest.  Fill never sleeps without a post to come: not while there    *)
(* are bytes of a chunk whose post is over, and not after Stop has posted. *)
(* The handler is left spinning on a full ring only because the demuxer    *)
(* has failed, and the object goes only when the thread has.               *)
(***************************************************************************)
BatchSound ==
  /\ got = [i \in 1 .. Len(got) |-> i]
  /\ sent = Len(got) + Used(ring)
  /\ thread = "wait" /\ sem = 0 =>
       /\ Used(ring) > 0 => main = "copy"
       /\ main \notin {"join", "destroy", "gone"}
       /\ ~(main = "copy" /\ rest > 0 /\ WritePtr(ring) = 0)
  /\ main = "copy" /\ rest > 0 /\ WritePtr(ring) = 0 /\ thread = "exited" => phase = "failed"
  /\ main \in {"destroy", "gone"} => thread = "exited"

=============================================================================
