-------------------------- MODULE InlineMediaSource --------------------------
(***************************************************************************)
(* src/getmedia/InlineMediaSource.cpp: a Kinesis Video stream played while *)
(* it is downloaded.  Three threads share one object:                      *)
(*                                                                         *)
(*   ctl     the caller of Start, Stop and the destructor;                 *)
(*   play    thread_play: ThreadOpen, which opens the demuxer and reads    *)
(*           frames; the demuxer calls Fill back for bytes;                *)
(*   inline  thread_inline: ThreadInline, which runs GetMedia requests;    *)
(*           the HTTP client calls DataReceivedEventHandler back with each *)
(*           chunk it has received.                                        *)
(*                                                                         *)
(* They meet in a ring of bytes under a spin lock, the semaphores sem_data *)
(* (bytes may be there) and sem_play (a request has ended), and the plain  *)
(* int stop.  What a thread does while it holds the spin lock is one       *)
(* action; every access to stop and to a semaphore is an action of its     *)
(* own.  The spinning of a writer that finds the ring full is stuttering.  *)
(*                                                                         *)
(* Bytes are numbered as they are written into the ring, over all sessions *)
(* of the object.  A value of ctl, play or inline names what the thread    *)
(* does next.                                                              *)
(***************************************************************************)
EXTENDS RingBuffer, Sequences

CONSTANTS
  MaxChunk,   \* the largest chunk the HTTP client hands over in one call
  MaxRead,    \* the largest buf_size the demuxer passes to Fill
  MaxBytes,   \* bound: bytes written to the ring over the object's life
  MaxGets,    \* bound: GetMedia requests over the object's life
  MaxCalls    \* bound: calls of Start and Stop

(***************************************************************************)
(* A chunk is smaller than the ring: libcurl hands over 16 KiB at most     *)
(* and the ring holds 10 MiB.                                              *)
(***************************************************************************)
ASSUME BoundsAssumption ==
  /\ MaxChunk \in 1 .. Size
  /\ MaxRead \in Nat \ {0}
  /\ MaxBytes \in Nat
  /\ MaxGets \in Nat
  /\ MaxCalls \in Nat

VARIABLES
  ctl, op,            \* the caller, and the call it is in
  play, inline,       \* the two threads
  stop,               \* the flag
  semData, semPlay,   \* counts of the two semaphores
  ring, data,         \* the ring's indices and its bytes
  chunk, left,        \* size of the chunk at hand, and what is unwritten of it
  sent,               \* bytes written so far, over all sessions
  got,                \* bytes Fill copied out since the ring was last cleared
  gets, calls         \* requests and calls made (they count against bounds)

shared == <<stop, semData, semPlay>>
buffer == <<ring, data, sent, got>>
http == <<inline, chunk, left, gets>>
caller == <<ctl, op, calls>>
vars == <<ctl, op, play, inline, stop, semData, semPlay, ring, data, chunk,
          left, sent, got, gets, calls>>

Init ==
  /\ ctl = "idle" /\ op = "none"
  /\ play = "none" /\ inline = "none"
  /\ stop = FALSE /\ semData = 0 /\ semPlay = 0
  /\ ring = Clear /\ data = [i \in Index |-> 0]
  /\ chunk = 0 /\ left = 0
  /\ sent = 0 /\ got = <<>>
  /\ gets = 0 /\ calls = 0

-----------------------------------------------------------------------------
(***************************************************************************)
(* The caller.  Start and the destructor begin by running Stop.            *)
(***************************************************************************)

Call(o) ==
  /\ ctl = "idle"
  /\ o = "destroy" \/ calls < MaxCalls
  /\ ctl' = "set_stop" /\ op' = o
  /\ calls' = IF o = "destroy" THEN calls ELSE calls + 1
  /\ UNCHANGED <<play, http, shared, buffer>>

StopSetsFlag ==
  /\ ctl = "set_stop"
  /\ stop' = TRUE
  /\ ctl' = "post_data"
  /\ UNCHANGED <<op, calls, play, http, semData, semPlay, buffer>>

\* Faulty: a Fill that sleeps is not woken.
StopPostsNoData ==
  /\ ctl = "post_data"
  /\ ctl' = "post_play"
  /\ UNCHANGED <<op, calls, play, http, shared, buffer>>

StopPostsData ==
  /\ ctl = "post_data"
  /\ semData' = semData + 1
  /\ ctl' = "post_play"
  /\ UNCHANGED <<op, calls, play, http, stop, semPlay, buffer>>

StopPostsPlay ==
  /\ ctl = "post_play"
  /\ semPlay' = semPlay + 1
  /\ ctl' = "join_play"
  /\ UNCHANGED <<op, calls, play, http, stop, semData, buffer>>

\* Faulty: thread_play is not waited for.
JoinPlayAtOnce ==
  /\ ctl = "join_play"
  /\ ctl' = "join_inline"
  /\ UNCHANGED <<op, calls, play, http, shared, buffer>>

\* A join of a handle that names no thread fails at once, and nobody looks.
JoinPlay ==
  /\ ctl = "join_play"
  /\ play \in {"none", "exited"}
  /\ play' = "none"
  /\ ctl' = "join_inline"
  /\ UNCHANGED <<op, calls, http, shared, buffer>>

JoinInline ==
  /\ ctl = "join_inline"
  /\ inline \in {"none", "exited"}
  /\ inline' = "none"
  /\ ctl' = "clear"
  /\ UNCHANGED <<op, calls, play, chunk, left, gets, shared, buffer>>

\* Faulty: the ring keeps the bytes of the session that ended.
ClearRingNot ==
  /\ ctl = "clear"
  /\ got' = <<>>
  /\ ctl' = CASE op = "start" -> "create_play"
              [] op = "stop" -> "idle"
              [] op = "destroy" -> "freed"
  /\ op' = IF op = "stop" THEN "none" ELSE op
  /\ UNCHANGED <<calls, play, http, shared, ring, data, sent>>

\* The end of Stop, and what its caller does then: return, free the ring in
\* the destructor, or go on with Start.
ClearRing ==
  /\ ctl = "clear"
  /\ ring' = Clear
  /\ got' = <<>>
  /\ ctl' = CASE op = "start" -> "create_play"
              [] op = "stop" -> "idle"
              [] op = "destroy" -> "freed"
  /\ op' = IF op = "stop" THEN "none" ELSE op
  /\ UNCHANGED <<calls, play, http, shared, data, sent>>

StartCreatesPlay ==
  /\ ctl = "create_play"
  /\ stop' = FALSE
  /\ play' = "loop"
  /\ ctl' = "create_inline"
  /\ UNCHANGED <<op, calls, http, semData, semPlay, buffer>>

StartCreatesInline ==
  /\ ctl = "create_inline"
  /\ inline' = "loop"
  /\ ctl' = "idle" /\ op' = "none"
  /\ UNCHANGED <<calls, play, chunk, left, gets, shared, buffer>>

Caller ==
  \/ \E o \in {"start", "stop", "destroy"} : Call(o)
  \/ StopSetsFlag \/ StopPostsData \/ StopPostsPlay
  \/ JoinPlay \/ JoinInline \/ ClearRing
  \/ StartCreatesPlay \/ StartCreatesInline

-----------------------------------------------------------------------------
(***************************************************************************)
(* thread_play.  "demux" is inside Open or ReadFrame: the demuxer may call *)
(* Fill any number of times before it returns.  After Fill has returned    *)
(* nothing (-1, or 0 because of stop) it only returns ("demux_ended").     *)
(***************************************************************************)

OpenLoop ==
  /\ play = "loop"
  /\ play' = IF stop THEN "exited" ELSE "demux"
  /\ UNCHANGED <<caller, http, shared, buffer>>

\* Open or ReadFrame returned 0.
DemuxOK ==
  /\ play \in {"demux", "demux_ended"}
  /\ play' = "frame_loop"
  /\ UNCHANGED <<caller, http, shared, buffer>>

\* Open failed, or ReadFrame failed and broke the inner loop.
DemuxFails ==
  /\ play \in {"demux", "demux_ended"}
  /\ play' = "wait_play"
  /\ UNCHANGED <<caller, http, shared, buffer>>

FrameLoop ==
  /\ play = "frame_loop"
  /\ play' = IF stop THEN "wait_play" ELSE "demux"
  /\ UNCHANGED <<caller, http, shared, buffer>>

WaitPlay ==
  /\ play = "wait_play"
  /\ semPlay > 0
  /\ semPlay' = semPlay - 1
  /\ play' = "loop"
  /\ UNCHANGED <<caller, http, stop, semData, buffer>>

CallFill ==
  /\ play = "demux"
  /\ play' = "fill"
  /\ UNCHANGED <<caller, http, shared, buffer>>

\* The test at the head of Fill, and the one of its loop.
FillTestsStop ==
  /\ play \in {"fill", "fill_loop"}
  /\ play' = IF stop THEN "demux_ended"
             ELSE IF play = "fill" THEN "fill_loop" ELSE "copy"
  /\ UNCHANGED <<caller, http, shared, buffer>>

\* Faulty: Fill waits until it can fill the whole buffer.
FillCopiesAllOrNothing ==
  /\ play = "copy"
  /\ \E bufSize \in 1 .. MaxRead :
       IF ReadPtr(ring) < bufSize
       THEN play' = "wait_data" /\ UNCHANGED <<ring, got>>
       ELSE /\ got' = got \o [k \in 1 .. bufSize |-> data[ring.r + k - 1]]
            /\ ring' = Read(ring, bufSize)
            /\ play' = "demux"
  /\ UNCHANGED <<caller, http, shared, data, sent>>

FillCopies ==
  /\ play = "copy"
  /\ \E bufSize \in 1 .. MaxRead :
       LET nread == ReadPtr(ring)
           copy == IF bufSize < nread THEN bufSize ELSE nread
       IN IF copy = 0
          THEN play' = "wait_data" /\ UNCHANGED <<ring, got>>
          ELSE /\ got' = got \o [k \in 1 .. copy |-> data[ring.r + k - 1]]
               /\ ring' = Read(ring, copy)
               /\ play' = "demux"
  /\ UNCHANGED <<caller, http, shared, data, sent>>

WaitData ==
  /\ play = "wait_data"
  /\ semData > 0
  /\ semData' = semData - 1
  /\ play' = "fill_loop"
  /\ UNCHANGED <<caller, http, stop, semPlay, buffer>>

Play ==
  \/ OpenLoop \/ DemuxOK \/ DemuxFails \/ FrameLoop \/ WaitPlay
  \/ CallFill \/ FillTestsStop \/ FillCopies \/ WaitData

-----------------------------------------------------------------------------
(***************************************************************************)
(* thread_inline.  "request" is inside GetMediaData: the HTTP client asks  *)
(* ContinueHandler before each chunk, and whenever nothing arrives for a   *)
(* while; GetMediaData may also end by itself at any time.                 *)
(***************************************************************************)

InlineLoop ==
  /\ inline = "loop"
  /\ \/ stop /\ inline' = "exited" /\ UNCHANGED gets
     \/ ~stop /\ gets < MaxGets /\ inline' = "request" /\ gets' = gets + 1
  /\ UNCHANGED <<caller, play, chunk, left, shared, buffer>>

ContinueHandler == ~stop

ReceiveChunk(n) ==
  /\ inline = "request"
  /\ ContinueHandler
  /\ sent + n <= MaxBytes
  /\ chunk' = n /\ left' = n
  /\ inline' = "handler"
  /\ UNCHANGED <<gets, caller, play, shared, buffer>>

\* The handler drops the chunk if it finds stop set when it is entered, and
\* does not look at it again.
HandlerTestsStop ==
  /\ inline = "handler"
  /\ \/ stop /\ inline' = "request" /\ chunk' = 0 /\ left' = 0
     \/ ~stop /\ inline' = "write" /\ UNCHANGED <<chunk, left>>
  /\ UNCHANGED <<gets, caller, play, shared, buffer>>

HandlerWrites ==
  /\ inline = "write"
  /\ left > 0
  /\ LET nwrite == WritePtr(ring)
         copy == IF nwrite < left THEN nwrite ELSE left
     IN /\ nwrite > 0
        /\ data' = [i \in Index |->
                      IF i \in ring.w .. ring.w + copy - 1
                      THEN sent + 1 + (i - ring.w) ELSE data[i]]
        /\ ring' = Write(ring, copy)
        /\ sent' = sent + copy
        /\ left' = left - copy
  /\ UNCHANGED <<inline, chunk, gets, caller, play, shared, got>>

\* Faulty: the reader is not told of the chunk.
HandlerPostsNothing ==
  /\ inline = "write"
  /\ left = 0
  /\ inline' = "request" /\ chunk' = 0
  /\ UNCHANGED <<left, gets, caller, play, shared, buffer>>

HandlerPosts ==
  /\ inline = "write"
  /\ left = 0
  /\ semData' = semData + 1
  /\ inline' = "request" /\ chunk' = 0
  /\ UNCHANGED <<left, gets, caller, play, stop, semPlay, buffer>>

RequestEnds ==
  /\ inline = "request"
  /\ inline' = "post_play"
  /\ UNCHANGED <<chunk, left, gets, caller, play, shared, buffer>>

InlinePosts ==
  /\ inline = "post_play"
  /\ semPlay' = semPlay + 1
  /\ inline' = "loop"
  /\ UNCHANGED <<chunk, left, gets, caller, play, stop, semData, buffer>>

Inline ==
  \/ InlineLoop \/ (\E n \in 1 .. MaxChunk : ReceiveChunk(n))
  \/ HandlerTestsStop \/ HandlerWrites \/ HandlerPosts
  \/ RequestEnds \/ InlinePosts

-----------------------------------------------------------------------------

Next == Caller \/ Play \/ Inline

Spec == Init /\ [][Next]_vars

(***************************************************************************)
(* Fairness.  The system schedules every thread, so whatever a thread can  *)
(* do for good it does.  Nobody has to call Start or Stop, the server need *)
(* not send or end anything; but the HTTP client polls ContinueHandler, so *)
(* a request ends once stop is set.  A demuxer cannot return frames for    *)
(* ever without asking for input, hence the strong fairness of CallFill.   *)
(***************************************************************************)
Fairness ==
  /\ WF_vars(Caller /\ ctl # "idle")
  /\ WF_vars(Play) /\ SF_vars(CallFill)
  /\ WF_vars(Inline /\ inline # "request")
  /\ WF_vars(RequestEnds /\ ~ContinueHandler)

FairSpec == Spec /\ Fairness

-----------------------------------------------------------------------------
TypeOK ==
  /\ ctl \in {"idle", "set_stop", "post_data", "post_play", "join_play",
             "join_inline", "clear", "create_play", "create_inline", "freed"}
  /\ op \in {"none", "start", "stop", "destroy"}
  /\ play \in {"none", "loop", "demux", "demux_ended", "frame_loop", "fill",
              "fill_loop", "copy", "wait_data", "wait_play", "exited"}
  /\ inline \in {"none", "loop", "request", "handler", "write", "post_play",
                "exited"}
  /\ stop \in BOOLEAN /\ semData \in Nat /\ semPlay \in Nat
  /\ ring \in Ring /\ data \in [Index -> Nat]
  /\ chunk \in 0 .. MaxChunk /\ left \in 0 .. chunk
  /\ sent \in Nat /\ got \in Seq(Nat)
  /\ gets \in Nat /\ calls \in Nat

(***************************************************************************)
(* The demuxer gets the stream: what Fill has copied out, followed by what *)
(* the ring holds between the two indices, is an unbroken run of the bytes *)
(* that DataReceivedEventHandler took from the response, up to the last    *)
(* one taken.  No byte is lost, repeated, overwritten before it was read   *)
(* or read before it was written, however the indices wrap.                *)
(***************************************************************************)
InOrder ==
  LET n == Len(got) + Used(ring)
  IN /\ n <= sent
     /\ \A k \in 1 .. Len(got) : got[k] = sent - n + k
     /\ \A k \in 1 .. Used(ring) :
          data[Slot(ring, k)] = sent - Used(ring) + k

\* How much of the chunk at hand is already in the ring.
Written == IF inline = "write" THEN chunk - left ELSE 0

(***************************************************************************)
(* No wake-up of the reader is lost: a Fill that sleeps on sem_data with   *)
(* no post outstanding has missed nothing but part of the chunk that is    *)
(* being written, which ends with a post, and Stop has yet to post.        *)
(***************************************************************************)
NoLostWakeup ==
  play = "wait_data" /\ semData = 0
    => /\ Used(ring) <= Written
       /\ stop => ctl = "post_data"

\* DataReceivedEventHandler spins on a full ring.
WriterSpins == inline = "write" /\ left > 0 /\ WritePtr(ring) = 0

(***************************************************************************)
(* DataReceivedEventHandler posts sem_data only after its whole chunk is   *)
(* in the ring.  It never spins on a full ring for a reader that sleeps    *)
(* until that post comes.                                                  *)
(***************************************************************************)
NoMutualWait ==
  ~(WriterSpins /\ play = "wait_data" /\ semData = 0)

(***************************************************************************)
(* Stop clears the ring, and the destructor frees it, only when neither    *)
(* thread is left to touch it, although Start, Stop and the destructor     *)
(* run Stop again on an object that is stopped already.                    *)
(***************************************************************************)
ThreadsGone ==
  ctl \in {"clear", "create_play", "freed"} => play = "none" /\ inline = "none"

(***************************************************************************)
(* The data path is a bounded first-in first-out channel that Stop empties. *)
(***************************************************************************)
Channel ==
  INSTANCE ByteChannel
  WITH Capacity <- Size,
       pending <- [k \in 1 .. Used(ring) |-> data[Slot(ring, k)]],
       next <- sent + 1

IsChannel == Channel!Spec

(***************************************************************************)
(* Stop returns, whatever the two threads are doing, with one exception:   *)
(* DataReceivedEventHandler does not look at stop again while it waits for *)
(* room, so once thread_play has exited a full ring keeps thread_inline,   *)
(* and the join of it, for ever.                                           *)
(***************************************************************************)
StopReturnsOrWriterSpins ==
  ctl = "set_stop" ~> \/ ctl \in {"idle", "freed"}
                      \/ ctl = "join_inline" /\ WriterSpins

(***************************************************************************)
(* What testInline relies on when it ends by calling Stop: the call        *)
(* returns.                                                                *)
(***************************************************************************)
StopReturns == ctl = "set_stop" ~> ctl \in {"idle", "freed"}

(***************************************************************************)
(* A chunk that DataReceivedEventHandler has begun to write is stored in   *)
(* full as long as thread_play goes on reading; only a thread_play that    *)
(* waits for the request to end, or has exited, can leave it spinning.     *)
(***************************************************************************)
ChunkIsStored ==
  inline = "write" ~> inline # "write" \/ play \in {"wait_play", "exited", "none"}

=============================================================================
