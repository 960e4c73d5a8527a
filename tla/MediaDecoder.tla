---------------------------- MODULE MediaDecoder ----------------------------
(***************************************************************************)
(* src/getmedia/FFModule/MediaSource/MediaDecoder.cpp: decoding, seeking   *)
(* and the end-of-stream test, over an EvoQueue.                           *)
(*                                                                         *)
(* Threads that call Decode (the queue's Producers) and one that calls     *)
(* SetTimePos exclude each other with TimePosMutex.  A Decode holds it     *)
(* while it is inside Enqueue; SetTimePos first clears the queues without  *)
(* it.  The player's threads (the Consumers) dequeue frames, and one tests *)
(* CheckIsEnd.                                                             *)
(*                                                                         *)
(* The list stands for the three queues, which Decode fills and SetTimePos *)
(* clears one after the other: an item tells which queue it is in, and the *)
(* session it was read in, the number of the seek before it, counted from  *)
(* 1.                                                                      *)
(***************************************************************************)
EXTENDS EvoQueue

CONSTANTS
  StreamLen,    \* packets in the file
  CodecDelay    \* frames that the codec keeps before it returns the first

ASSUME StreamAssumption ==
  /\ StreamLen \in Nat /\ CodecDelay \in Nat
  /\ {"free", "seek"} \cap Producers = {}

VARIABLES
  dec,           \* what each Decode does next
  frame,         \* the item each Decode got for a queue
  seek,          \* what SetTimePos does next
  mutex,         \* who holds TimePosMutex
  session,       \* 1 + the number of seeks that moved the demuxer
  unread,        \* packets from the demuxer's position to the end
  codec,         \* the sessions of the frames inside the codec
  IsEnd,
  LastVideoPTS,  \* the session of that frame, or 0
  check,         \* the queue that CheckIsEnd counts next, or "ended" if it is true
  checked        \* the session whose end it has seen in IsEnd

demuxer == <<session, unread, codec, IsEnd, LastVideoPTS>>
checking == <<check, checked>>
vars == <<queueVars, dec, frame, seek, mutex, demuxer, checking>>

Init ==
  /\ QueueInit
  /\ dec = [p \in Producers |-> "idle"]
  /\ frame = [p \in Producers |-> 0]
  /\ seek = "none" /\ mutex = "free"
  /\ session = 1 /\ unread = StreamLen /\ codec = <<>>
  /\ IsEnd = FALSE /\ LastVideoPTS = 0
  /\ check = "idle" /\ checked = 1

\* VideoDataSet, AudioDataSet and AudioDataSourceSet.
Video == 0
Audio == 1
Source == 2

Item(s, q) == 3 * s + q

SessionOf(f) == f \div 3

QueueOf(f) == f % 3

IsEmpty(q) == \A k \in DOMAIN list : QueueOf(list[k]) # q

-----------------------------------------------------------------------------
(***************************************************************************)
(* Decode.  One round of its loop goes from the lock to the unlock.        *)
(***************************************************************************)

DecodeLocks(p) ==
  /\ dec[p] = "idle" /\ mutex = "free"
  /\ mutex' = p
  /\ dec' = [dec EXCEPT ![p] = "read"]
  /\ UNCHANGED <<queueVars, frame, seek, demuxer, checking>>

Unlock(p) == mutex' = "free" /\ dec' = [dec EXCEPT ![p] = "idle"]

\* Faulty: the mutex is not released when there is no packet.
DecodeReadsNothingLocked(p) ==
  /\ dec[p] = "read"
  /\ IsEnd' = (IsEnd \/ unread = 0)
  /\ dec' = [dec EXCEPT ![p] = "idle"]
  /\ UNCHANGED <<queueVars, frame, seek, mutex, session, unread, codec,
                 LastVideoPTS, checking>>

\* av_read_frame reports the end, or fails otherwise, which is not noticed.
DecodeReadsNothing(p) ==
  /\ dec[p] = "read"
  /\ \/ unread = 0 /\ IsEnd' = TRUE
     \/ UNCHANGED IsEnd
  /\ Unlock(p)
  /\ UNCHANGED <<queueVars, frame, seek, session, unread, codec, LastVideoPTS,
                 checking>>

\* The packet is of another stream or after StartPos, and is skipped; or it goes
\* into the codec, and there is no frame yet, or it is broken or no I frame.
DecodeGetsNoFrame(p) ==
  /\ dec[p] = "read"
  /\ unread > 0 /\ unread' = unread - 1
  /\ \/ UNCHANGED codec
     \/ codec' = IF Len(codec) < CodecDelay
                 THEN Append(codec, session) ELSE Tail(Append(codec, session))
  /\ Unlock(p)
  /\ UNCHANGED <<queueVars, frame, seek, session, IsEnd, LastVideoPTS, checking>>

\* Faulty: the end of the file is not noticed.
DecodeGetsFramePastEnd(p) ==
  /\ dec[p] = "read"
  /\ unread' = unread - 1
  /\ Len(codec) = CodecDelay
  /\ \E q \in {Video, Audio} :
       frame' = [frame EXCEPT ![p] = Item(Append(codec, session)[1], q)]
  /\ codec' = Tail(Append(codec, session))
  /\ dec' = [dec EXCEPT ![p] = "offer"]
  /\ UNCHANGED <<queueVars, seek, mutex, session, IsEnd, LastVideoPTS, checking>>

DecodeGetsFrame(p) ==
  /\ dec[p] = "read"
  /\ unread > 0 /\ unread' = unread - 1
  /\ Len(codec) = CodecDelay
  /\ \E q \in {Video, Audio} :
       frame' = [frame EXCEPT ![p] = Item(Append(codec, session)[1], q)]
  /\ codec' = Tail(Append(codec, session))
  /\ dec' = [dec EXCEPT ![p] = "offer"]
  /\ UNCHANGED <<queueVars, seek, mutex, session, IsEnd, LastVideoPTS, checking>>

\* With SetGetAudioSource the packets of the sound are queued as they are.
DecodeGetsPacket(p) ==
  /\ dec[p] = "read"
  /\ unread > 0 /\ unread' = unread - 1
  /\ frame' = [frame EXCEPT ![p] = Item(session, Source)]
  /\ dec' = [dec EXCEPT ![p] = "offer"]
  /\ UNCHANGED <<queueVars, seek, mutex, session, codec, IsEnd, LastVideoPTS, checking>>

\* Faulty: the mutex is released for the time of Enqueue.
DecodeOffersUnlocked(p) ==
  /\ dec[p] = "offer"
  /\ \/ EnqueueTests(p, frame[p]) /\ dec' = [dec EXCEPT ![p] = "enqueue"]
        /\ mutex' = "free"
     \/ EnqueueRefuses(p) /\ Unlock(p)
  /\ UNCHANGED <<frame, seek, demuxer, checking>>

DecodeOffers(p) ==
  /\ dec[p] = "offer"
  /\ \/ EnqueueTests(p, frame[p]) /\ dec' = [dec EXCEPT ![p] = "enqueue"]
        /\ UNCHANGED mutex
     \/ EnqueueRefuses(p) /\ Unlock(p)
  /\ UNCHANGED <<frame, seek, demuxer, checking>>

DecodeEnqueues(p) ==
  /\ dec[p] = "enqueue"
  /\ \/ EnqueueWaits(p) /\ UNCHANGED dec
     \/ EnqueuePushes(p) /\ dec' = [dec EXCEPT ![p] = "pushed"]
  /\ UNCHANGED <<frame, seek, mutex, demuxer, checking>>

\* A picture is read once more for its time stamp.
DecodeEnds(p) ==
  /\ dec[p] = "pushed"
  /\ LastVideoPTS' =
       IF QueueOf(frame[p]) = Video THEN SessionOf(frame[p]) ELSE LastVideoPTS
  /\ Unlock(p)
  /\ UNCHANGED <<queueVars, frame, seek, session, unread, codec, IsEnd, checking>>

Decode(p) ==
  \/ DecodeLocks(p) \/ DecodeReadsNothing(p) \/ DecodeGetsNoFrame(p)
  \/ DecodeGetsFrame(p) \/ DecodeGetsPacket(p)
  \/ DecodeOffers(p) \/ DecodeEnqueues(p) \/ DecodeEnds(p)

-----------------------------------------------------------------------------
(***************************************************************************)
(* SetTimePos: ClearAllQueue, lock, av_seek_frame, ResetIsEnd and the      *)
(* Flushes if it succeeded, ClearAllQueue and ResetAllQueue, unlock.       *)
(***************************************************************************)

SeekClears ==
  /\ seek = "none"
  /\ clears + 2 <= MaxClears
  /\ ClearSetsStop
  /\ seek' = "clear"
  /\ UNCHANGED <<dec, frame, mutex, demuxer, checking>>

SeekGoesOnClearing ==
  /\ ClearNotifies \/ ClearEmpties
  /\ UNCHANGED <<dec, frame, seek, mutex, demuxer, checking>>

SeekLocks ==
  /\ seek = "clear" /\ ctl = "idle"
  /\ mutex = "free" /\ mutex' = "seek"
  /\ seek' = "move"
  /\ UNCHANGED <<queueVars, dec, frame, demuxer, checking>>

\* ADecoder->Flush and VDecoder->Flush.
Flush == codec' = <<>>

\* av_seek_frame moves the demuxer to any position, or fails and leaves it.
SeekMoves ==
  /\ seek = "move"
  /\ LastVideoPTS' = 0
  /\ \/ /\ session' = session + 1
        /\ unread' \in 0 .. StreamLen
        /\ seek' = "reset"
     \/ /\ UNCHANGED <<session, unread>>
        /\ seek' = "moved"
  /\ UNCHANGED <<queueVars, dec, frame, mutex, codec, IsEnd, checking>>

\* Faulty: IsEnd is not reset.
SeekResetsCodec ==
  /\ seek = "reset"
  /\ Flush
  /\ seek' = "moved"
  /\ UNCHANGED <<queueVars, dec, frame, mutex, session, unread, IsEnd, LastVideoPTS,
                 checking>>

\* ResetIsEnd comes after the demuxer has moved, and CheckIsEnd waits for no lock.
SeekResets ==
  /\ seek = "reset"
  /\ IsEnd' = FALSE
  /\ Flush
  /\ seek' = "moved"
  /\ UNCHANGED <<queueVars, dec, frame, mutex, session, unread, LastVideoPTS, checking>>

\* Faulty: nothing is cleared under the mutex.
SeekClearsOnce ==
  /\ seek = "moved"
  /\ seek' = "restart"
  /\ UNCHANGED <<queueVars, dec, frame, mutex, demuxer, checking>>

SeekClearsAgain ==
  /\ seek = "moved"
  /\ ClearSetsStop
  /\ seek' = "restart"
  /\ UNCHANGED <<dec, frame, mutex, demuxer, checking>>

SeekRestarts ==
  /\ seek = "restart"
  /\ Restart
  /\ mutex' = "free"
  /\ seek' = "none"
  /\ UNCHANGED <<dec, frame, demuxer, checking>>

SetTimePos ==
  \/ SeekClears \/ SeekGoesOnClearing \/ SeekLocks
  \/ SeekMoves \/ SeekResets \/ SeekClearsAgain \/ SeekRestarts

-----------------------------------------------------------------------------
(***************************************************************************)
(* The player.                                                             *)
(***************************************************************************)

VideoDeQueue(c) ==
  /\ Dequeue(c)
  /\ UNCHANGED <<dec, frame, seek, mutex, demuxer, checking>>

\* CheckIsEnd reads the flag first and counts the queues one after the other.
\* After the demuxer has moved the flag is still that of the session before.
CheckReadsIsEnd ==
  /\ check \in {"idle", "ended"}
  /\ check' = IF IsEnd THEN "video" ELSE "idle"
  /\ checked' = IF seek = "reset" THEN session - 1 ELSE session
  /\ UNCHANGED <<queueVars, dec, frame, seek, mutex, demuxer>>

CheckCounts(here, q, next) ==
  /\ check = here
  /\ check' = IF IsEmpty(q) THEN next ELSE "idle"
  /\ UNCHANGED <<queueVars, dec, frame, seek, mutex, demuxer, checked>>

CheckIsEnd ==
  \/ CheckReadsIsEnd
  \/ CheckCounts("video", Video, "audio")
  \/ CheckCounts("audio", Audio, "source")
  \/ CheckCounts("source", Source, "ended")

Wakeup(t) ==
  /\ SpuriousWakeup(t)
  /\ UNCHANGED <<dec, frame, seek, mutex, demuxer, checking>>

-----------------------------------------------------------------------------
Next ==
  \/ \E p \in Producers : Decode(p)
  \/ SetTimePos
  \/ \E c \in Consumers : VideoDeQueue(c)
  \/ CheckIsEnd
  \/ \E t \in Threads : Wakeup(t)

Spec == Init /\ [][Next]_vars

(***************************************************************************)
(* Fairness.  The player calls VideoDeQueue again and again.  A thread     *)
(* inside Decode or SetTimePos goes on; a thread that waits for            *)
(* TimePosMutex gets it if it is free time and again.  Nobody has to call  *)
(* Decode or SetTimePos.                                                   *)
(***************************************************************************)
Fairness ==
  /\ \A p \in Producers : WF_vars(Decode(p) /\ dec[p] # "idle")
  /\ \A c \in Consumers : WF_vars(VideoDeQueue(c))
  /\ WF_vars(SetTimePos /\ seek # "none")
  /\ SF_vars(SeekLocks)

FairSpec == Spec /\ Fairness

-----------------------------------------------------------------------------
TypeOK ==
  /\ QueueTypeOK
  /\ dec \in [Producers -> {"idle", "read", "offer", "enqueue", "pushed"}]
  /\ frame \in [Producers -> Nat]
  /\ seek \in {"none", "clear", "move", "reset", "moved", "restart"}
  /\ mutex \in Producers \cup {"free", "seek"}
  /\ session \in Nat \ {0} /\ unread \in 0 .. StreamLen
  /\ codec \in Seq(Nat) /\ Len(codec) <= CodecDelay
  /\ IsEnd \in BOOLEAN /\ LastVideoPTS \in Nat
  /\ check \in {"idle", "video", "audio", "source", "ended"} /\ checked \in Nat

(***************************************************************************)
(* Once SetTimePos has returned, no frame of the old position is left      *)
(* anywhere: not in the queues, not in the codec, not in the hands of a    *)
(* Decode that the seek overtook, and not in LastVideoPTS.                 *)
(***************************************************************************)
NoStaleFrame ==
  seek = "none" =>
    /\ \A k \in DOMAIN list : SessionOf(list[k]) = session
    /\ \A k \in DOMAIN codec : codec[k] = session
    /\ \A p \in Producers : dec[p] \notin {"idle", "read"} => SessionOf(frame[p]) = session
    /\ LastVideoPTS \in {0, session}

(***************************************************************************)
(* CheckIsEnd is true only when all of the stream has been read, queued    *)
(* and taken by the player, although it looks at the flag and at the three *)
(* queues one after the other and takes no lock.  A seek that moves the    *)
(* demuxer after the flag was read makes the answer one of the past.  So   *)
(* does, and this is all that can go wrong, a flag read between            *)
(* av_seek_frame and ResetIsEnd: it tells of the end of the session        *)
(* before.                                                                 *)
(***************************************************************************)
EndIsTheEnd ==
  check = "ended" /\ checked = session =>
    /\ unread = 0
    /\ list = <<>>
    /\ \A p \in Producers : dec[p] \in {"idle", "read"}

(***************************************************************************)
(* While a Decode is inside Enqueue no other thread can get in: a full     *)
(* queue holds back every Decode and every SetTimePos that has the mutex   *)
(* to take, so the list never grows past maxLen, but for the one frame     *)
(* that a waiting Decode adds when Clear wakes it, and spurious wake-ups.  *)
(***************************************************************************)
OneExtraFrame == Len(list) <= MaxLen + 1 + spurious

(***************************************************************************)
(* SetTimePos returns, as long as the player goes on dequeuing, but for    *)
(* one case: the Decode that holds the mutex was about to wait for room    *)
(* when Clear notified.  Then it sleeps on an empty list, keeps the mutex, *)
(* and SetTimePos waits for it for ever.                                   *)
(***************************************************************************)
SeekReturnsOrDecodeStranded ==
  seek # "none" ~> \/ seek = "none"
                   \/ seek = "clear" /\ mutex \in stranded /\ list = <<>>

=============================================================================
