----------------------------- MODULE AudioOutput -----------------------------
(***************************************************************************)
(* SDLControl, src/getmedia/FFModule/MediaAudio/SDLControl.cpp: decoded    *)
(* frames wait in audioQueue until SDL's audio thread asks for bytes.      *)
(*                                                                         *)
(* A call of audioCall takes several steps, between which the program may  *)
(* add frames, clear the queue or open the device again: audioCall does    *)
(* not take the mutex.  SDL lets nobody pause or close the device during a *)
(* call.  A frame is its number and its size, a byte the number of its     *)
(* frame and its offset in it.  What happens inside audioQueue is the      *)
(* subject of EvoQueue; here its operations are single steps.              *)
(***************************************************************************)
EXTENDS Integers, Sequences, FiniteSets, SequencesExt

CONSTANTS
  QueueLen,     \* the maxLen of audioQueue, 3
  FrameSizes,   \* sizes of the frames, 0 for one without data
  Requests,     \* numbers of bytes that SDL asks for
  MaxFrames     \* bound: frames made

ASSUME AudioAssumption ==
  /\ QueueLen \in Nat \ {0} /\ MaxFrames \in Nat
  /\ FrameSizes \subseteq Nat /\ Requests \subseteq Nat \ {0}

VARIABLES
  audioQueue, queueStop,
  device,                           \* what SDL has: none, paused or playing
  hasAudio,
  calling, len, item,               \* a call of audioCall, the bytes it has yet to
                                    \* fill and the frames it has taken
  audioBuff, audioBuffIndex, audioBuffSize,
  made, taken,                      \* frames made and taken from the queue
  heard,                            \* bytes played
  dropped                           \* frames taken that nobody deletes

buffer == <<audioBuff, audioBuffIndex, audioBuffSize>>
call == <<calling, len, item>>
queue == <<audioQueue, queueStop>>
history == <<made, taken, heard, dropped>>
aoVars == <<queue, device, hasAudio, call, buffer, history>>

AoInit ==
  /\ audioQueue = <<>> /\ queueStop = FALSE
  /\ device = "none" /\ hasAudio = FALSE
  /\ calling = FALSE /\ len = 0 /\ item = <<>>
  /\ audioBuff = 0 /\ audioBuffIndex = 0 /\ audioBuffSize = 0
  /\ made = 0 /\ taken = <<>> /\ heard = <<>> /\ dropped = {}

Bytes(frame) == [i \in 1 .. frame.size |-> <<frame.id, i>>]

-----------------------------------------------------------------------------
\* A frame for AddAudioData, which waits while the queue is full and refuses
\* the frame between a clear and a reset.
AddAudioData(size) ==
  /\ made < MaxFrames /\ made' = made + 1
  /\ IF queueStop
     THEN UNCHANGED audioQueue
     ELSE /\ Len(audioQueue) < QueueLen
          /\ audioQueue' = Append(audioQueue, [id |-> made', size |-> size])
  /\ UNCHANGED <<queueStop, device, hasAudio, call, buffer, taken, heard, dropped>>

ClearAudioData ==
  /\ audioQueue' = <<>> /\ queueStop' = TRUE
  /\ UNCHANGED <<device, hasAudio, call, buffer, history>>

ResetAudioData ==
  /\ queueStop' = FALSE
  /\ UNCHANGED <<audioQueue, device, hasAudio, call, buffer, history>>

\* SDL_OpenAudio succeeds only while the device is closed; a failure leaves
\* hasAudio as it was.
OpenAudio ==
  /\ \/ device = "none" /\ device' = "paused" /\ hasAudio' = TRUE
     \/ UNCHANGED <<device, hasAudio>>
  /\ UNCHANGED <<queue, call, buffer, history>>

PlayOrPauseAudio ==
  /\ hasAudio /\ device # "none" /\ ~calling
  /\ device' \in {"playing", "paused"}
  /\ UNCHANGED <<queue, hasAudio, call, buffer, history>>

\* hasAudio stays as it was.
CloseAudio ==
  /\ hasAudio /\ ~calling
  /\ device' = "none"
  /\ UNCHANGED <<queue, hasAudio, call, buffer, history>>

SetAudioFlag ==
  /\ hasAudio' \in BOOLEAN
  /\ UNCHANGED <<queue, device, call, buffer, history>>

-----------------------------------------------------------------------------
\* audioCall.
CallBegins(n) ==
  /\ device = "playing" /\ ~calling
  /\ calling' = TRUE /\ len' = n /\ item' = <<>>
  /\ UNCHANGED <<queue, device, hasAudio, buffer, history>>

Exhausted == calling /\ len > 0 /\ audioBuffIndex >= audioBuffSize

\* Faulty: the index goes on from the frame before.
CallFetchesPast ==
  /\ Exhausted /\ audioQueue # <<>> /\ Head(audioQueue).size # 0
  /\ audioQueue' = Tail(audioQueue)
  /\ LET frame == Head(audioQueue)
     IN  /\ audioBuff' = frame.id /\ audioBuffSize' = frame.size
         /\ taken' = Append(taken, frame)
         /\ item' = <<frame.id>>
  /\ dropped' = dropped \cup Range(item)
  /\ UNCHANGED <<queueStop, device, hasAudio, calling, len, audioBuffIndex, made, heard>>

\* The next frame is copied to audioBuff.  The one fetched before it, if any,
\* is forgotten.
CallFetches ==
  /\ Exhausted /\ audioQueue # <<>> /\ Head(audioQueue).size # 0
  /\ audioQueue' = Tail(audioQueue)
  /\ LET frame == Head(audioQueue)
     IN  /\ audioBuff' = frame.id /\ audioBuffIndex' = 0 /\ audioBuffSize' = frame.size
         /\ taken' = Append(taken, frame)
         /\ item' = <<frame.id>>
  /\ dropped' = dropped \cup Range(item)
  /\ UNCHANGED <<queueStop, device, hasAudio, calling, len, made, heard>>

\* No frame, or the wait for one has timed out: the rest is silence, and the
\* frame fetched in this call is forgotten.
CallRunsDry ==
  /\ Exhausted
  /\ calling' = FALSE /\ len' = 0 /\ item' = <<>>
  /\ dropped' = dropped \cup Range(item)
  /\ UNCHANGED <<queue, device, hasAudio, buffer, made, taken, heard>>

\* So it is with a frame that has no data, and that frame is forgotten as well.
CallFindsNoData ==
  /\ Exhausted /\ audioQueue # <<>> /\ Head(audioQueue).size = 0
  /\ audioQueue' = Tail(audioQueue)
  /\ taken' = Append(taken, Head(audioQueue))
  /\ calling' = FALSE /\ len' = 0 /\ item' = <<>>
  /\ dropped' = dropped \cup Range(item) \cup {Head(audioQueue).id}
  /\ UNCHANGED <<queueStop, device, hasAudio, buffer, made, heard>>

Rest == [i \in 1 .. audioBuffSize - audioBuffIndex |-> <<audioBuff, audioBuffIndex + i>>]

CallCopies ==
  /\ calling /\ len > 0 /\ audioBuffIndex < audioBuffSize
  /\ LET len1 == IF Len(Rest) > len THEN len ELSE Len(Rest)
     IN  /\ heard' = heard \o SubSeq(Rest, 1, len1)
         /\ len' = len - len1
         /\ audioBuffIndex' = audioBuffIndex + len1
  /\ UNCHANGED <<queue, device, hasAudio, calling, item, audioBuff, audioBuffSize, made, taken, dropped>>

\* The synchroniser learns of the frame fetched last, which is deleted.
CallReturns ==
  /\ calling /\ len = 0
  /\ calling' = FALSE /\ item' = <<>>
  /\ UNCHANGED <<queue, device, hasAudio, len, buffer, history>>

AudioCall ==
  \/ \E n \in Requests : CallBegins(n)
  \/ CallFetches \/ CallFindsNoData \/ CallRunsDry \/ CallCopies \/ CallReturns

AoNext ==
  \/ \E size \in FrameSizes : AddAudioData(size)
  \/ ClearAudioData \/ ResetAudioData
  \/ OpenAudio \/ PlayOrPauseAudio \/ CloseAudio \/ SetAudioFlag
  \/ AudioCall

AoSpec == AoInit /\ [][AoNext]_aoVars

-----------------------------------------------------------------------------
AoTypeOK ==
  /\ audioQueue \in Seq([id : 1 .. MaxFrames, size : FrameSizes])
  /\ Len(audioQueue) <= QueueLen
  /\ device \in {"none", "paused", "playing"}
  /\ {queueStop, hasAudio, calling} \subseteq BOOLEAN
  /\ len \in Nat /\ Len(item) <= 1
  /\ audioBuffIndex \in 0 .. audioBuffSize
  /\ made \in 0 .. MaxFrames /\ dropped \subseteq 1 .. MaxFrames

(***************************************************************************)
(* What is heard, with what is left in audioBuff, is every byte of the     *)
(* frames taken from the queue, in their order, across any number of calls,*)
(* of frames that run out in the middle of a call and of pauses.  Frames   *)
(* are forgotten without being deleted only if some frame was shorter than *)
(* some request, or had no data; the frame fetched last is never one of    *)
(* them while its call goes on.                                            *)
(***************************************************************************)
AudioAccounted ==
  /\ heard \o Rest = FlattenSeq([i \in 1 .. Len(taken) |-> Bytes(taken[i])])
  /\ dropped # {} => \E i \in 1 .. Len(taken), n \in Requests : taken[i].size < n
  /\ dropped \cap Range(item) = {}

=============================================================================
