------------------------------ MODULE KinesisPut ------------------------------
(***************************************************************************)
(* The uploaders src/linux/kinesis_video_put.cpp (kind "video") and        *)
(* kinesis_video_put_audio.cpp (kind "audio"): gstreamer_init opens a      *)
(* medium, chooses a stream, waits for its first packet, creates the       *)
(* Kinesis stream and puts packet after packet, at the pace of their time  *)
(* stamps.  They are sequential; the hard part is the clock.               *)
(*                                                                         *)
(* Time is counted in milliseconds, scaled down by the constants.  FFmpeg  *)
(* and the producer SDK are external: a read takes any time and returns    *)
(* any packet or an error, putFrame accepts a frame or does not.  Packets  *)
(* of the other streams are read past and leave no trace.                  *)
(***************************************************************************)
EXTENDS TransformADTS, FiniteSets

CONSTANTS
  Media,        \* the kinds of the streams of the media that can be opened
  Formats,      \* profile, rate and channels of an AAC stream
  Sizes,        \* of packets, in bytes
  Steps,        \* from a time stamp of the stream to its next
  Delays,       \* that reading can take
  VideoSlack,   \* what a video sleep is cut by, 10 ms, and so its retry pause
  SleepWrap,    \* usleep takes 2^32 microseconds at most, some 71 minutes
  Overflows,    \* bound: sleeps that overflow is taken to ask for
  Attempts,     \* 5
  Epoch,        \* the time at the start, in milliseconds since 1970
  MaxReads      \* bound: packets of the stream

ASSUME PutAssumption ==
  /\ {VideoSlack, SleepWrap, Attempts, Epoch, MaxReads} \subseteq Nat \ {0}
  /\ Steps \cup Delays \cup Overflows \subseteq Nat /\ Sizes \subseteq Nat
  /\ \A m \in Media : m \in Seq({"video", "aac", "mp3", "other"})
  /\ \A f \in Formats : f \in [profile : Int, rate : Int, channels : Int]

VARIABLES
  kind, upAt,
  useFilter,
  format, header,               \* the AAC format, the header written last
  packet,         \* packets read and put, time stamp (its own
                  \* and the last known) and size of the last
  now,
  lastPts, lastTime, timeBegin, \* last_pts, last_time and time_begin
  frameIndex, attempts,
  accepted,                     \* frames that putFrame took
  first,                        \* time stamp and clock of the first packet
  free, delays, stalled,        \* sleeps skipped, time lost, a sleep gone wrong
  untimed                       \* a packet had no time stamp

putVars == <<kind, upAt, useFilter, format, header, packet, now, lastPts, lastTime,
             timeBegin, frameIndex, attempts, accepted, first, free, delays, stalled, untimed>>

openVars == <<kind, useFilter, format>>
paceVars == <<lastPts, lastTime, timeBegin, first, free, stalled, untimed>>

NoTime == -1    \* AV_NOPTS_VALUE

NoPacket == [reads |-> 0, n |-> 0, time |-> 0, known |-> 0, size |-> 0]

PutInit ==
  /\ kind \in {"video", "audio"} /\ upAt = "open"
  /\ useFilter = FALSE
  /\ format \in Formats /\ header = <<>> /\ packet = NoPacket
  /\ now = Epoch
  /\ lastPts = IF kind = "video" THEN 0 ELSE NoTime
  /\ lastTime = IF kind = "video" THEN 0 ELSE NoTime
  /\ timeBegin = 0 /\ frameIndex = 0 /\ attempts = 0 /\ accepted = <<>>
  /\ first = [pts |-> NoTime, time |-> 0] /\ free = 0 /\ delays = 0
  /\ stalled = FALSE /\ untimed = FALSE

UpGoes(from, to) == upAt = from /\ upAt' = to

-----------------------------------------------------------------------------
\* avformat_open_input or avformat_find_stream_info fails, or the arguments.
UpOpenFails ==
  /\ UpGoes("open", "done")
  /\ UNCHANGED <<openVars, paceVars, header, packet, now, frameIndex, attempts, accepted, delays>>

\* The last video stream is chosen.
ChoosesVideo(m) ==
  /\ kind = "video" /\ upAt = "open"
  /\ upAt' = IF \E i \in 1 .. Len(m) : m[i] = "video" THEN "wait" ELSE "done"
  /\ UNCHANGED <<openVars, paceVars, header, packet, now, frameIndex, attempts, accepted, delays>>

\* The last audio stream is chosen, and refused if it is not AAC, although an
\* earlier one may be.
ChoosesAudio(m) ==
  LET Audio == {i \in 1 .. Len(m) : m[i] \in {"aac", "mp3"}}
      Last  == {i \in Audio : \A j \in Audio : j <= i}
  IN /\ kind = "audio" /\ upAt = "open"
     /\ upAt' = IF \E i \in Last : m[i] = "aac" THEN "wait" ELSE "done"
     /\ UNCHANGED <<openVars, paceVars, header, packet, now, frameIndex, attempts, accepted, delays>>

\* The next packet of the stream; time stamps do not go back, or are missing.
Arrives(size, time) ==
  packet' = [packet EXCEPT !.reads = @ + 1, !.time = time, !.size = size,
                           !.known = IF time = NoTime THEN @ ELSE time]

WaitsForFirst(size, time) ==
  /\ UpGoes("wait", "init") /\ Arrives(size, time)
  /\ UNCHANGED <<openVars, paceVars, header, now, frameIndex, attempts, accepted, delays>>

\* The loop tests neither the end of the file nor an error: when the source
\* ends before it has brought a packet of the stream, it spins.
WaitsForEver ==
  /\ UpGoes("wait", "spin")
  /\ UNCHANGED <<openVars, paceVars, header, packet, now, frameIndex, attempts, accepted, delays>>

\* Extradata goes with the stream; without it packets go through the filter
\* h264_mp4toannexb.  What is said of the form of the NAL units is left out.
InitVideo(hasExtra) ==
  /\ kind = "video" /\ UpGoes("init", "packet")
  /\ useFilter' = ~hasExtra
  /\ UNCHANGED <<kind, format, paceVars, header, packet, now, frameIndex, attempts, accepted, delays>>

InitAudio ==
  /\ kind = "audio" /\ UpGoes("init", "packet")
  /\ UNCHANGED <<openVars, paceVars, header, packet, now, frameIndex, attempts, accepted, delays>>

\* createSync and createStreamSync throw, and nobody catches.
InitThrows ==
  /\ UpGoes("init", "done")
  /\ UNCHANGED <<openVars, paceVars, header, packet, now, frameIndex, attempts, accepted, delays>>

-----------------------------------------------------------------------------
\* One round of the main loop: the packet of the stream is transformed.
FilterPasses ==
  /\ kind = "video" /\ UpGoes("packet", "sample")
  /\ packet' = [packet EXCEPT !.n = @ + 1]
  /\ UNCHANGED <<openVars, paceVars, header, now, frameIndex, attempts, accepted, delays>>

FilterFails ==
  /\ kind = "video" /\ useFilter /\ UpGoes("packet", "read")
  /\ UNCHANGED <<openVars, paceVars, header, packet, now, frameIndex, attempts, accepted, delays>>

AddsHeader ==
  /\ kind = "audio" /\ UpGoes("packet", "sample")
  /\ header' = WriteADTSHeader(packet.size, format)
  /\ packet' = [packet EXCEPT !.n = @ + 1]
  /\ UNCHANGED <<openVars, paceVars, now, frameIndex, attempts, accepted, delays>>

\* (pts - last_pts) - (now - last_time).  Without a time stamp it is NaN made
\* an integer, and the sums overflow: the sleep can be any,
\* such as those of Overflows.
MaxSleeps ==
  IF packet.time = NoTime \/ lastPts = NoTime THEN Overflows
  ELSE {(packet.time - lastPts) - (now - lastTime)}

\* What usleep makes of the time it is asked for: the number of microseconds is
\* cut to 32 bits without sign.
Slept(time) == time % SleepWrap

\* Sleeps, and remembers when it woke up.
Paces(slept) ==
  /\ now' = now + slept /\ lastTime' = now + slept
  /\ lastPts' = packet.time /\ attempts' = Attempts
  /\ untimed' = (untimed \/ packet.time = NoTime)
  /\ first' = IF first.time = 0 THEN [pts |-> packet.time, time |-> now + slept] ELSE first
  /\ UNCHANGED <<openVars, header, packet, frameIndex, accepted, delays>>

\* The first time there is a reason to sleep only starts a clock, and there is
\* no sleep before that clock shows one millisecond.
PacesVideo ==
  /\ kind = "video" /\ UpGoes("sample", "put")
  /\ \E m \in MaxSleeps :
       LET sleeps == m > 0 /\ timeBegin # 0 /\ now > timeBegin
       IN  /\ timeBegin' = IF m > 0 /\ timeBegin = 0 THEN now ELSE timeBegin
           /\ Paces(IF sleeps THEN Slept(m - VideoSlack) ELSE 0)
           /\ free' = IF m > 0 /\ ~sleeps THEN free + m ELSE free
           /\ stalled' = (stalled \/ (sleeps /\ Slept(m - VideoSlack) # m - VideoSlack))

\* asyncTimestamp: the first packet only starts the clock.
PacesAudio ==
  /\ kind = "audio" /\ UpGoes("sample", "put")
  /\ IF lastTime = NoTime THEN Paces(0) /\ UNCHANGED stalled
     ELSE \E m \in MaxSleeps :
            /\ Paces(IF m > 0 THEN Slept(m - 1) ELSE 0)
            /\ stalled' = (stalled \/ (m > 0 /\ Slept(m - 1) # m - 1))
  /\ UNCHANGED <<timeBegin, free>>

\* The packet is unreferenced.
Forgets == header' = <<>> /\ packet' = [packet EXCEPT !.size = 0]

\* put_frame counts the frame whether it is taken or not.  Video frames bear
\* half of their time stamp, in units of half a millisecond here; audio frames
\* the time of the attempt.
PutAccepted ==
  /\ UpGoes("put", "read")
  /\ accepted' = Append(accepted, [n |-> packet.n, index |-> frameIndex,
                                   stamp |-> IF kind = "video" THEN packet.time ELSE now])
  /\ frameIndex' = frameIndex + 1 /\ attempts' = 0 /\ Forgets
  /\ UNCHANGED <<openVars, paceVars, now, delays>>

Pause == IF kind = "video" THEN VideoSlack ELSE 1

\* Faulty: the last attempt is repeated once more.
PutFailsTwice ==
  /\ upAt = "put"
  /\ upAt' = IF attempts >= 1 THEN "put" ELSE "read"
  /\ frameIndex' = frameIndex + 1
  /\ now' = now + Pause /\ delays' = delays + Pause
  /\ attempts' = IF attempts >= 1 THEN attempts - 1 ELSE 0
  /\ IF attempts >= 1 THEN UNCHANGED <<header, packet>> ELSE Forgets
  /\ UNCHANGED <<openVars, paceVars, accepted>>

\* A pause, and another attempt or none: the frame is dropped.
PutFails ==
  /\ upAt = "put"
  /\ upAt' = IF attempts > 1 THEN "put" ELSE "read"
  /\ frameIndex' = frameIndex + 1
  /\ now' = now + Pause /\ delays' = delays + Pause
  /\ attempts' = attempts - 1
  /\ IF attempts > 1 THEN UNCHANGED <<header, packet>> ELSE Forgets
  /\ UNCHANGED <<openVars, paceVars, accepted>>

ReadsNext(size, time, delay) ==
  /\ UpGoes("read", "packet")
  /\ packet.reads < MaxReads /\ Arrives(size, time)
  /\ now' = now + delay /\ delays' = delays + delay
  /\ UNCHANGED <<openVars, paceVars, header, frameIndex, attempts, accepted>>

\* The end of the file or any error ends the program.
ReadEnds ==
  /\ UpGoes("read", "done")
  /\ UNCHANGED <<openVars, paceVars, header, packet, now, frameIndex, attempts, accepted, delays>>

PutRests == upAt \in {"done", "spin"} /\ UNCHANGED putVars

\* The time stamps and sizes a next packet can have; of video the size does not
\* matter.
NextTimes == {NoTime} \cup {packet.known + s : s \in Steps}
NextSizes == IF kind = "video" THEN {0} ELSE Sizes

PutNext ==
  \/ UpOpenFails \/ (\E m \in Media : ChoosesVideo(m) \/ ChoosesAudio(m))
  \/ (\E size \in NextSizes, time \in NextTimes : WaitsForFirst(size, time))
  \/ WaitsForEver
  \/ (\E x \in BOOLEAN : InitVideo(x)) \/ InitAudio \/ InitThrows
  \/ FilterPasses \/ FilterFails \/ AddsHeader
  \/ PacesVideo \/ PacesAudio \/ PutAccepted \/ PutFails
  \/ (\E size \in NextSizes, time \in NextTimes, d \in Delays : ReadsNext(size, time, d))
  \/ ReadEnds \/ PutRests

PutSpec == PutInit /\ [][PutNext]_putVars

-----------------------------------------------------------------------------
PutTypeOK ==
  /\ kind \in {"video", "audio"}
  /\ upAt \in {"open", "wait", "spin", "init", "packet", "sample", "put", "read", "done"}
  /\ attempts \in 0 .. Attempts /\ frameIndex \in 0 .. Attempts * MaxReads
  /\ packet.n \in 0 .. MaxReads /\ now >= Epoch
  /\ \A i \in 1 .. Len(header) : header[i] \in 0 .. 255

\* The frame index of an accepted frame tells what became of those before it:
\* a dropped one has used up all its attempts, an accepted one fewer.
IndexTells ==
  \A i \in 1 .. Len(accepted) :
    LET before == IF i = 1 THEN [n |-> 0, index |-> -1] ELSE accepted[i - 1]
        drops  == accepted[i].n - before.n - 1
    IN  /\ drops >= 0
        /\ accepted[i].index - before.index - 1 \in drops * Attempts .. drops * Attempts + Attempts - 1

\* How far the upload is ahead of the time stamps.
Lead == (lastPts - first.pts) - (lastTime - first.time)

AllTimed == packet.n > 0 /\ first.pts # NoTime /\ lastPts # NoTime /\ ~untimed

(***************************************************************************)
(* Frames are put in order, at most once, with rising indices and without  *)
(* time stamps that go back, and none is given up before its last attempt. *)
(* The upload runs ahead of the time stamps by the cut of each sleep and   *)
(* the sleeps it skips at the start at most, and behind by the time that   *)
(* reading and failing takes, unless a sleep has wrapped around, which     *)
(* needs a frame that comes late by nearly its whole interval, or a medium *)
(* that has gone on for longer than usleep can sleep.  A reader of an AAC  *)
(* packet finds the format and the length in its header, as far as the     *)
(* header has room for them.                                               *)
(***************************************************************************)
PutSound ==
  /\ IndexTells
  /\ \A i, j \in 1 .. Len(accepted) :
       i < j /\ NoTime \notin {accepted[i].stamp, accepted[j].stamp}
         => accepted[i].stamp <= accepted[j].stamp
  /\ AllTimed =>
       /\ stalled \/ Lead \in -delays .. Pause * packet.n + free
       /\ stalled => \/ delays > 0 \/ Steps \cap 1 .. VideoSlack - 1 # {}
                     \/ packet.known - first.pts > SleepWrap
  /\ header # <<>> =>
       /\ format.profile \in 0 .. 3 => Parsed(header).profile = format.profile
       /\ format.channels \in 1 .. 6 => Parsed(header).channels = format.channels
       /\ packet.size + ADTS_HEADER_SIZE < 8192
            => Parsed(header).length = packet.size + ADTS_HEADER_SIZE

=============================================================================
