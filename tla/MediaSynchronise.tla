-------------------------- MODULE MediaSynchronise --------------------------
(***************************************************************************)
(* MediaSynchronise and its clocks, MediaAudio/MediaSynchronise.cpp and    *)
(* MClock.h: when a video frame is due, given the time stamps of the       *)
(* frames and the clock that the audio output drives.                      *)
(*                                                                         *)
(* Times are integers, Ms of them to the millisecond; the code's are       *)
(* doubles, read from a clock that counts milliseconds.  A clock runs at   *)
(* speed 1 and is never paused, so all that matters of it is its           *)
(* pts_drift.  NaN is the value that init_clock gives it; the absurd value *)
(* that UpdateAuioPts computes when it has never seen a time stamp is NaN  *)
(* as well, since both are out of the range in which anything is corrected.*)
(*                                                                         *)
(* The player is external: it asks for the delay of its frame, sleeps that *)
(* many milliseconds, or until the clock has counted one more, and asks    *)
(* again, until the answer is 0, which means show it.  A wait of less than *)
(* a millisecond is rounded to 0 as well, and then no clock is moved.      *)
(* What can disturb the player is an upset: a jump of the audio clock, a   *)
(* player that comes late, a frame without a time stamp.                   *)
(***************************************************************************)
EXTENDS Integers, FiniteSetsExt

CONSTANTS
  NaN,
  Ms,                 \* a millisecond
  SyncMin, SyncMax,   \* AV_SYNC_THRESHOLD_MIN and AV_SYNC_THRESHOLD_MAX
  FrameDup,           \* AV_SYNC_FRAMEDUP_THRESHOLD
  MaxFrame,           \* max_frame_duration
  Refresh,            \* the longest time GetVideoDelay lets the player sleep
  FrameSteps,         \* durations of a frame
  FirstPts,           \* time stamps of a first frame
  StartTime,          \* the wall clock's time at the start
  Jumps,              \* how far from the video an upset puts the audio
  Lates,              \* how late a player may come
  MaxUpsets,          \* bound: upsets, and
  LastUpset,          \* the last frame they come with
  MaxShown            \* bound: frames shown

ASSUME SyncAssumption ==
  /\ {SyncMin, SyncMax, MaxFrame, FrameDup, Refresh, StartTime} \subseteq Nat /\ NaN \notin Int
  /\ Ms \in Nat \ {0} /\ Ms <= Refresh /\ Ms <= SyncMin
  /\ SyncMin <= SyncMax /\ FrameDup <= SyncMax /\ SyncMax < MaxFrame
  /\ FrameSteps \subseteq Ms .. MaxFrame - 1 /\ FirstPts \subseteq Nat
  /\ Jumps \subseteq Nat /\ Lates \subseteq Nat
  /\ MaxUpsets \in Nat /\ LastUpset \in Nat /\ MaxShown \in Nat

VARIABLES
  now, step,
  audioClock, videoClock,       \* pts_drift of the two clocks
  audioFrameNextPts,
  frameTimer, frameLastPts, frameLastDuration,
  framePts, stamped,            \* the frame to be shown next; has it a time stamp?
  answer,                       \* what GetVideoDelay returned, -1 if not asked
  shown, upsets,
  calm                          \* frames that moved the timer since all was upset

clocks == <<audioClock, videoClock, audioFrameNextPts>>
frame == <<frameTimer, frameLastPts, frameLastDuration, framePts, stamped>>
msVars == <<now, step, clocks, frame, answer, shown, upsets, calm>>

\* The constructor and Init.
MsInit ==
  /\ now = StartTime /\ step \in FrameSteps
  /\ audioClock = NaN /\ videoClock = NaN /\ audioFrameNextPts = NaN
  /\ frameTimer = 0 /\ frameLastPts = 0 /\ frameLastDuration = 0
  /\ framePts \in FirstPts /\ stamped = TRUE
  /\ answer = -1 /\ shown = 0 /\ upsets = 0 /\ calm = 0

\* Upsets are bounded.
Upset ==
  /\ upsets < MaxUpsets /\ shown < LastUpset
  /\ upsets' = upsets + 1 /\ calm' = 0

\* GetClockDelay.
Diff == IF NaN \in {audioClock, videoClock} THEN NaN ELSE videoClock - audioClock

Abs(x) == IF x < 0 THEN -x ELSE x

SyncThreshold(delay) == Max({SyncMin, Min({SyncMax, delay})})

\* Faulty: a late video is not hurried.
ComputeTargetDelayNeverLess(delay) ==
  IF Diff = NaN \/ (Diff # NaN /\ Abs(Diff) >= MaxFrame) \/ Diff < SyncThreshold(delay) THEN delay
  ELSE IF delay > FrameDup THEN delay + Diff ELSE 2 * delay

\* Compute_target_delay.
ComputeTargetDelay(delay) ==
  IF Diff = NaN THEN delay
  ELSE IF Abs(Diff) >= MaxFrame \/ Abs(Diff) < SyncThreshold(delay) THEN delay
  ELSE IF Diff < 0 THEN Max({0, delay + Diff})
  ELSE IF delay > FrameDup THEN delay + Diff
  ELSE 2 * delay

\* The duration that CalculateDelay takes from the time stamps: the last sane
\* one.
LastDuration ==
  IF stamped /\ framePts - frameLastPts \in 1 .. MaxFrame - 1
  THEN framePts - frameLastPts ELSE frameLastDuration

Delay == ComputeTargetDelay(LastDuration)

\* When the frame is due.
Due == frameTimer + Delay

\* GetVideoDelay of a frame that is not due for a millisecond or more.
GetVideoDelayWaits ==
  /\ answer = -1 /\ Due - now >= Ms
  /\ frameLastDuration' = LastDuration
  /\ answer' = Min({Due - now, Refresh}) \div Ms
  /\ UNCHANGED <<now, step, clocks, frameTimer, frameLastPts, framePts, stamped, shown,
                 upsets, calm>>

\* The clocks are too far apart to be corrected.
TooFarApart == Diff # NaN /\ Abs(Diff) >= MaxFrame

\* Frames that move the clocks it may take until they agree again.
SettleTime == (MaxFrame + SyncMax) \div step + 6

\* A frame is shown, and the player asks for the next one, which may lack a time
\* stamp.  It is an upset, too, if the clocks have not moved for so long that the
\* duration is not sane, or are too far apart and have not been in sync before.
NextFrame(calmer) ==
  /\ shown < MaxShown /\ shown' = shown + 1
  /\ framePts' = framePts + step
  /\ \/ /\ stamped' = TRUE /\ UNCHANGED upsets
        /\ calm' = IF framePts' - frameLastPts' >= MaxFrame \/ (TooFarApart' /\ calm < SettleTime)
                   THEN 0 ELSE calmer
     \/ stamped /\ stamped' = FALSE /\ Upset

\* GetVideoDelay of a frame that is due in less than a millisecond, if only by
\* the rounding of a double: the answer is 0 too, but only the duration is noted.
\* Meanwhile the clock may tick.
GetVideoDelayRounds ==
  /\ answer = -1 /\ Due - now \in 0 .. Ms - 1
  /\ frameLastDuration' = LastDuration
  /\ now' \in {now, now + Ms}
  /\ UNCHANGED <<step, clocks, frameTimer, frameLastPts, answer>>
  /\ NextFrame(calm)

\* The timer, which catches up if it lags too far behind.
NextTimer == IF Delay > 0 /\ now - Due > SyncMax THEN now ELSE Due

\* GetVideoDelay of a frame that is due.
GetVideoDelayShows ==
  /\ answer = -1 /\ now >= Due
  /\ frameLastDuration' = LastDuration
  /\ frameTimer' = NextTimer
  /\ IF stamped
     THEN videoClock' = framePts - now /\ frameLastPts' = framePts
     ELSE UNCHANGED <<videoClock, frameLastPts>>
  /\ UNCHANGED <<now, step, audioClock, audioFrameNextPts, answer>>
  /\ NextFrame(calm + 1)

\* The player sleeps as long as it was told.
Sleep ==
  /\ answer # -1 /\ answer' = -1
  /\ \E tick \in {0, Ms} : now' = now + answer * Ms + tick
  /\ UNCHANGED <<step, clocks, frame, shown, upsets, calm>>

-----------------------------------------------------------------------------
SleepsTooLong(late) ==
  /\ answer # -1 /\ Upset /\ answer' = -1
  /\ now' = now + answer * Ms + late
  /\ UNCHANGED <<step, clocks, frame, shown>>

\* UpdateAuioPts with a frame that ends at time stamp end, or without a time
\* stamp: then it follows the frame before, of which it has the length.  While
\* audio plays without a break the clock's drift does not change.
UpdateAuioPts(end) ==
  /\ Upset
  /\ audioFrameNextPts' = end
  /\ audioClock' = end - now
  /\ UNCHANGED <<now, step, videoClock, frame, answer, shown>>

UpdateAuioPtsWithout(length) ==
  /\ Upset
  /\ IF audioFrameNextPts = NaN
     THEN UNCHANGED <<audioFrameNextPts, audioClock>>
     ELSE /\ audioFrameNextPts' = audioFrameNextPts + length
          /\ audioClock' = audioFrameNextPts' - now
  /\ UNCHANGED <<now, step, videoClock, frame, answer, shown>>

MsFinished == shown = MaxShown /\ answer = -1 /\ UNCHANGED msVars

MsNext ==
  \/ GetVideoDelayWaits \/ GetVideoDelayRounds \/ GetVideoDelayShows \/ Sleep
  \/ \E late \in Lates : SleepsTooLong(late)
  \/ \E jump \in Jumps : \E end \in {frameLastPts - jump, frameLastPts + jump} :
       end >= 0 /\ UpdateAuioPts(end)
  \/ UpdateAuioPtsWithout(step)
  \/ MsFinished

MsSpec == MsInit /\ [][MsNext]_msVars

-----------------------------------------------------------------------------
MsTypeOK ==
  /\ now \in Nat /\ step \in FrameSteps
  /\ audioClock \in Int \cup {NaN} /\ videoClock \in Int \cup {NaN}
  /\ frameTimer \in 0 .. now /\ frameLastPts \in Nat
  /\ frameLastDuration \in 0 .. MaxFrame - 1
  /\ framePts \in Nat /\ stamped \in BOOLEAN
  /\ answer \in -1 .. Refresh
  /\ shown \in 0 .. MaxShown /\ calm \in 0 .. shown /\ upsets \in Nat

(***************************************************************************)
(* However far apart an upset leaves the clocks, and whichever of them is  *)
(* ahead, a player that comes on time has them within twice the largest    *)
(* threshold after a bounded number of frames that move them, and keeps    *)
(* them there, however many frames whose wait was rounded come in between; *)
(* unless they were left MaxFrame apart or more, which is never corrected, *)
(* or did not move for that long.                                          *)
(***************************************************************************)
SettlesInSync ==
  calm >= SettleTime /\ Diff # NaN => Abs(Diff) < 2 * SyncMax

=============================================================================
