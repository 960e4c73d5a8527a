---------------------------- MODULE VideoConvert ----------------------------
(***************************************************************************)
(* The converter that MediaDecoder::SetConvert installs in VideoDecoder    *)
(* and that frames pass through on their way to the queue                  *)
(* (MediaSource/MediaDecoder.cpp, VideoDecoder.cpp, MediaConvert.cpp and   *)
(* MemManager/EvoLock.h).                                                  *)
(*                                                                         *)
(* The geometry of a picture is a function from its fields to numbers, 0   *)
(* standing for a field that is not set.  A converter is a number; those   *)
(* in DOMAIN converters have not been deleted.  SetConvert and Decode go   *)
(* statement by statement where they touch what they share.  The pixels    *)
(* are left out; of sws_scale matters how much of its arguments it reads   *)
(* and writes.                                                             *)
(***************************************************************************)
EXTENDS Integers, FiniteSets, Functions

CONSTANTS
  Setters,        \* threads that call SetConvert
  Fields,         \* width, height and format, or fewer
  Values,         \* what a field may be set to
  MaxConverters,  \* bound: converters made
  MaxChanges      \* bound: changes of the stream's geometry

ASSUME ConvertAssumption ==
  Values \subseteq Nat \ {0} /\ MaxConverters \in Nat /\ "decode" \notin Setters

None == 0
Geometry == [Fields -> Values]
Wishes == [Fields -> Values \cup {0}]

VARIABLES
  readers,                  \* threads that hold ConvertMutex for reading
  converters,               \* the MediaConverts that live, their srcInfo and desInfo
  nextConverter,
  Convert, attached,        \* MediaDecoder's pointer and VideoDecoder's
  codecInfo,                \* what GetVideoInfo returns
  setting,                  \* where each setter stands
  mine,                     \* its newConvert, then its tmpConvert
  decoding, picture, room,  \* where Decode stands, its frame and the frame it fills
  convert,                  \* the converter that ConvertFrame uses
  changes,
  crowded,                  \* two calls of SetConvert have overlapped
  clash,                    \* a SetConvert has overlapped this Decode
  misused, overrun          \* a dead converter was used or deleted; a buffer overrun

lockVars == <<readers, crowded, clash>>
shared == <<converters, nextConverter, Convert, attached>>
decodeVars == <<decoding, picture, room, convert>>
vcVars == <<lockVars, shared, codecInfo, setting, mine, decodeVars, changes, misused, overrun>>

\* GetDesInfo(info) and GetSrcInfo(info): the fields not set are info's.
Merge(own, info) == [k \in Fields |-> IF own[k] = 0 THEN info[k] ELSE own[k]]

VcInit ==
  /\ readers = {} /\ converters = <<>> /\ nextConverter = 1
  /\ Convert = None /\ attached = None
  /\ codecInfo \in Geometry
  /\ setting = [t \in Setters |-> "idle"] /\ mine = [t \in Setters |-> None]
  /\ decoding = "idle" /\ picture = codecInfo /\ room = codecInfo /\ convert = None
  /\ changes = 0
  /\ crowded = FALSE /\ clash = FALSE /\ misused = FALSE /\ overrun = FALSE

InUse == {t \in Setters : setting[t] # "idle"}

SetterGoes(t, from, to) == setting[t] = from /\ setting' = [setting EXCEPT ![t] = to]

\* delete c.
Deletes(c) ==
  /\ converters' = Restrict(converters, DOMAIN converters \ {c})
  /\ misused' = (misused \/ c \notin DOMAIN converters)

-----------------------------------------------------------------------------
\* SetConvert(info).  WriteLock takes the lock for reading: it excludes nobody.
SetConvertLocks(t) ==
  /\ SetterGoes(t, "idle", "decide")
  /\ readers' = readers \cup {t}
  /\ crowded' = (crowded \/ InUse # {})
  /\ clash' = (clash \/ decoding # "idle")
  /\ UNCHANGED <<shared, codecInfo, mine, decodeVars, changes, misused, overrun>>

\* Nothing to convert, a new converter, or none for want of memory.  des is what
\* DesInfo becomes: the wish of a later InitDecoder, which can wish for anything
\* anyway, so it is not kept.
SetConvertDecides(t, info) ==
  LET des == Merge(info, codecInfo)
  IN  /\ \/ /\ des = codecInfo
            /\ SetterGoes(t, "decide", "detach")
            /\ UNCHANGED <<converters, nextConverter, mine>>
         \/ /\ des # codecInfo /\ nextConverter <= MaxConverters
            /\ SetterGoes(t, "decide", "swap")
            /\ converters' = [c \in DOMAIN converters \cup {nextConverter} |->
                                IF c = nextConverter THEN [src |-> codecInfo, des |-> des]
                                                     ELSE converters[c]]
            /\ nextConverter' = nextConverter + 1
            /\ mine' = [mine EXCEPT ![t] = nextConverter]
         \/ /\ des # codecInfo
            /\ SetterGoes(t, "decide", "unlock")
            /\ UNCHANGED <<converters, nextConverter, mine>>
      /\ UNCHANGED <<lockVars, Convert, attached, codecInfo, decodeVars, changes, misused, overrun>>

SetConvertDetaches(t) ==
  /\ SetterGoes(t, "detach", IF Convert = None THEN "unlock" ELSE "delete")
  /\ attached' = None
  /\ UNCHANGED <<lockVars, converters, nextConverter, Convert, codecInfo, mine, decodeVars,
                 changes, misused, overrun>>

SetConvertDeletes(t) ==
  /\ SetterGoes(t, "delete", "unlock")
  /\ Convert # None => Deletes(Convert)
  /\ Convert = None => UNCHANGED <<converters, misused>>
  /\ Convert' = None
  /\ UNCHANGED <<lockVars, nextConverter, attached, codecInfo, mine, decodeVars, changes, overrun>>

SetConvertSwaps(t) ==
  /\ SetterGoes(t, "swap", "attach")
  /\ Convert' = mine[t] /\ mine' = [mine EXCEPT ![t] = Convert]
  /\ UNCHANGED <<lockVars, converters, nextConverter, attached, codecInfo, decodeVars, changes,
                 misused, overrun>>

\* Faulty: VideoDecoder keeps the old converter.
SetConvertAttachesNothing(t) ==
  /\ SetterGoes(t, "attach", "deleteOld")
  /\ UNCHANGED <<lockVars, shared, codecInfo, mine, decodeVars, changes, misused, overrun>>

SetConvertAttaches(t) ==
  /\ SetterGoes(t, "attach", "deleteOld")
  /\ attached' = Convert
  /\ UNCHANGED <<lockVars, converters, nextConverter, Convert, codecInfo, mine, decodeVars,
                 changes, misused, overrun>>

SetConvertDeletesOld(t) ==
  /\ SetterGoes(t, "deleteOld", "unlock")
  /\ mine[t] # None => Deletes(mine[t])
  /\ mine[t] = None => UNCHANGED <<converters, misused>>
  /\ mine' = [mine EXCEPT ![t] = None]
  /\ UNCHANGED <<lockVars, nextConverter, Convert, attached, codecInfo, decodeVars, changes, overrun>>

SetConvertUnlocks(t) ==
  /\ SetterGoes(t, "unlock", "idle")
  /\ readers' = readers \ {t}
  /\ UNCHANGED <<crowded, clash, shared, codecInfo, mine, decodeVars, changes, misused, overrun>>

SetConvert(t) ==
  \/ SetConvertLocks(t) \/ \E info \in Wishes : SetConvertDecides(t, info)
  \/ SetConvertDetaches(t) \/ SetConvertDeletes(t)
  \/ SetConvertSwaps(t) \/ SetConvertAttaches(t) \/ SetConvertDeletesOld(t)
  \/ SetConvertUnlocks(t)

-----------------------------------------------------------------------------
DecodeGoes(from, to) == decoding = from /\ decoding' = to

\* DecodeVideoPacket takes the lock and the codec hands out a frame, of a
\* geometry that the codec context has from now on.
DecodeLocksConvert ==
  /\ DecodeGoes("idle", "filter")
  /\ readers' = readers \cup {"decode"}
  /\ \/ codecInfo' = codecInfo /\ UNCHANGED changes
     \/ changes < MaxChanges /\ changes' = changes + 1 /\ codecInfo' \in Geometry
  /\ picture' = codecInfo' /\ clash' = (InUse # {})
  /\ UNCHANGED <<crowded, shared, setting, mine, room, convert, misused, overrun>>

\* The codec has no frame, or a P- or B-frame where an I-frame is awaited.
DecodeSkips ==
  /\ DecodeGoes("filter", "unlock")
  /\ UNCHANGED <<lockVars, shared, codecInfo, setting, mine, picture, room, convert, changes,
                 misused, overrun>>

\* Any frame but the skipped ones: is there a converter?
DecodeTestsConvert ==
  /\ DecodeGoes("filter", IF attached = None THEN "clone" ELSE "load")
  /\ UNCHANGED <<lockVars, shared, codecInfo, setting, mine, picture, room, convert, changes, misused, overrun>>

\* CloneFrame: a frame of the picture's own geometry; the copy may fail.
CloneFrame ==
  /\ DecodeGoes("clone", "unlock")
  /\ room' = picture
  /\ UNCHANGED <<lockVars, shared, codecInfo, setting, mine, picture, convert, changes, misused,
                 overrun>>

\* ConvertFrame loads the pointer again and asks it for the geometry.
ConvertFrameLoads ==
  /\ \/ attached \in DOMAIN converters
        /\ DecodeGoes("load", "scale")
        /\ convert' = attached
        /\ room' = Merge(converters[attached].des, picture)
        /\ UNCHANGED misused
     \/ attached \notin DOMAIN converters
        /\ DecodeGoes("load", "unlock")
        /\ misused' = TRUE
        /\ UNCHANGED <<convert, room>>
  /\ UNCHANGED <<lockVars, shared, codecInfo, setting, mine, picture, changes, overrun>>

\* sws_scale with converter c reads a picture of c's own geometry, where it has
\* one, and fills a frame of geometry room.
Scales(c) ==
  IF c \in DOMAIN converters
  THEN /\ overrun' = (overrun \/ Merge(converters[c].src, picture) # picture
                              \/ Merge(converters[c].des, picture) # room)
       /\ UNCHANGED misused
  ELSE misused' = TRUE /\ UNCHANGED overrun

\* Faulty: the pointer is loaded once more.
ConvertFrameScalesReloading ==
  /\ DecodeGoes("scale", "unlock")
  /\ Scales(attached)
  /\ UNCHANGED <<lockVars, shared, codecInfo, setting, mine, picture, room, convert, changes>>

ConvertFrameScales ==
  /\ DecodeGoes("scale", "unlock")
  /\ Scales(convert)
  /\ UNCHANGED <<lockVars, shared, codecInfo, setting, mine, picture, room, convert, changes>>

DecodeUnlocksConvert ==
  /\ DecodeGoes("unlock", "idle")
  /\ readers' = readers \ {"decode"}
  /\ picture' = codecInfo /\ room' = codecInfo /\ convert' = None /\ clash' = FALSE
  /\ UNCHANGED <<crowded, shared, codecInfo, setting, mine, changes, misused, overrun>>

Decode ==
  \/ DecodeLocksConvert \/ DecodeSkips \/ DecodeTestsConvert \/ CloneFrame
  \/ ConvertFrameLoads \/ ConvertFrameScales \/ DecodeUnlocksConvert

\* What the program does with freed memory is not followed any further.
VcCrashed == (misused \/ overrun) /\ UNCHANGED vcVars

VcNext ==
  \/ ~misused /\ ~overrun /\ ((\E t \in Setters : SetConvert(t)) \/ Decode)
  \/ VcCrashed

VcSpec == VcInit /\ [][VcNext]_vcVars

-----------------------------------------------------------------------------
VcTypeOK ==
  /\ readers \subseteq Setters \cup {"decode"}
  /\ DOMAIN converters \subseteq 1 .. nextConverter - 1
  /\ {Convert, attached, convert} \subseteq 0 .. nextConverter - 1
  /\ {codecInfo, picture, room} \subseteq Geometry
  /\ decoding \in {"idle", "filter", "clone", "load", "scale", "unlock"}
  /\ \A t \in Setters : t \in readers <=> setting[t] # "idle"

(***************************************************************************)
(* As long as no two calls of SetConvert have overlapped: a converter that *)
(* is gone is used only by a Decode that a SetConvert has overlapped, no   *)
(* converter is deleted twice, and between the calls the decoder has the   *)
(* converter that MediaDecoder has, the only one that lives.  A buffer is  *)
(* overrun only if the geometry of the stream has changed under a          *)
(* converter.                                                              *)
(***************************************************************************)
ConverterAlive ==
  ~crowded =>
    /\ misused => clash
    /\ InUse = {} => attached = Convert /\ DOMAIN converters = {Convert} \ {None}
    /\ overrun => changes > 0

=============================================================================
