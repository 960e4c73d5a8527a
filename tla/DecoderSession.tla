--------------------------- MODULE DecoderSession ---------------------------
(***************************************************************************)
(* The life of a MediaDecoder between Init and Clear, and where it starts  *)
(* to play: Open, SetStartPos and the filter in DecodeVideo and            *)
(* DecodeAudio (src/getmedia/FFModule/MediaSource/MediaDecoder.cpp).       *)
(*                                                                         *)
(* AVFormatContexts are numbered from 1; layout gives the kinds of their   *)
(* streams.  Without USE_NEW_DECODER a codec context is a part of its      *)
(* stream.  A pointer to one is the pair of the context's number and the   *)
(* stream's index.  One thread uses the object, every call is one action.  *)
(* Decode's threads and queues are the subject of MediaDecoder.            *)
(***************************************************************************)
EXTENDS Integers, Sequences

CONSTANTS
  Layouts,      \* the layouts of media: sequences of "video", "audio" and "other"
  MaxOpens,     \* bound: AVFormatContexts allocated
  MediaLength,  \* packets in a stream
  MaxPos        \* bound: argument of SetStartPos, and counts of frames

ASSUME SessionAssumption ==
  /\ Layouts \subseteq Seq({"video", "audio", "other"})
  /\ MaxOpens \in Nat /\ MediaLength \in Nat /\ MaxPos \in Nat

Kinds == {"video", "audio"}
Null == <<0, -1>>

VARIABLES
  decoderType,        \* VIDEO, AUDIO or STREAN
  layout, freed,      \* of all AVFormatContexts so far
  formatCtx,
  index,              \* VideoIndex, AudioIndex
  stream, codec,      \* VideoStream and VideoCodecCtx, AudioStream and AudioCodecCtx
  decoder,            \* the codec context of VDecoder and of ADecoder
  mediaPacket,
  startPos, frameCount,
  position, base,     \* packets read of the stream that counts, now and when
                      \* SetStartPos was called
  failed,             \* of SetStartPos's two seeks, those that failed
  played,             \* the packets decoded since SetStartPos or Open
  outcome,            \* "ok", or how the program fails: "crashed", "hangs"
  reopened            \* an Open has followed another without a Clear

media == <<layout, freed, formatCtx>>
handles == <<index, stream, codec, decoder>>
filter == <<startPos, frameCount, position, base, failed, played>>
dsVars == <<decoderType, media, handles, mediaPacket, filter, outcome, reopened>>

Nothing(value) == [k \in Kinds |-> value]

DsInit ==
  /\ decoderType \in {"VIDEO", "AUDIO", "STREAN"}
  /\ layout = <<>> /\ freed = {} /\ formatCtx = 0
  /\ index = Nothing(-1) /\ stream = Nothing(Null) /\ codec = Nothing(Null)
  /\ decoder = Nothing(Null)
  /\ mediaPacket = TRUE
  /\ startPos = 0 /\ frameCount = Nothing(0) /\ position = 0 /\ base = 0
  /\ failed = {} /\ played = {}
  /\ outcome = "ok" /\ reopened = FALSE

new == Len(layout) + 1

\* The kinds the type of decoder decodes.
Decoded == CASE decoderType = "VIDEO" -> {"video"}
             [] decoderType = "AUDIO" -> {"audio"}
             [] OTHER -> Kinds

-----------------------------------------------------------------------------
\* Either Open allocates a context, whatever formatCtx points to.
Allocates(l) ==
  /\ Len(layout) < MaxOpens
  /\ layout' = Append(layout, l)
  /\ reopened' = (reopened \/ formatCtx # 0)

\* avformat_open_input fails and frees the context, or
\* avformat_find_stream_info fails and leaves it.
OpenFails(l) ==
  /\ Allocates(l)
  /\ \/ formatCtx' = 0 /\ freed' = freed \cup {new}
     \/ formatCtx' = new /\ UNCHANGED freed
  /\ UNCHANGED <<decoderType, handles, mediaPacket, filter, outcome>>

\* The last stream of kind k, if there is one.
LastIndex(l, k, old) ==
  LET s == {i \in 0 .. Len(l) - 1 : l[i + 1] = k}
  IN  IF s = {} THEN old ELSE CHOOSE i \in s : \A j \in s : j <= i

\* FindAudio and FindVideo have an index that is no stream's.
FindsPastEnd(l, k) == index'[k] >= Len(l)

\* The indices are noted, FindAudio and FindVideo open the codecs in "opens",
\* and InitDecoder makes new decoders of the right kinds for these.
OpenFinds(l, opens) ==
  /\ Allocates(l)
  /\ formatCtx' = new
  /\ index' = [k \in Kinds |-> LastIndex(l, k, index[k])]
  /\ ~\E k \in Kinds : FindsPastEnd(l, k)
  /\ opens \subseteq {k \in Kinds : index'[k] # -1}
  /\ LET found == [k \in Kinds |-> IF index'[k] = -1 THEN Null ELSE <<new, index'[k]>>]
     IN  /\ stream' = [k \in Kinds |-> IF index'[k] = -1 THEN stream[k] ELSE found[k]]
         /\ codec' = [k \in Kinds |-> IF index'[k] = -1 THEN codec[k] ELSE found[k]]
         /\ decoder' = [k \in Kinds |-> IF k \in opens \cap Decoded THEN found[k] ELSE Null]
  /\ position' = 0 /\ played' = {}
  /\ UNCHANGED <<decoderType, freed, mediaPacket, startPos, frameCount, base, failed, outcome>>

\* An index of an earlier medium beyond the streams of this one, or a video
\* stream that no decoder is known for: VideoCodec is NULL and dereferenced.
OpenCrashes(l) ==
  /\ Allocates(l)
  /\ formatCtx' = new
  /\ index' = [k \in Kinds |-> LastIndex(l, k, index[k])]
  /\ \/ \E k \in Kinds : FindsPastEnd(l, k)
     \/ index'["video"] # -1
  /\ outcome' = "crashed"
  /\ UNCHANGED <<decoderType, freed, stream, codec, decoder, mediaPacket, filter>>

\* Faulty: the indices stay.
ClearDecoderButIndices ==
  /\ codec' = Nothing(Null) /\ decoder' = Nothing(Null)
  /\ freed' = freed \cup ({formatCtx} \ {0}) /\ formatCtx' = 0
  /\ reopened' = FALSE
  /\ UNCHANGED <<decoderType, layout, index, mediaPacket, stream, filter, outcome>>

\* Clear: Close, then CloseBuffer.  VideoStream and AudioStream keep pointing
\* into the context.
ClearDecoder ==
  /\ index' = Nothing(-1) /\ codec' = Nothing(Null) /\ decoder' = Nothing(Null)
  /\ freed' = freed \cup ({formatCtx} \ {0}) /\ formatCtx' = 0
  /\ mediaPacket' = FALSE
  /\ reopened' = FALSE
  /\ UNCHANGED <<decoderType, layout, stream, filter, outcome>>

\* Init, which a user must call again after Clear.  It frees nothing, so that
\* calling it at another time only loses what there was.
InitAgain ==
  /\ formatCtx = 0 /\ ~mediaPacket /\ mediaPacket' = TRUE
  /\ index' = Nothing(-1) /\ stream' = Nothing(Null) /\ codec' = Nothing(Null)
  /\ decoder' = Nothing(Null)
  /\ startPos' = 0 /\ frameCount' = Nothing(0)
  /\ UNCHANGED <<decoderType, media, position, base, failed, played, outcome,
                 reopened>>

-----------------------------------------------------------------------------
Counted == IF decoderType = "VIDEO" THEN "video" ELSE "audio"

\* SetStartPos(pos) reads the first packet of the stream that has a duration,
\* seeks a key frame before pos, reads the packet found there, counts from it and
\* seeks again.  A seek that fails is not noticed, and leaves the demuxer where it
\* was or further on.  The loops end when such a packet comes, and only then: if
\* there is none left the call hangs.
SetStartPos(pos) ==
  /\ formatCtx # 0 /\ mediaPacket
  /\ startPos' = pos /\ played' = {}
  /\ \/ pos = 0 /\ UNCHANGED <<frameCount, position, base, failed, outcome>>
     \/ /\ pos > 0 /\ outcome' = "hangs"
        /\ UNCHANGED <<frameCount, position, base, failed>>
     \/ /\ pos > 0 /\ index[Counted] # -1 /\ failed' \in SUBSET {1, 2}
        /\ \E first \in position .. MediaLength - 1, key \in 0 .. pos - 1 :
             /\ key < MediaLength /\ base' = first
             /\ \E second \in IF 1 \in failed' THEN first + 1 .. MediaLength - 1 ELSE {key} :
                  /\ frameCount' = [frameCount EXCEPT ![Counted] = second - first]
                  /\ position' \in IF 2 \in failed' THEN second + 1 .. MediaLength ELSE {key}
        /\ UNCHANGED outcome
  /\ UNCHANGED <<decoderType, media, handles, mediaPacket, reopened>>

\* Faulty: the count is tested before it is moved on.
FilteredLate(k) ==
  startPos > 0 /\ decoderType # "STREAN" /\ frameCount[Counted] > startPos

\* The filter, as frameCount moves on.
Filtered(k) ==
  startPos > 0 /\ decoderType # "STREAN" /\ frameCount'[Counted] > startPos

\* DecodeVideo or DecodeAudio of a packet of kind k, which is the next one of
\* its stream if that is the one that counts.
DecodeNext(k) ==
  /\ formatCtx # 0 /\ mediaPacket
  /\ index[k] # -1 /\ position < MediaLength /\ frameCount[k] < MaxPos
  /\ frameCount' = [frameCount EXCEPT ![k] = @ + 1]
  /\ position' = IF k = Counted THEN position + 1 ELSE position
  /\ played' = IF k = Counted /\ decoder[k] # Null /\ ~Filtered(k)
               THEN played \cup {position'} ELSE played
  /\ UNCHANGED <<decoderType, media, handles, mediaPacket, startPos, base, failed, outcome,
                 reopened>>

\* av_read_frame into a packet that CloseBuffer has freed.
DecodeCrashes ==
  /\ formatCtx # 0 /\ ~mediaPacket
  /\ outcome' = "crashed"
  /\ UNCHANGED <<decoderType, media, handles, mediaPacket, filter, reopened>>

DsStops == outcome # "ok" /\ UNCHANGED dsVars

DsNext ==
  \/ /\ outcome = "ok"
     /\ \/ \E l \in Layouts : \/ OpenFails(l) \/ OpenCrashes(l)
                              \/ \E opens \in SUBSET Kinds : OpenFinds(l, opens)
        \/ ClearDecoder \/ InitAgain
        \/ \E pos \in 0 .. MaxPos : SetStartPos(pos)
        \/ (\E k \in Kinds : DecodeNext(k)) \/ DecodeCrashes
  \/ DsStops

DsSpec == DsInit /\ [][DsNext]_dsVars

-----------------------------------------------------------------------------
DsTypeOK ==
  /\ freed \subseteq 1 .. Len(layout) /\ formatCtx \in 0 .. Len(layout)
  /\ \A k \in Kinds :
       /\ index[k] >= -1
       /\ {stream[k], codec[k], decoder[k]} \subseteq
            {Null} \cup {p \in (1 .. Len(layout)) \X Nat : p[2] < Len(layout[p[1]])}
  /\ position \in 0 .. MediaLength /\ played \subseteq 1 .. MediaLength
  /\ failed \subseteq {1, 2}
  /\ outcome \in {"ok", "crashed", "hangs"}

\* How far the packets may be ahead of their count.
Lead == IF failed = {} THEN base ELSE startPos - 2

(***************************************************************************)
(* No decoder holds the codec context of an AVFormatContext that was freed,*)
(* and unless the object was opened again without a Clear each holds one   *)
(* of the open medium and of its own kind.  After SetStartPos a decoder of *)
(* one kind plays nothing beyond that many packets from where it was: the  *)
(* filter keeps the front of the medium and drops the rest.  If the first  *)
(* seek failed it may play on to twice the argument; if the second did     *)
(* the count says nothing of the packets any more.                         *)
(***************************************************************************)
SessionSound ==
  /\ \A k \in Kinds : decoder[k] # Null =>
       /\ decoder[k][1] \notin freed
       /\ \/ reopened
          \/ decoder[k][1] = formatCtx /\ layout[formatCtx][decoder[k][2] + 1] = k
  /\ startPos > 0 /\ decoderType # "STREAN" /\ 2 \notin failed =>
       \A n \in played : n <= startPos + Lead

=============================================================================
