---------------------------- MODULE EvoMediaSource ----------------------------
(***************************************************************************)
(* EvoMediaSource, src/getmedia/FFModule/MediaSource/MediaSource.cpp: one  *)
(* thread opens, reads and closes media with an H.264 stream, and asks for *)
(* its parameter sets.  FFmpeg is external.                                *)
(*                                                                         *)
(* A format context is named by the number of the Open that allocated it.  *)
(* Streams and codec contexts belong to it and are freed with it, so a     *)
(* pointer to one is the number of its context, 0 for NULL.                *)
(***************************************************************************)
EXTENDS Integers, Sequences, SequencesExt, FiniteSetsExt

CONSTANTS
  Medias,       \* the media: their streams' codecs, and the extradata of H.264
  Names,        \* lists of decoder names that SetVideoCodecName is given
  CodecOf,      \* the codec of each decoder that FFmpeg knows by name
  MaxOpens      \* bound: calls of Open

ASSUME EvoMediaAssumption ==
  /\ MaxOpens \in Nat /\ Names \subseteq Seq(STRING)
  /\ \A m \in Medias :
       /\ m = [codecs |-> m.codecs, extra |-> m.extra]
       /\ m.codecs \in Seq({c \in DOMAIN CodecOf : CodecOf[c] = c})
       /\ m.extra.form \in {"none", "annexb", "avcc"}
       /\ m.extra.form = "annexb" => m.extra.units \in Seq([type : Nat, code : Nat, size : Nat])

VARIABLES
  live,                             \* the contexts that are allocated
  context_, videoStream_, codecContext_, packet_,
  videoIndex_,
  sps, pps,                         \* what was copied: context, start and size
  VideoDecoderName, decoder,        \* names asked for, decoder taken
  opens, medium,                    \* calls of Open, what the last one opened
  refused,                          \* how the last Open failed, since Close
  crashed                           \* freed or missing memory was used

srcVars == <<live, context_, videoStream_, codecContext_, packet_, videoIndex_, sps, pps,
             VideoDecoderName, decoder, opens, medium, refused, crashed>>

NoSet == [from |-> 0, start |-> 0, size |-> 0]
NoMedium == [codecs |-> <<>>, extra |-> [form |-> "none"]]

SrcInit ==
  /\ live = {} /\ context_ = 0 /\ videoStream_ = 0 /\ codecContext_ = 0 /\ packet_ = 0
  /\ videoIndex_ = -1 /\ sps = NoSet /\ pps = NoSet
  /\ VideoDecoderName = <<>> /\ decoder = "none"
  /\ opens = 0 /\ medium = NoMedium /\ refused = "no" /\ crashed = FALSE

KindOf(codec) == IF codec \in {"h264", "hevc"} THEN "video" ELSE "audio"

\* The last stream of a kind is the one that is kept, 0 if there is none.
LastOfKind(m, kind) ==
  LET found == {i \in 1 .. Len(m.codecs) : KindOf(m.codecs[i]) = kind}
  IN  IF found = {} THEN 0 ELSE Max(found)

\* The first decoder asked for that there is for the codec, else FFmpeg's own.
GetBestDecoder(names, codec) ==
  LET fits == {i \in 1 .. Len(names) : names[i] \in DOMAIN CodecOf /\ CodecOf[names[i]] = codec}
  IN  IF fits = {} THEN codec ELSE names[Min(fits)]

-----------------------------------------------------------------------------
\* Extradata in Annex B form: units of a type, the length of the start code
\* before them, and their size.
UnitEnd(units, k) ==
  LET end[i \in 0 .. Len(units)] ==
        IF i = 0 THEN 0 ELSE end[i - 1] + units[i].code + units[i].size
  IN  end[k]

UnitStart(units, k) == UnitEnd(units, k) - units[k].size

ScanStart == [spsIndex |-> 0, spsSize |-> 0, ppsIndex |-> 0, ppsSize |-> 0, cur |-> 0]

\* The loop at the k-th start code.  A unit of another type is the end of the
\* current one, whose size is not taken.
Scan(units, s, k) ==
  LET start == UnitStart(units, k)
      code  == start - units[k].code
  IN CASE units[k].type = 7 ->
            [s EXCEPT !.spsIndex = start, !.cur = 1,
                      !.ppsSize = IF s.cur = 2 THEN code - s.ppsIndex ELSE @]
       [] units[k].type = 8 ->
            [s EXCEPT !.ppsIndex = start, !.cur = 2,
                      !.spsSize = IF s.cur = 1 THEN code - s.spsIndex ELSE @]
       [] OTHER -> [s EXCEPT !.cur = 0]

\* The loop as far as the k-th.
ScanTo(units, k) ==
  LET scan[i \in 0 .. Len(units)] ==
        IF i = 0 THEN ScanStart ELSE Scan(units, scan[i - 1], i)
  IN  scan[k]

\* Faulty: the unit that the extradata ends with has no size.
ScanAllButLast(units) == ScanTo(units, Len(units))

ScanAll(units) ==
  LET s == ScanTo(units, Len(units))
      size == UnitEnd(units, Len(units))
  IN  IF s.cur = 1 THEN [s EXCEPT !.spsSize = size - s.spsIndex]
      ELSE IF s.cur = 2 THEN [s EXCEPT !.ppsSize = size - s.ppsIndex] ELSE s

SetAt(context, start, size) ==
  IF size > 0 THEN [from |-> context, start |-> start, size |-> size] ELSE NoSet

\* Annex B: what the scan has found.
AnalysesAnnexb(context, units) ==
  LET s == ScanAll(units)
  IN  /\ sps' = SetAt(context, s.spsIndex, s.spsSize)
      /\ pps' = SetAt(context, s.ppsIndex, s.ppsSize)

\* avcC: the first unit of each type in its two lists, each unit after two bytes
\* of length.  Lengths of three bytes are refused before anything is freed; a
\* unit longer than the whole extradata ends the search, and what was found stays.
AnalysesAvcC(context, extra) ==
  LET units == extra.sps \o extra.pps
      Position(k) ==
        8 + (IF k > Len(extra.sps) THEN 1 ELSE 0)
          + FoldFunctionOnSet(+, 0, [i \in 1 .. Len(units) |-> units[i].size + 2], 1 .. k - 1)
      Reached(k) == \A j \in 1 .. k : units[j].size + 2 <= extra.bytes
      First(type) ==
        LET found == {k \in 1 .. Len(units) : units[k].type = type /\ Reached(k)}
        IN  IF found = {} THEN NoSet ELSE SetAt(context, Position(Min(found)), units[Min(found)].size)
  IN  IF extra.lengthSize = 3 THEN UNCHANGED <<sps, pps>>
      ELSE sps' = First(7) /\ pps' = First(8)

\* Extradata that is not there is read all the same.
AnalysisVideoPPSSPS(context, m) ==
  /\ m.extra.form = "none" => UNCHANGED <<sps, pps>>
  /\ m.extra.form = "annexb" => AnalysesAnnexb(context, m.extra.units)
  /\ m.extra.form = "avcc" => AnalysesAvcC(context, m.extra)

-----------------------------------------------------------------------------
\* Open allocates a context whatever it had; a context it had is lost.
Opens ==
  /\ ~crashed /\ opens < MaxOpens /\ opens' = opens + 1
  /\ UNCHANGED VideoDecoderName

SrcOpenFails ==
  /\ Opens
  /\ context_' = 0 /\ refused' = "open" /\ medium' = NoMedium
  /\ UNCHANGED <<live, videoStream_, codecContext_, packet_, videoIndex_, sps, pps, decoder, crashed>>

\* avformat_find_stream_info fails after the stream was remembered.
SrcFindFails(m, kind) ==
  /\ Opens
  /\ context_' = 0 /\ refused' = "find" /\ medium' = NoMedium
  /\ videoStream_' = IF LastOfKind(m, kind) = 0 THEN videoStream_ ELSE opens'
  /\ UNCHANGED <<live, codecContext_, packet_, videoIndex_, sps, pps, decoder, crashed>>

Wanted(m, kind) ==
  LET i == LastOfKind(m, kind) IN i # 0 /\ (kind = "video" => m.codecs[i] = "h264")

\* No stream of the kind, or a video that is not H.264.
SrcRefuses(m, kind) ==
  /\ Opens /\ ~Wanted(m, kind)
  /\ context_' = 0 /\ videoStream_' = 0 /\ refused' = "refused" /\ medium' = NoMedium
  /\ videoIndex_' = LastOfKind(m, kind) - 1
  /\ IF videoIndex_' = -1 THEN UNCHANGED <<codecContext_, decoder>>
     ELSE /\ codecContext_' = opens'
          /\ decoder' = GetBestDecoder(VideoDecoderName, m.codecs[videoIndex_' + 1])
  /\ UNCHANGED <<live, packet_, sps, pps, crashed>>

SrcSucceeds(m, kind) ==
  /\ Opens /\ Wanted(m, kind)
  /\ live' = live \cup {opens'}
  /\ context_' = opens' /\ videoStream_' = opens' /\ codecContext_' = opens' /\ packet_' = opens'
  /\ videoIndex_' = LastOfKind(m, kind) - 1 /\ refused' = "no"
  /\ medium' = [m EXCEPT !.extra = IF kind = "video" THEN @ ELSE [form |-> "other"]]
  /\ decoder' = GetBestDecoder(VideoDecoderName, m.codecs[videoIndex_' + 1])
  /\ crashed' = (kind = "video" /\ m.extra.form = "none")
  /\ IF kind = "video" THEN AnalysisVideoPPSSPS(opens', m) ELSE UNCHANGED <<sps, pps>>

\* The codec is closed before its context.  av_freep is given the packet and
\* not the pointer to it, and frees nothing.
Close ==
  /\ ~crashed
  /\ crashed' = (codecContext_ # 0 /\ codecContext_ \notin live)
  /\ codecContext_' = 0
  /\ live' = live \ {context_}
  /\ context_' = 0 /\ packet_' = 0 /\ videoIndex_' = -1 /\ videoStream_' = 0
  /\ sps' = NoSet /\ pps' = NoSet /\ medium' = NoMedium
  /\ refused' = IF crashed' THEN refused ELSE "no"
  /\ UNCHANGED <<VideoDecoderName, decoder, opens>>

SetVideoCodecName(names) ==
  /\ ~crashed /\ VideoDecoderName' = names
  /\ UNCHANGED <<live, context_, videoStream_, codecContext_, packet_, videoIndex_, sps, pps,
                 decoder, opens, medium, refused, crashed>>

\* ReadFrame reads past the packets of other streams, and asks the codec of the
\* kind of those of its own.  An error that is not the end is read past for ever.
ReadsFrame ==
  /\ ~crashed /\ context_ # 0
  /\ crashed' = ({context_, codecContext_, packet_} \ live # {})
  /\ UNCHANGED <<live, context_, videoStream_, codecContext_, packet_, videoIndex_, sps, pps,
                 VideoDecoderName, decoder, opens, medium, refused>>

\* GetWidth, GetHeight and GetExtData look at the codec context.
GetsCodec ==
  /\ ~crashed /\ codecContext_ # 0
  /\ crashed' = (codecContext_ \notin live)
  /\ UNCHANGED <<live, context_, videoStream_, codecContext_, packet_, videoIndex_, sps, pps,
                 VideoDecoderName, decoder, opens, medium, refused>>

\* GetFrameRate and GetFrameCount look at the stream.
GetsStream ==
  /\ ~crashed /\ videoStream_ # 0
  /\ crashed' = (videoStream_ \notin live)
  /\ UNCHANGED <<live, context_, videoStream_, codecContext_, packet_, videoIndex_, sps, pps,
                 VideoDecoderName, decoder, opens, medium, refused>>

\* After a use of freed memory nothing is known.
SrcRests == crashed /\ UNCHANGED srcVars

SrcNext ==
  \/ SrcOpenFails
  \/ \E m \in Medias, kind \in {"video", "audio"} :
       SrcFindFails(m, kind) \/ SrcRefuses(m, kind) \/ SrcSucceeds(m, kind)
  \/ Close \/ (\E names \in Names : SetVideoCodecName(names))
  \/ ReadsFrame \/ GetsCodec \/ GetsStream \/ SrcRests

SrcSpec == SrcInit /\ [][SrcNext]_srcVars

-----------------------------------------------------------------------------
SrcTypeOK ==
  /\ live \subseteq 1 .. MaxOpens
  /\ {context_, videoStream_, codecContext_, packet_} \subseteq 0 .. MaxOpens
  /\ opens \in 0 .. MaxOpens /\ videoIndex_ \in Int
  /\ {sps.from, pps.from} \subseteq 0 .. MaxOpens
  /\ refused \in {"no", "open", "find", "refused"}

\* The last unit of a type, which is looked for in the list as a whole.
LastUnit(units, type) ==
  LET found == {k \in 1 .. Len(units) : units[k].type = type}
  IN  IF found = {} THEN NoSet
      ELSE SetAt(context_, UnitStart(units, Max(found)), units[Max(found)].size)

\* Parameter sets are followed by parameter sets only.
OnlySetsFollow(units) ==
  \A k \in 1 .. Len(units) - 1 : units[k].type \in {7, 8} => units[k + 1].type \in {7, 8}

(***************************************************************************)
(* An open source reads the stream it should, from a context that lives.   *)
(* Freed memory is used only after an Open that failed and before Close,   *)
(* or in the Close after an Open that was refused, or when an H.264 stream *)
(* has no extradata.  The parameter sets of an Annex B stream are its last *)
(* ones, and of the medium that is open, unless other units follow them.   *)
(***************************************************************************)
SourceSound ==
  /\ context_ # 0 /\ ~crashed =>
       /\ {context_, videoStream_, codecContext_, packet_} = {context_} /\ context_ \in live
       /\ videoIndex_ + 1 \in 1 .. Len(medium.codecs)
       /\ CodecOf[decoder] = medium.codecs[videoIndex_ + 1]
  /\ ~crashed /\ codecContext_ \notin live \cup {0} => refused # "no"
  /\ crashed => refused # "no" \/ (medium.codecs # <<>> /\ medium.extra.form = "none")
  /\ ~crashed /\ videoStream_ \notin live \cup {0} => refused # "no"
  /\ context_ # 0 /\ medium.extra.form = "annexb" /\ OnlySetsFollow(medium.extra.units) =>
       /\ sps = LastUnit(medium.extra.units, 7)
       /\ pps = LastUnit(medium.extra.units, 8)

=============================================================================
