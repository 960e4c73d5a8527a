----------------------------- MODULE DataReciver -----------------------------
(***************************************************************************)
(* The DataReciver of src/getmedia/getMedia.cpp on the playing thread of   *)
(* an InlineMediaSource: ThreadOpen opens the demuxer again and again, and *)
(* never closes it, and tells the DataReciver, which keeps a codec context *)
(* out of the wrapper's cache for as long as a medium lasts.               *)
(*                                                                         *)
(* One thread does all of this, so a callback is one action, or one for    *)
(* each part of onOpenMedia.  InlineMediaSource models how the bytes get   *)
(* there; here Open fails or finds any layout, and a medium may end at any *)
(* time.  What is written to the files is left out.                        *)
(***************************************************************************)
EXTENDS MediaSourceBase

VARIABLES
  thread,        \* what thread_play does next
  codecContext,  \* DataReciver::codecContext_
  decoders,      \* of "video" (decoder_) and "audio" (decoder_a) those that exist
  index,         \* DataReciver::index_
  indexOf,       \* the AVFormatContext it is an index into
  active         \* codec contexts that are open: avcodec_open2, avcodec_close

reciver == <<codecContext, decoders, index, indexOf, active>>
vars == <<sourceVars, thread, reciver>>

Init ==
  /\ SourceInit
  /\ thread = "loop"
  /\ codecContext = Null /\ decoders = {}
  /\ index = -1 /\ indexOf = 0
  /\ active = {}

-----------------------------------------------------------------------------
CloseMedia ==
  /\ active' = active \ {codecContext}
  /\ codecContext' = Null
  /\ decoders' = {}
  /\ UNCHANGED <<index, indexOf>>

\* Open fails, by itself or for want of memory, and onEndMedia is called.
OpenMediaFails ==
  /\ thread = "loop"
  /\ \/ \E l \in Layouts : OpenFails(l, "unknown")
     \/ UNCHANGED sourceVars
  /\ CloseMedia
  /\ UNCHANGED thread

OpenMedia ==
  /\ thread = "loop"
  /\ \E l \in Layouts : OpenSucceeds(l, "unknown")
  /\ thread' = "close"
  /\ UNCHANGED reciver

\* onOpenMedia: CloseMedia, OpenVideo, OpenAudio.
OnOpenMedia ==
  /\ thread = "close"
  /\ CloseMedia
  /\ thread' = "video"
  /\ UNCHANGED sourceVars

\* GetContext finds a codec context for t, and avcodec_open2 opens it.
OpensDecoder(t) ==
  LET c == GetContext(GetIndex(t))
  IN /\ c # Null
     /\ Caches(GetIndex(t))
     /\ active' = active \cup {c}
     /\ index' = GetIndex(t) /\ indexOf' = context_
     /\ codecContext' = c
     /\ decoders' = decoders \cup {t}

\* There is none, or it cannot be opened.
OpensNoDecoder(t) ==
  /\ Caches(GetIndex(t))
  /\ UNCHANGED reciver

\* Faulty: index_ is set before avcodec_open2 is seen to succeed.
OpenVideoIndexFirst ==
  /\ thread = "video"
  /\ \/ OpensDecoder("video")
     \/ /\ Caches(GetIndex("video"))
        /\ index' = GetIndex("video") /\ indexOf' = context_
        /\ UNCHANGED <<codecContext, decoders, active>>
  /\ thread' = "audio"

OpenVideo ==
  /\ thread = "video"
  /\ OpensDecoder("video") \/ OpensNoDecoder("video")
  /\ thread' = "audio"

\* Faulty: index_ is taken from the video.
OpenAudioAtVideo ==
  /\ thread = "audio"
  /\ IF codecContext # Null THEN UNCHANGED <<sourceVars, reciver>>
     ELSE LET c == GetContext(GetIndex("audio"))
          IN /\ c # Null /\ GetIndex("video") # -1
             /\ Caches(GetIndex("audio"))
             /\ active' = active \cup {c}
             /\ index' = GetIndex("video") /\ indexOf' = context_
             /\ codecContext' = c
             /\ decoders' = decoders \cup {"audio"}
  /\ thread' = "read"

OpenAudio ==
  /\ thread = "audio"
  /\ IF codecContext # Null THEN UNCHANGED <<sourceVars, reciver>>
     ELSE OpensDecoder("audio") \/ OpensNoDecoder("audio")
  /\ thread' = "read"

\* onMediaData is given a packet of stream i.  If that is the stream of index_
\* it is decoded, and then the time base of codecContext_ is read.
OnMediaData ==
  /\ thread = "read"
  /\ \E i \in 0 .. Len(layout[context_]) - 1 :
       /\ Delivers(i)
       /\ thread' = IF i = index /\ codecContext = Null THEN "crashed" ELSE "read"
  /\ UNCHANGED <<sourceVars, reciver>>

\* ReadFrame fails, or stop is set, and onEndMedia is called.
OnEndMedia ==
  /\ thread = "read"
  /\ CloseMedia
  /\ thread' = "loop"
  /\ UNCHANGED sourceVars

\* The thread exits, and later the wrapper's destructor closes it.
Destroy ==
  /\ thread = "loop"
  /\ Close
  /\ thread' = "destroyed"
  /\ UNCHANGED reciver

Next ==
  \/ OpenMediaFails \/ OpenMedia
  \/ OnOpenMedia \/ OpenVideo \/ OpenAudio
  \/ OnMediaData \/ OnEndMedia \/ Destroy

Spec == Init /\ [][Next]_vars

-----------------------------------------------------------------------------
TypeOK ==
  /\ SourceTypeOK
  /\ thread \in {"loop", "close", "video", "audio", "read", "crashed",
                "destroyed"}
  /\ codecContext \in Pointers
  /\ decoders \subseteq {"video", "audio"}
  /\ indexOf \in 0 .. Len(layout)
  /\ index \in IF indexOf = 0 THEN {-1} ELSE 0 .. Len(layout[indexOf]) - 1
  /\ active \subseteq Pointers \ {Null}

(***************************************************************************)
(* Every codec that avcodec_open2 opened belongs to the one decoder there  *)
(* is, and is alive: none is forgotten by a second one, none outlives its  *)
(* medium, and none is used or closed after it was freed, although the     *)
(* wrapper is opened again and again and its Close frees what the cache    *)
(* has handed out.                                                         *)
(***************************************************************************)
OneLiveCodec ==
  /\ active = IF decoders = {} THEN {} ELSE {codecContext}
  /\ \A p \in active : p # Null /\ Alive(p)
  /\ \A s, t \in decoders : s = t
  /\ decoders # {} => thread \in {"audio", "read"}

(***************************************************************************)
(* A packet that reaches a decoder is of the decoder's kind of stream.  So *)
(* is the codec context it is decoded with, which may come from an earlier *)
(* medium, if that one was laid out alike.                                 *)
(***************************************************************************)
DecodesItsKind ==
  \A t \in decoders :
    LET l == layout[codecContext[1]]
    IN /\ codecContext[2] = index
       /\ layout[context_][index + 1] = t
       /\ l = layout[context_] => l[index + 1] = t

(***************************************************************************)
(* onMediaData reads through codecContext_ when it is NULL only after a    *)
(* medium of which nothing could be decoded has followed one of which      *)
(* something could: then index_ is still that of the earlier one.          *)
(***************************************************************************)
CrashNeedsStaleIndex ==
  thread = "crashed" => index >= 0 /\ indexOf # context_

=============================================================================
