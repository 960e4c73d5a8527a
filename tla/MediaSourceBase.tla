--------------------------- MODULE MediaSourceBase ---------------------------
(***************************************************************************)
(* src/getmedia/FFModule/MediaSource/MediaSourceBase.cpp: the wrapper      *)
(* around FFmpeg's demuxer, and who owns the codec contexts it hands out.  *)
(*                                                                         *)
(* Without USE_NEW_API (FFheader.h leaves it undefined) a codec context    *)
(* is a part of a stream, a stream is a part of an AVFormatContext, and    *)
(* both are gone when that is freed.  An Open allocates a new              *)
(* AVFormatContext without a look at the one that context_ points to.      *)
(*                                                                         *)
(* AVFormatContexts are numbered from 1 as they are allocated.  A pointer  *)
(* to a stream, or to its codec context, is the pair of that number and    *)
(* the stream's index.  One thread uses the object at a time, so every     *)
(* call is one action.                                                     *)
(***************************************************************************)
EXTENDS Integers, Sequences

CONSTANTS
  Types,         \* the values of AVMediaType but AVMEDIA_TYPE_UNKNOWN
  Layouts,       \* the layouts of media: the types of their streams, in order
  MaxContents,   \* MAX_CONTENT_COUNT, the length of codecContexts_
  MaxOpens       \* bound: AVFormatContexts allocated

ASSUME LayoutAssumption ==
  /\ Layouts \subseteq Seq(Types)
  /\ "unknown" \notin Types
  /\ MaxContents \in Nat
  /\ MaxOpens \in Nat

VARIABLES
  layout,         \* the layout of every AVFormatContext allocated so far
  freed,          \* those that were freed
  context_,       \* the open one, or 0
  packet_,        \* is there a packet to read into?
  codecType_, index_, stream_, codecContext_,
  codecContexts_, \* the cache of GetContext
  opened          \* successful Opens since the last Close

sourceVars == <<layout, freed, context_, packet_, codecType_, index_, stream_,
                codecContext_, codecContexts_, opened>>

Null == <<0, -1>>

Contexts == 1 .. Len(layout)
Slots == 0 .. MaxContents - 1
\* The pointers into some AVFormatContext, freed or not, and NULL.
Pointers ==
  {Null} \cup {p \in Nat \X Nat : /\ p[1] \in Contexts
                                 /\ p[2] < Len(layout[p[1]])}

SourceInit ==
  /\ layout = <<>> /\ freed = {} /\ context_ = 0
  /\ packet_ = FALSE
  /\ codecType_ = "unknown" /\ index_ = -1
  /\ stream_ = Null /\ codecContext_ = Null
  /\ codecContexts_ = [i \in Slots |-> Null]
  /\ opened = 0

\* The streams of a layout that have type t.
Matches(l, t) == {i \in 0 .. Len(l) - 1 : l[i + 1] = t}

IsFirst(i, s) == i \in s /\ \A j \in s : i <= j
IsLast(i, s) == i \in s /\ \A j \in s : j <= i

-----------------------------------------------------------------------------
(***************************************************************************)
(* Open.  "new" is the AVFormatContext it allocates, l what FFmpeg finds   *)
(* in the input.                                                           *)
(***************************************************************************)

new == Len(layout) + 1

Allocates(l) ==
  /\ Len(layout) < MaxOpens
  /\ layout' = Append(layout, l)

\* What Close does when context_ is c.
Releases(c) ==
  /\ context_' = 0
  /\ freed' = freed \cup ({c} \ {0})
  /\ codecContext_' = Null /\ stream_' = Null /\ index_' = -1
  /\ codecContexts_' = [i \in Slots |-> Null]
  /\ packet_' = FALSE
  /\ opened' = 0
  /\ UNCHANGED codecType_

\* avformat_open_input fails, which frees the new AVFormatContext.  The Open
\* that reads through a callback calls Close then.
OpenInputFails(l) ==
  /\ Allocates(l)
  /\ Releases(new)

\* The Open that reads a file only sets context_.
OpenFileFails(l) ==
  /\ Allocates(l)
  /\ context_' = 0
  /\ freed' = freed \cup {new}
  /\ UNCHANGED <<packet_, codecType_, index_, stream_, codecContext_,
                 codecContexts_, opened>>

\* avformat_find_stream_info fails and the new AVFormatContext is freed.  Of
\* the streams known before it (the first n) one may have been noted already.
OpenFindsNoInfo(l, t) ==
  /\ Allocates(l)
  /\ context_' = 0
  /\ freed' = freed \cup {new}
  /\ \E n \in 0 .. Len(l) :
       LET s == Matches(l, t) \cap 0 .. n - 1
       IN IF s = {} THEN UNCHANGED <<index_, stream_>>
          ELSE \E i \in s : /\ IsFirst(i, s)
                            /\ index_' = i /\ stream_' = <<new, i>>
  /\ UNCHANGED <<packet_, codecType_, codecContext_, codecContexts_, opened>>

\* Faulty: only what was noted of the stream is looked at.
LacksIndex(l, t) ==
  /\ t # "unknown"
  /\ Matches(l, t) = {}
  /\ index_ = -1 \/ stream_ = Null

\* There is no stream of the type asked for, and none of an earlier Open.
LacksStream(l, t) ==
  /\ t # "unknown"
  /\ Matches(l, t) = {}
  /\ index_ = -1 \/ stream_ = Null \/ codecContext_ = Null

\* That, or no decoder for it.
OpenFindsNoStream(l, t) ==
  /\ t # "unknown"
  /\ LacksStream(l, t) \/ Matches(l, t) # {}
  /\ Allocates(l)
  /\ Releases(new)

\* Faulty: an Open closes what is open, but not what was handed out of it.
OpenSucceedsClosing(l, t) ==
  /\ ~LacksStream(l, t)
  /\ Allocates(l)
  /\ context_' = new
  /\ packet_' = TRUE
  /\ codecType_' = t
  /\ freed' = freed \cup ({context_} \ {0})
  /\ IF t = "unknown" \/ Matches(l, t) = {}
     THEN UNCHANGED <<index_, stream_, codecContext_>>
     ELSE \E i \in Matches(l, t) :
            /\ IsLast(i, Matches(l, t))
            /\ index_' = i
            /\ stream_' = <<new, i>> /\ codecContext_' = <<new, i>>
  /\ opened' = opened + 1
  /\ UNCHANGED codecContexts_

\* The last stream of the type is taken.  With none at all, or no type asked
\* for, the fields keep what an earlier Open left.
OpenSucceeds(l, t) ==
  /\ ~LacksStream(l, t)
  /\ Allocates(l)
  /\ context_' = new
  /\ packet_' = TRUE
  /\ codecType_' = t
  /\ IF t = "unknown" \/ Matches(l, t) = {}
     THEN UNCHANGED <<index_, stream_, codecContext_>>
     ELSE \E i \in Matches(l, t) :
            /\ IsLast(i, Matches(l, t))
            /\ index_' = i
            /\ stream_' = <<new, i>> /\ codecContext_' = <<new, i>>
  /\ opened' = opened + 1
  /\ UNCHANGED <<freed, codecContexts_>>

OpenFails(l, t) ==
  OpenInputFails(l) \/ OpenFindsNoInfo(l, t) \/ OpenFindsNoStream(l, t)

-----------------------------------------------------------------------------
Close == Releases(context_) /\ UNCHANGED layout

(***************************************************************************)
(* GetIndex and GetContext, by a type or by an index.  A codec context is  *)
(* looked up once for every index and kept.                                *)
(***************************************************************************)

GetIndex(t) ==
  LET s == Matches(layout[context_], t)
  IN IF s = {} THEN -1 ELSE CHOOSE i \in s : IsFirst(i, s)

\* Faulty: one stream too many is let through.
GetContextPastEnd(i) ==
  IF context_ = 0 \/ i \notin 0 .. Len(layout[context_]) \/ i \notin Slots
  THEN Null
  ELSE IF codecContexts_[i] # Null THEN codecContexts_[i] ELSE <<context_, i>>

GetContext(i) ==
  IF context_ = 0 \/ i \notin 0 .. Len(layout[context_]) - 1 \/ i \notin Slots
  THEN Null
  ELSE IF codecContexts_[i] # Null THEN codecContexts_[i] ELSE <<context_, i>>

\* The cache after GetContext(i).
Caches(i) ==
  /\ codecContexts_' = IF i \in Slots /\ GetContext(i) # Null
                       THEN [codecContexts_ EXCEPT ![i] = GetContext(i)]
                       ELSE codecContexts_
  /\ UNCHANGED <<layout, freed, context_, packet_, codecType_, index_, stream_,
                 codecContext_, opened>>

(***************************************************************************)
(* ReadFrame, in both its forms, and ReadAllFrame hand on a packet of      *)
(* stream i, or drop it.                                                   *)
(***************************************************************************)
Delivers(i) ==
  /\ context_ # 0
  /\ i \in 0 .. Len(layout[context_]) - 1
  /\ codecType_ = "unknown" \/ i = index_

-----------------------------------------------------------------------------
(***************************************************************************)
(* A client that makes these calls in any order.                           *)
(***************************************************************************)

Open ==
  \E l \in Layouts :
    \/ OpenFileFails(l)
    \/ \E t \in Types \cup {"unknown"} : OpenFails(l, t) \/ OpenSucceeds(l, t)

SourceNext ==
  \/ Open
  \/ Close
  \/ context_ # 0 /\ \E i \in 0 .. Len(layout[context_]) : Caches(i)

SourceSpec == SourceInit /\ [][SourceNext]_sourceVars

-----------------------------------------------------------------------------
SourceTypeOK ==
  /\ layout \in Seq(Layouts)
  /\ freed \subseteq Contexts
  /\ context_ \in 0 .. Len(layout)
  /\ packet_ \in BOOLEAN
  /\ codecType_ \in Types \cup {"unknown"}
  /\ index_ \in Nat \cup {-1}
  /\ stream_ \in Pointers
  /\ codecContext_ \in Pointers
  /\ codecContexts_ \in [Slots -> Pointers]
  /\ opened \in Nat

Alive(p) == p = Null \/ p[1] \in Contexts \ freed

(***************************************************************************)
(* The codec contexts that the wrapper holds, and hands out, are alive,    *)
(* also after a reopen without Close and after an Open that failed half    *)
(* way.  What keeps them so is that an Open never frees the context it     *)
(* finds open: that one leaks.  (stream_ is not among them: an Open that   *)
(* fails in avformat_find_stream_info leaves it dangling.)                 *)
(***************************************************************************)
CodecsAlive ==
  /\ context_ \notin freed
  /\ Alive(codecContext_)
  /\ \A i \in Slots : Alive(codecContexts_[i])

(***************************************************************************)
(* After the first successful Open since a Close the wrapper reads the     *)
(* stream that was asked for, out of the context that is open, although    *)
(* failed Opens, which leave some of the fields behind, may have come      *)
(* before.  A second Open does not have to: see LacksStream.               *)
(***************************************************************************)
FirstOpenIsRight ==
  context_ # 0 /\ opened = 1 /\ codecType_ # "unknown"
    => /\ packet_
       /\ stream_ = <<context_, index_>>
       /\ codecContext_ = stream_
       /\ index_ \in Matches(layout[context_], codecType_)

=============================================================================
