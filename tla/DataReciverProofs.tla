-------------------------- MODULE DataReciverProofs --------------------------
(***************************************************************************)
(* Theorems about DataReciver, from those about the wrapper's calls.       *)
(***************************************************************************)
EXTENDS DataReciver, MediaSourceBaseProofs, WellFoundedInduction

(***************************************************************************)
(* The inductive invariant.  Beside the properties:                        *)
(*   CacheInPlace  an entry of the cache is a codec context of its index;  *)
(*   HasContext    a medium is open while its callbacks run;               *)
(*   CodecIsUsed   codecContext_ is set exactly when there is a decoder;   *)
(*   IndexIsStale  until a decoder is opened, index_ is not of the medium  *)
(*                 that is open.                                           *)
(***************************************************************************)
CacheInPlace ==
  \A i \in Slots : codecContexts_[i] = Null \/ codecContexts_[i][2] = i

HasContext == thread \in {"close", "video", "audio", "read", "crashed"}
                => context_ \in Contexts

CodecIsUsed == codecContext = Null <=> decoders = {}

IndexIsStale ==
  thread \in {"close", "video", "audio", "read", "crashed"} /\ decoders = {}
    => indexOf # context_

Inv ==
  /\ SourceInv /\ TypeOK
  /\ OneLiveCodec /\ DecodesItsKind /\ CrashNeedsStaleIndex
  /\ CacheInPlace /\ HasContext /\ CodecIsUsed /\ IndexIsStale

-----------------------------------------------------------------------------
(***************************************************************************)
(* Every set of natural numbers but the empty one has a least element, so  *)
(* GetIndex finds a stream if there is one.                                *)
(***************************************************************************)
LEMMA HasFirst ==
  ASSUME NEW s \in SUBSET Nat, s # {}
  PROVE  \E i \in s : IsFirst(i, s)
  <1> DEFINE Less == {p \in Nat \X Nat : p[1] < p[2]}
  <1>1. IsWellFoundedOn(Less, Nat)
    BY NatLessThanWellFounded, Zenon DEF OpToRel
  <1>2. \A i, j \in Nat : j < i => <<j, i>> \in Less
    <2> TAKE i, j \in Nat
    <2>1. <<j, i>>[1] = j /\ <<j, i>>[2] = i /\ <<j, i>> \in Nat \X Nat
      OBVIOUS
    <2> QED  BY <2>1
  <1> HIDE DEF Less
  <1>3. PICK i \in s : \A j \in s : ~ (<<j, i>> \in Less)
    BY <1>1, WFMin
  <1>4. \A j \in s : ~ (j < i)
    BY <1>2, <1>3
  <1> QED  BY <1>4 DEF IsFirst

LEMMA IndexFound ==
  ASSUME SourceTypeOK, context_ \in Contexts, NEW t
  PROVE  \/ GetIndex(t) = -1
         \/ /\ GetIndex(t) \in 0 .. Len(layout[context_]) - 1
            /\ layout[context_][GetIndex(t) + 1] = t
  <1> DEFINE s == Matches(layout[context_], t)
  <1>1. layout[context_] \in Seq(Types)
    BY LayoutAssumption DEF SourceTypeOK, Contexts
  <1>2. s \in SUBSET Nat
    BY <1>1 DEF Matches
  <1>3. CASE s = {}
    BY <1>3 DEF GetIndex
  <1>4. CASE s # {}
    <2>1. \E i \in s : IsFirst(i, s)
      BY <1>2, <1>4, HasFirst
    <2>2. GetIndex(t) = CHOOSE i \in s : IsFirst(i, s)
      BY <1>4 DEF GetIndex
    <2>3. GetIndex(t) \in s
      <3> HIDE DEF s
      <3> QED  BY <2>1, <2>2
    <2> QED  BY <2>3 DEF Matches
  <1> QED  BY <1>3, <1>4

(***************************************************************************)
(* Pointers and live codec contexts stay so while the source is opened.    *)
(***************************************************************************)
LEMMA ReopenKeeps ==
  ASSUME SourceTypeOK, CodecsAlive, NEW l \in Layouts, Allocates(l),
         freed' = freed \/ freed' = freed \cup {new}
  PROVE  /\ Pointers \subseteq Pointers'
         /\ \A p : Alive(p) => Alive(p)'
         /\ \A c \in Contexts : layout'[c] = layout[c] /\ c # new
         /\ Contexts' = Contexts \cup {new}
         /\ Len(layout') = new /\ new = Len(layout) + 1 /\ Len(layout) \in Nat
         /\ new # 0
  <1>1. /\ \A c \in Contexts : layout'[c] = layout[c]
        /\ Contexts' = Contexts \cup {new} /\ new \notin Contexts
        /\ Len(layout') = new /\ new # 0
    BY Allocated
  <1>2. \A p : Alive(p) => Alive(p)'
    BY <1>1 DEF Alive
  <1>3. Len(layout) \in Nat
    BY DEF SourceTypeOK
  <1>4. Pointers \subseteq Pointers'
    BY PointersStay
  <1>5. new = Len(layout) + 1
    BY DEF new
  <1> HIDE DEF new
  <1> QED  BY <1>1, <1>2, <1>3, <1>4, <1>5

(***************************************************************************)
(* An Open for the player changes the cache to an empty one, or not.       *)
(***************************************************************************)
LEMMA FailingOpen ==
  ASSUME SourceInv, CacheInPlace, NEW l \in Layouts, OpenFails(l, "unknown")
  PROVE  /\ SourceInv' /\ CacheInPlace' /\ Allocates(l)
         /\ freed' = freed \cup {new}
  <1>1. CASE OpenInputFails(l)
    <2>1. Allocates(l) /\ Releases(new)
      BY <1>1 DEF OpenInputFails
    <2>2. freed' = freed \cup {new}
      BY <2>1, Allocated DEF Releases, SourceInv
    <2>3. SourceInv'
      BY <2>1, ReleasesNew
    <2>4. CacheInPlace'
      BY <2>1 DEF Releases, CacheInPlace, Slots
    <2> QED  BY <2>1, <2>2, <2>3, <2>4
  <1>2. CASE OpenFindsNoInfo(l, "unknown")
    <2>1. SourceInv'
      BY <1>2, InfoFails
    <2> QED  BY <1>2, <2>1 DEF OpenFindsNoInfo, CacheInPlace, Slots
  <1>3. ~OpenFindsNoStream(l, "unknown")
    BY DEF OpenFindsNoStream
  <1> QED  BY <1>1, <1>2, <1>3 DEF OpenFails

(***************************************************************************)
(* Looking up a codec context keeps the cache in place, and what is found  *)
(* has the index that was asked for.                                       *)
(***************************************************************************)
LEMMA LookUp ==
  ASSUME SourceInv, CacheInPlace, NEW i, Caches(i)
  PROVE  /\ SourceInv' /\ CacheInPlace'
         /\ GetContext(i) # Null => i \in Slots /\ GetContext(i)[2] = i
         /\ UNCHANGED <<layout, freed, context_>>
         /\ Pointers' = Pointers /\ Contexts' = Contexts
  <1>1. SourceInv'
    BY CacheKept
  <1>2. GetContext(i) # Null => i \in Slots /\ GetContext(i)[2] = i
    BY DEF GetContext, CacheInPlace
  <1>3. CacheInPlace'
    BY <1>2 DEF Caches, CacheInPlace, SourceInv, SourceTypeOK, Slots
  <1>4. UNCHANGED <<layout, freed, context_>>
    BY DEF Caches
  <1>5. Pointers' = Pointers /\ Contexts' = Contexts
    BY <1>4 DEF Pointers, Contexts
  <1> QED  BY <1>1, <1>2, <1>3, <1>4, <1>5

-----------------------------------------------------------------------------
IndexTyped ==
  /\ indexOf \in 0 .. Len(layout)
  /\ index \in IF indexOf = 0 THEN {-1} ELSE 0 .. Len(layout[indexOf]) - 1

Places == {"loop", "close", "video", "audio", "read", "crashed", "destroyed"}

(***************************************************************************)
(* Without a decoder most of the invariant is plain.                       *)
(***************************************************************************)
LEMMA EmptyHands ==
  ASSUME SourceInv', CacheInPlace', HasContext', IndexTyped', thread' \in Places,
         codecContext' = Null, decoders' = {}, active' = {},
         IndexIsStale', thread' # "crashed"
  PROVE  Inv'
  <1>1. Null \in Pointers'
    BY DEF Pointers
  <1>2. TypeOK'
    BY <1>1 DEF TypeOK, SourceInv, IndexTyped, Places
  <1>3. OneLiveCodec' /\ DecodesItsKind' /\ CrashNeedsStaleIndex' /\ CodecIsUsed'
    BY DEF OneLiveCodec, DecodesItsKind, CrashNeedsStaleIndex, CodecIsUsed
  <1> QED  BY <1>2, <1>3 DEF Inv

LEMMA MediaClosed ==
  ASSUME Inv, CloseMedia
  PROVE  /\ codecContext' = Null /\ decoders' = {} /\ active' = {}
         /\ index' = index /\ indexOf' = indexOf
  <1>1. active \subseteq {codecContext}
    BY DEF Inv, OneLiveCodec
  <1> QED  BY <1>1 DEF CloseMedia

LEMMA NoMedium ==
  ASSUME Inv, thread \in {"loop", "close", "video"}
  PROVE  /\ codecContext = Null /\ decoders = {} /\ active = {}
  <1>1. decoders = {}
    BY DEF Inv, OneLiveCodec
  <1> QED  BY <1>1 DEF Inv, OneLiveCodec, CodecIsUsed

LEMMA Typed ==
  ASSUME Inv
  PROVE  IndexTyped /\ SourceTypeOK /\ CodecsAlive /\ thread \in Places
  BY DEF Inv, TypeOK, IndexTyped, SourceInv, Places

(***************************************************************************)
(* The steps that open and close the wrapper.                              *)
(***************************************************************************)
LEMMA OpenMediaFailsKept ==
  ASSUME Inv, OpenMediaFails
  PROVE  Inv'
  <1>1. /\ codecContext' = Null /\ decoders' = {} /\ active' = {}
        /\ index' = index /\ indexOf' = indexOf
    BY MediaClosed DEF OpenMediaFails
  <1>2. thread' = "loop"
    BY DEF OpenMediaFails
  <1>3. HasContext' /\ IndexIsStale'
    BY <1>2 DEF HasContext, IndexIsStale
  <1>4. SourceInv /\ CacheInPlace
    BY DEF Inv
  <1>5. SourceInv' /\ CacheInPlace' /\ IndexTyped'
    <2>1. CASE UNCHANGED sourceVars
      <3>1. SourceInv'
        BY <1>4, <2>1, SourceInvUnchanged
      <3> QED  BY <1>1, <1>4, <2>1, <3>1, Typed
               DEF sourceVars, CacheInPlace, IndexTyped, Slots
    <2>2. ASSUME NEW l \in Layouts, OpenFails(l, "unknown")
          PROVE  SourceInv' /\ CacheInPlace' /\ IndexTyped'
      <3>1. /\ SourceInv' /\ CacheInPlace' /\ Allocates(l)
            /\ freed' = freed \cup {new}
        BY <1>4, <2>2, FailingOpen
      <3>2. /\ \A c \in Contexts : layout'[c] = layout[c]
            /\ Len(layout') = Len(layout) + 1 /\ Len(layout) \in Nat
        BY <3>1, ReopenKeeps, Typed
      <3>3. IndexTyped'
        BY <1>1, <3>2, Typed DEF IndexTyped, Contexts
      <3> QED  BY <3>1, <3>3
    <2> QED  BY <2>1, <2>2 DEF OpenMediaFails
  <1> QED  BY <1>1, <1>2, <1>3, <1>5, EmptyHands DEF Places

LEMMA OpenMediaKept ==
  ASSUME Inv, OpenMedia
  PROVE  Inv'
  <1>1. PICK l \in Layouts : OpenSucceeds(l, "unknown")
    BY DEF OpenMedia
  <1>2. SourceInv /\ CacheInPlace
    BY DEF Inv
  <1>3. SourceInv'
    BY <1>1, <1>2, Succeeds
  <1>4. Allocates(l) /\ context_' = new /\ freed' = freed
        /\ codecContexts_' = codecContexts_
    BY <1>1 DEF OpenSucceeds
  <1>5. /\ \A c \in Contexts : layout'[c] = layout[c]
        /\ Contexts' = Contexts \cup {new}
        /\ Len(layout') = Len(layout) + 1 /\ new = Len(layout) + 1
        /\ Len(layout) \in Nat
    BY <1>4, ReopenKeeps, Typed
  <1>6. thread = "loop" /\ thread' = "close" /\ UNCHANGED reciver
    BY DEF OpenMedia
  <1>7. codecContext' = Null /\ decoders' = {} /\ active' = {}
        /\ index' = index /\ indexOf' = indexOf
    BY <1>6, NoMedium DEF reciver
  <1>8. IndexTyped'
    BY <1>5, <1>7, Typed DEF IndexTyped, Contexts
  <1>9. HasContext' /\ CacheInPlace'
    BY <1>2, <1>4, <1>5 DEF HasContext, CacheInPlace, Slots
  <1>10. IndexIsStale'
    BY <1>4, <1>5, <1>7, Typed DEF IndexIsStale, IndexTyped
  <1> QED  BY <1>3, <1>6, <1>7, <1>8, <1>9, <1>10, EmptyHands DEF Places

LEMMA DestroyKept ==
  ASSUME Inv, Destroy
  PROVE  Inv'
  <1>1. SourceInv'
    BY Closes DEF Destroy, Inv
  <1>2. thread = "loop" /\ thread' = "destroyed" /\ UNCHANGED reciver
        /\ layout' = layout
    BY DEF Destroy, Close
  <1>3. codecContext' = Null /\ decoders' = {} /\ active' = {}
    BY <1>2, NoMedium DEF reciver
  <1>4. CacheInPlace'
    BY DEF Destroy, Close, Releases, CacheInPlace, Slots
  <1>5. HasContext' /\ IndexIsStale' /\ IndexTyped'
    BY <1>2, Typed DEF HasContext, IndexIsStale, IndexTyped, reciver
  <1> QED  BY <1>1, <1>2, <1>3, <1>4, <1>5, EmptyHands DEF Places

(***************************************************************************)
(* The steps that leave the wrapper alone.                                 *)
(***************************************************************************)
LEMMA SourceAlone ==
  ASSUME Inv, UNCHANGED sourceVars
  PROVE  SourceInv' /\ CacheInPlace'
  <1>1. SourceInv'
    BY SourceInvUnchanged DEF Inv
  <1> QED  BY <1>1 DEF Inv, sourceVars, CacheInPlace, Slots

LEMMA OnOpenMediaKept ==
  ASSUME Inv, OnOpenMedia
  PROVE  Inv'
  <1>1. /\ codecContext' = Null /\ decoders' = {} /\ active' = {}
        /\ index' = index /\ indexOf' = indexOf
    BY MediaClosed DEF OnOpenMedia
  <1>2. SourceInv' /\ CacheInPlace'
    BY SourceAlone DEF OnOpenMedia
  <1>3. thread = "close" /\ thread' = "video" /\ UNCHANGED sourceVars
    BY DEF OnOpenMedia
  <1>4. decoders = {}
    BY <1>3, NoMedium
  <1>5. HasContext' /\ IndexIsStale' /\ IndexTyped'
    BY <1>1, <1>3, <1>4, Typed
       DEF Inv, HasContext, IndexIsStale, IndexTyped, Contexts, sourceVars
  <1> QED  BY <1>1, <1>2, <1>3, <1>5, EmptyHands DEF Places

LEMMA OnEndMediaKept ==
  ASSUME Inv, OnEndMedia
  PROVE  Inv'
  <1>1. /\ codecContext' = Null /\ decoders' = {} /\ active' = {}
        /\ index' = index /\ indexOf' = indexOf
    BY MediaClosed DEF OnEndMedia
  <1>2. SourceInv' /\ CacheInPlace'
    BY SourceAlone DEF OnEndMedia
  <1>3. thread' = "loop" /\ layout' = layout
    BY DEF OnEndMedia, sourceVars
  <1>4. HasContext' /\ IndexIsStale' /\ IndexTyped'
    BY <1>1, <1>3, Typed DEF HasContext, IndexIsStale, IndexTyped
  <1> QED  BY <1>1, <1>2, <1>3, <1>4, EmptyHands DEF Places

(***************************************************************************)
(* The decoder of a medium.                                                *)
(***************************************************************************)
LEMMA DecoderOpened ==
  ASSUME Inv, NEW t \in {"video", "audio"}, OpensDecoder(t),
         context_ \in Contexts, decoders = {}, active = {},
         thread' \in {"audio", "read"}
  PROVE  Inv'
  <1> DEFINE i == GetIndex(t)
             c == GetContext(i)
  <1>1. SourceInv /\ CacheInPlace /\ SourceTypeOK
    BY DEF Inv, SourceInv
  <1>2. /\ c # Null /\ Caches(i) /\ active' = {c}
        /\ index' = i /\ indexOf' = context_
        /\ codecContext' = c /\ decoders' = {t}
    BY DEF OpensDecoder
  <1>3. c \in Pointers /\ Alive(c)
    BY <1>1, ContextFound
  <1>4. \/ i = -1
        \/ i \in 0 .. Len(layout[context_]) - 1 /\ layout[context_][i + 1] = t
    BY <1>1, IndexFound
  <1> HIDE DEF i, c
  <1>5. /\ SourceInv' /\ CacheInPlace' /\ UNCHANGED <<layout, freed, context_>>
        /\ Pointers' = Pointers /\ Contexts' = Contexts
    BY <1>1, <1>2, LookUp
  <1>6. i \in Slots /\ c[2] = i
    BY <1>1, <1>2, LookUp DEF c
  <1>7. i \in 0 .. Len(layout[context_]) - 1 /\ layout[context_][i + 1] = t
    BY <1>4, <1>6 DEF Slots
  <1>8. context_ \in 0 .. Len(layout) /\ context_ # 0
    BY <1>1 DEF SourceTypeOK, Contexts
  <1>9. TypeOK'
    <2>1. SourceTypeOK'
      BY <1>5 DEF SourceInv
    <2>2. index' \in IF indexOf' = 0 THEN {-1} ELSE 0 .. Len(layout'[indexOf']) - 1
      BY <1>2, <1>5, <1>7, <1>8
    <2>3. codecContext' \in Pointers' /\ active' \subseteq Pointers' \ {Null}
      BY <1>2, <1>3, <1>5
    <2> QED  BY <1>2, <1>5, <1>8, <2>1, <2>2, <2>3 DEF TypeOK
  <1>10. OneLiveCodec'
    <2>1. \A p \in active' : p # Null /\ Alive(p)'
      BY <1>2, <1>3, <1>5 DEF Alive
    <2> QED  BY <1>2, <2>1 DEF OneLiveCodec
  <1>11. DecodesItsKind'
    BY <1>2, <1>5, <1>6, <1>7 DEF DecodesItsKind
  <1>12. CrashNeedsStaleIndex' /\ HasContext' /\ CodecIsUsed' /\ IndexIsStale'
    BY <1>2, <1>5 DEF CrashNeedsStaleIndex, HasContext, CodecIsUsed, IndexIsStale
  <1> QED  BY <1>5, <1>9, <1>10, <1>11, <1>12 DEF Inv

LEMMA DecoderNotOpened ==
  ASSUME Inv, NEW t, OpensNoDecoder(t), decoders = {}, active = {},
         codecContext = Null, thread \in {"video", "audio"},
         thread' \in {"audio", "read"}
  PROVE  Inv'
  <1>1. SourceInv /\ CacheInPlace /\ HasContext /\ IndexIsStale
    BY DEF Inv
  <1>2. /\ SourceInv' /\ CacheInPlace' /\ UNCHANGED <<layout, freed, context_>>
        /\ Contexts' = Contexts
    BY <1>1, LookUp DEF OpensNoDecoder
  <1>3. UNCHANGED reciver
    BY DEF OpensNoDecoder
  <1>4. HasContext' /\ IndexIsStale' /\ IndexTyped'
    BY <1>1, <1>2, <1>3, Typed DEF HasContext, IndexIsStale, IndexTyped, reciver
  <1> QED  BY <1>2, <1>3, <1>4, EmptyHands DEF reciver, Places

LEMMA OpenVideoKept ==
  ASSUME Inv, OpenVideo
  PROVE  Inv'
  <1>1. thread = "video" /\ thread' = "audio"
    BY DEF OpenVideo
  <1>2. decoders = {} /\ active = {} /\ codecContext = Null
    BY <1>1, NoMedium
  <1>3. context_ \in Contexts
    BY <1>1 DEF Inv, HasContext
  <1> QED  BY <1>1, <1>2, <1>3, DecoderOpened, DecoderNotOpened DEF OpenVideo

(***************************************************************************)
(* A step of the thread alone.                                             *)
(***************************************************************************)
LEMMA ThreadAlone ==
  ASSUME Inv, thread \in {"audio", "read"}, thread' \in {"read", "crashed"},
         thread' = "crashed" => codecContext = Null /\ index >= 0,
         UNCHANGED <<sourceVars, reciver>>
  PROVE  Inv'
  <1>1. SourceInv' /\ CacheInPlace'
    BY SourceAlone
  <1>2. UNCHANGED <<layout, freed, context_, codecContext, decoders, index,
                    indexOf, active>>
    BY DEF sourceVars, reciver
  <1>3. Contexts' = Contexts /\ Pointers' = Pointers
    BY <1>2 DEF Contexts, Pointers
  <1>4. CodecIsUsed' /\ HasContext' /\ IndexIsStale'
    BY <1>2, <1>3 DEF Inv, CodecIsUsed, HasContext, IndexIsStale
  <1>5. TypeOK'
    BY <1>1, <1>2, <1>3 DEF Inv, TypeOK, SourceInv
  <1>6. CrashNeedsStaleIndex'
    BY <1>2 DEF Inv, CrashNeedsStaleIndex, CodecIsUsed, IndexIsStale
  <1>7. DecodesItsKind'
    BY <1>2 DEF Inv, DecodesItsKind
  <1>8. OneLiveCodec'
    <2>1. decoders # {} => thread' = "read"
      BY DEF Inv, CodecIsUsed
    <2>2. \A p \in active : p # Null /\ Alive(p)'
      BY <1>2, <1>3 DEF Inv, OneLiveCodec, Alive
    <2> QED  BY <1>2, <2>1, <2>2 DEF Inv, OneLiveCodec
  <1> QED  BY <1>1, <1>4, <1>5, <1>6, <1>7, <1>8 DEF Inv

LEMMA OpenAudioKept ==
  ASSUME Inv, OpenAudio
  PROVE  Inv'
  <1>1. thread = "audio" /\ thread' = "read"
    BY DEF OpenAudio
  <1>2. CASE codecContext # Null
    BY <1>1, <1>2, ThreadAlone DEF OpenAudio
  <1>3. CASE codecContext = Null
    <2>1. decoders = {} /\ active = {}
      BY <1>3 DEF Inv, CodecIsUsed, OneLiveCodec
    <2>2. context_ \in Contexts
      BY <1>1 DEF Inv, HasContext
    <2> QED  BY <1>1, <1>3, <2>1, <2>2, DecoderOpened, DecoderNotOpened
             DEF OpenAudio
  <1> QED  BY <1>2, <1>3

LEMMA OnMediaDataKept ==
  ASSUME Inv, OnMediaData
  PROVE  Inv'
  <1>1. PICK i \in 0 .. Len(layout[context_]) - 1 :
          thread' = IF i = index /\ codecContext = Null THEN "crashed" ELSE "read"
    BY DEF OnMediaData
  <1>2. thread' = "crashed" => codecContext = Null /\ index >= 0
    BY <1>1
  <1>3. thread' \in {"read", "crashed"}
    BY <1>1
  <1> QED  BY <1>2, <1>3, ThreadAlone DEF OnMediaData

LEMMA Invariance == Spec => []Inv
  <1>1. Init => Inv
    <2> SUFFICES ASSUME Init PROVE Inv
      OBVIOUS
    <2>1. SourceInv
      BY SourceInvInit DEF Init
    <2>2. CacheInPlace
      BY DEF Init, SourceInit, CacheInPlace
    <2>3. Null \in Pointers
      BY DEF Pointers
    <2>4. TypeOK
      BY <2>1, <2>3 DEF Init, SourceInit, TypeOK, SourceInv
    <2>5. /\ OneLiveCodec /\ DecodesItsKind /\ CrashNeedsStaleIndex
          /\ HasContext /\ CodecIsUsed /\ IndexIsStale
      BY DEF Init, OneLiveCodec, DecodesItsKind, CrashNeedsStaleIndex,
             HasContext, CodecIsUsed, IndexIsStale
    <2> QED  BY <2>1, <2>2, <2>4, <2>5 DEF Inv
  <1>2. Inv /\ [Next]_vars => Inv'
    <2> SUFFICES ASSUME Inv, [Next]_vars PROVE Inv'
      OBVIOUS
    <2>1. ASSUME UNCHANGED vars
          PROVE  Inv'
      <3>1. UNCHANGED <<sourceVars, reciver, thread>>
        BY <2>1 DEF vars
      <3>2. SourceInv' /\ CacheInPlace'
        BY <3>1, SourceAlone
      <3> QED  BY <3>1, <3>2 DEF Inv, TypeOK, SourceInv, OneLiveCodec,
                 DecodesItsKind, CrashNeedsStaleIndex, HasContext, CodecIsUsed,
                 IndexIsStale, sourceVars, reciver, Contexts, Pointers, Alive
    <2> QED  BY <2>1, OpenMediaFailsKept, OpenMediaKept, OnOpenMediaKept,
               OpenVideoKept, OpenAudioKept, OnMediaDataKept, OnEndMediaKept,
               DestroyKept DEF Next
  <1> QED  BY <1>1, <1>2, PTL DEF Spec

-----------------------------------------------------------------------------
(***************************************************************************)
(* The index_ that onMediaData compares with is an index into the medium   *)
(* it was read from, and every codec context exists.                       *)
(***************************************************************************)
THEOREM ReciverTyping == Spec => []TypeOK
  <1>1. Inv => TypeOK
    BY DEF Inv
  <1> QED  BY <1>1, Invariance, PTL

(***************************************************************************)
(* There is one open codec at a time, and it is not freed while it is,     *)
(* however often the wrapper is opened again.                              *)
(***************************************************************************)
THEOREM OneCodec == Spec => []OneLiveCodec
  <1>1. Inv => OneLiveCodec
    BY DEF Inv
  <1> QED  BY <1>1, Invariance, PTL

(***************************************************************************)
(* A decoder gets packets of its kind of stream only.                      *)
(***************************************************************************)
THEOREM OwnKind == Spec => []DecodesItsKind
  <1>1. Inv => DecodesItsKind
    BY DEF Inv
  <1> QED  BY <1>1, Invariance, PTL

(***************************************************************************)
(* The NULL codecContext_ is reached only with the index_ of an earlier    *)
(* medium.                                                                 *)
(***************************************************************************)
THEOREM StaleIndex == Spec => []CrashNeedsStaleIndex
  <1>1. Inv => CrashNeedsStaleIndex
    BY DEF Inv
  <1> QED  BY <1>1, Invariance, PTL

=============================================================================
