------------------------ MODULE MediaSourceBaseProofs ------------------------
(***************************************************************************)
(* Theorems about MediaSourceBase.                                         *)
(***************************************************************************)
EXTENDS MediaSourceBase, TLAPS

(***************************************************************************)
(* The inductive invariant.  An object on which no Open has succeeded      *)
(* since the last Close has no codec context: that is what makes a first   *)
(* Open look for the stream instead of accepting one of an earlier Open.   *)
(***************************************************************************)
NoneBefore == opened = 0 => codecContext_ = Null

SourceInv == SourceTypeOK /\ CodecsAlive /\ FirstOpenIsRight /\ NoneBefore

(***************************************************************************)
(* Allocating a context keeps the old ones, and every pointer into them.   *)
(***************************************************************************)
LEMMA Allocated ==
  ASSUME SourceTypeOK, NEW l \in Layouts, Allocates(l)
  PROVE  /\ layout' \in Seq(Layouts)
         /\ Len(layout') = new
         /\ layout'[new] = l
         /\ \A c \in Contexts : layout'[c] = layout[c]
         /\ Contexts' = Contexts \cup {new}
         /\ new \in Nat /\ new # 0 /\ new \notin Contexts
  BY DEF SourceTypeOK, Allocates, Contexts, new

LEMMA PointersStay ==
  ASSUME SourceTypeOK, NEW l \in Layouts, Allocates(l)
  PROVE  Pointers \subseteq Pointers'
  <1>1. /\ \A c \in Contexts : layout'[c] = layout[c]
        /\ Contexts' = Contexts \cup {new}
    BY Allocated
  <1> QED  BY <1>1 DEF Pointers

(***************************************************************************)
(* A stream of a new context is a pointer.                                 *)
(***************************************************************************)
LEMMA NewPointers ==
  ASSUME SourceTypeOK, NEW l \in Layouts, Allocates(l),
         NEW t, NEW i \in Matches(l, t)
  PROVE  i \in Nat /\ <<new, i>> \in Pointers'
  <1>1. /\ layout'[new] = l /\ Contexts' = Contexts \cup {new} /\ new \in Nat
    BY Allocated
  <1>2. Len(l) \in Nat
    BY LayoutAssumption
  <1>3. i \in Nat /\ i < Len(l)
    BY <1>2 DEF Matches
  <1>4. <<new, i>> \in Nat \X Nat
    BY <1>1, <1>3
  <1>5. <<new, i>>[1] = new /\ <<new, i>>[2] = i
    OBVIOUS
  <1> HIDE DEF new
  <1> QED  BY <1>1, <1>3, <1>4, <1>5 DEF Pointers

(***************************************************************************)
(* An Open that fails and closes.                                          *)
(***************************************************************************)
LEMMA ReleasesNew ==
  ASSUME SourceInv, NEW l \in Layouts, Allocates(l), Releases(new)
  PROVE  SourceInv'
  <1> USE DEF SourceInv
  <1>1. SourceTypeOK'
    <2>1. layout' \in Seq(Layouts) /\ Contexts' = Contexts \cup {new}
          /\ Len(layout') = new /\ new \in Nat
      BY Allocated
    <2>2. freed' \subseteq Contexts'
      BY <2>1 DEF Releases, SourceTypeOK
    <2>3. Null \in Pointers'
      BY DEF Pointers
    <2>4. codecContexts_' \in [Slots -> Pointers']
      BY <2>3 DEF Releases
    <2> HIDE DEF new
    <2>5. 0 \in 0 .. Len(layout')
      BY <2>1
    <2>6. index_' \in Nat \cup {-1} /\ packet_' \in BOOLEAN /\ opened' \in Nat
      BY DEF Releases
    <2>7. stream_' \in Pointers' /\ codecContext_' \in Pointers'
      BY <2>3 DEF Releases
    <2>8. context_' \in 0 .. Len(layout') /\ codecType_' \in Types \cup {"unknown"}
      BY <2>5 DEF Releases, SourceTypeOK
    <2> QED  BY <2>1, <2>2, <2>4, <2>6, <2>7, <2>8 DEF SourceTypeOK
  <1>2. CodecsAlive'
    <2>1. 0 \notin freed'
      BY Allocated DEF Releases, SourceTypeOK, Contexts
    <2> QED  BY <2>1 DEF Releases, CodecsAlive, Alive, Slots
  <1>3. FirstOpenIsRight' /\ NoneBefore'
    BY DEF Releases, FirstOpenIsRight, NoneBefore
  <1> QED  BY <1>1, <1>2, <1>3

(***************************************************************************)
(* An Open that frees what it allocated and leaves the codec contexts.     *)
(***************************************************************************)
LEMMA FreesNew ==
  ASSUME SourceInv, NEW l \in Layouts, Allocates(l),
         context_' = 0, freed' = freed \cup {new},
         UNCHANGED <<packet_, codecType_, codecContext_, codecContexts_, opened>>,
         index_' \in Nat \cup {-1}, stream_' \in Pointers'
  PROVE  SourceInv'
  <1> USE DEF SourceInv
  <1>a. layout' \in Seq(Layouts) /\ Contexts' = Contexts \cup {new}
        /\ Len(layout') = new /\ new \in Nat /\ new # 0 /\ new \notin Contexts
    BY Allocated
  <1>b. Pointers \subseteq Pointers'
    BY PointersStay
  <1> HIDE DEF new
  <1>1. SourceTypeOK'
    <2>1. freed' \subseteq Contexts'
      BY <1>a DEF SourceTypeOK
    <2>2. codecContexts_' \in [Slots -> Pointers']
      BY <1>b DEF SourceTypeOK, Slots
    <2> QED  BY <1>a, <1>b, <2>1, <2>2 DEF SourceTypeOK
  <1>2. CodecsAlive'
    <2>1. 0 \notin freed'
      BY <1>a DEF SourceTypeOK, Contexts
    <2>2. \A p : Alive(p) => Alive(p)'
      BY <1>a DEF Alive
    <2> QED  BY <2>1, <2>2 DEF CodecsAlive, Slots
  <1>3. FirstOpenIsRight' /\ NoneBefore'
    BY DEF FirstOpenIsRight, NoneBefore
  <1> QED  BY <1>1, <1>2, <1>3

LEMMA InfoFails ==
  ASSUME SourceInv, NEW l \in Layouts, NEW t, OpenFindsNoInfo(l, t)
  PROVE  SourceInv'
  <1>1. Allocates(l)
    BY DEF OpenFindsNoInfo
  <1>2. SourceTypeOK
    BY DEF SourceInv
  <1>3. index_' \in Nat \cup {-1} /\ stream_' \in Pointers'
    <2>1. PICK n \in 0 .. Len(l) :
            LET s == Matches(l, t) \cap 0 .. n - 1
            IN IF s = {} THEN UNCHANGED <<index_, stream_>>
               ELSE \E i \in s : /\ IsFirst(i, s)
                                 /\ index_' = i /\ stream_' = <<new, i>>
      BY DEF OpenFindsNoInfo
    <2>2. CASE UNCHANGED <<index_, stream_>>
      BY <1>1, <1>2, <2>2, PointersStay DEF SourceTypeOK
    <2>3. CASE \E i \in Matches(l, t) : index_' = i /\ stream_' = <<new, i>>
      BY <1>1, <1>2, <2>3, NewPointers
    <2> QED  BY <2>1, <2>2, <2>3
  <1> QED  BY <1>1, <1>3, FreesNew DEF OpenFindsNoInfo

(***************************************************************************)
(* A successful Open.                                                      *)
(***************************************************************************)
LEMMA Succeeds ==
  ASSUME SourceInv, NEW l \in Layouts, NEW t \in Types \cup {"unknown"},
         OpenSucceeds(l, t)
  PROVE  SourceInv'
  <1> USE DEF SourceInv
  <1>a. Allocates(l)
    BY DEF OpenSucceeds
  <1>b. layout' \in Seq(Layouts) /\ Contexts' = Contexts \cup {new}
        /\ Len(layout') = new /\ layout'[new] = l
        /\ new \in Nat /\ new # 0 /\ new \notin Contexts
    BY <1>a, Allocated
  <1>c. Pointers \subseteq Pointers'
    BY <1>a, PointersStay
  <1>d. \A i \in Matches(l, t) : i \in Nat /\ <<new, i>> \in Pointers'
    BY <1>a, NewPointers
  <1>e. context_' = new /\ packet_' = TRUE /\ codecType_' = t
        /\ opened' = opened + 1
        /\ freed' = freed /\ codecContexts_' = codecContexts_
    BY DEF OpenSucceeds
  <1>f. \/ UNCHANGED <<index_, stream_, codecContext_>>
        \/ \E i \in Matches(l, t) :
             index_' = i /\ stream_' = <<new, i>> /\ codecContext_' = <<new, i>>
    BY DEF OpenSucceeds
  <1> HIDE DEF new
  <1>1. SourceTypeOK'
    <2>1. freed' \subseteq Contexts'
      BY <1>b, <1>e DEF SourceTypeOK
    <2>2. codecContexts_' \in [Slots -> Pointers']
      BY <1>c, <1>e DEF SourceTypeOK, Slots
    <2>3. index_' \in Nat \cup {-1} /\ stream_' \in Pointers'
          /\ codecContext_' \in Pointers'
      BY <1>c, <1>d, <1>f DEF SourceTypeOK
    <2> QED  BY <1>b, <1>e, <2>1, <2>2, <2>3 DEF SourceTypeOK
  <1>2. CodecsAlive'
    <2>1. \A p : Alive(p) => Alive(p)'
      BY <1>b, <1>e DEF Alive
    <2>2. new \in Contexts' \ freed'
      BY <1>b, <1>e DEF SourceTypeOK
    <2>3. Alive(codecContext_)'
      BY <1>f, <2>1, <2>2 DEF CodecsAlive, Alive
    <2> QED  BY <1>e, <2>1, <2>2, <2>3 DEF CodecsAlive, Slots
  <1>3. NoneBefore'
    BY <1>e DEF NoneBefore, SourceTypeOK
  <1>4. ASSUME context_' # 0, opened' = 1, codecType_' # "unknown"
        PROVE  /\ packet_' /\ stream_' = <<context_, index_>>'
               /\ codecContext_' = stream_'
               /\ index_' \in Matches(layout[context_], codecType_)'
    <2>1. codecContext_ = Null
      BY <1>4, <1>e DEF NoneBefore, SourceTypeOK
    <2>2. t # "unknown" /\ Matches(l, t) # {}
      BY <1>4, <1>e, <2>1 DEF OpenSucceeds, LacksStream
    <2>3. PICK i \in Matches(l, t) :
            index_' = i /\ stream_' = <<new, i>> /\ codecContext_' = <<new, i>>
      BY <2>2 DEF OpenSucceeds, new
    <2>4. Matches(layout[context_], codecType_)' = Matches(l, t)
      BY <1>b, <1>e DEF Matches
    <2> QED  BY <1>e, <2>3, <2>4
  <1>5. FirstOpenIsRight'
    BY <1>4 DEF FirstOpenIsRight
  <1> QED  BY <1>1, <1>2, <1>3, <1>5

(***************************************************************************)
(* Close, and the cache.                                                   *)
(***************************************************************************)
LEMMA Closes ==
  ASSUME SourceInv, Close
  PROVE  SourceInv'
  <1> USE DEF SourceInv
  <1>1. Contexts' = Contexts /\ Pointers' = Pointers
    BY DEF Close, Contexts, Pointers
  <1>2. SourceTypeOK'
    <2>1. freed' \subseteq Contexts'
      BY <1>1 DEF Close, Releases, SourceTypeOK, Contexts
    <2>2. Null \in Pointers'
      BY DEF Pointers
    <2>3. codecContexts_' \in [Slots -> Pointers']
      BY <2>2 DEF Close, Releases
    <2>4. 0 \in 0 .. Len(layout')
      BY DEF SourceTypeOK, Close
    <2> QED  BY <2>1, <2>2, <2>3, <2>4 DEF Close, Releases, SourceTypeOK
  <1>3. CodecsAlive'
    BY DEF Close, Releases, CodecsAlive, Alive, Slots, SourceTypeOK, Contexts
  <1>4. FirstOpenIsRight' /\ NoneBefore'
    BY DEF Close, Releases, FirstOpenIsRight, NoneBefore
  <1> QED  BY <1>2, <1>3, <1>4

(***************************************************************************)
(* What GetContext returns is NULL or a live codec context of that index.  *)
(***************************************************************************)
LEMMA ContextFound ==
  ASSUME SourceInv, NEW i
  PROVE  GetContext(i) \in Pointers /\ Alive(GetContext(i))
  <1> USE DEF SourceInv
  <1>1. CASE GetContext(i) = Null
    BY <1>1 DEF Pointers, Alive
  <1>2. CASE i \in Slots /\ GetContext(i) = codecContexts_[i]
    BY <1>2 DEF SourceTypeOK, CodecsAlive
  <1>3. CASE /\ GetContext(i) = <<context_, i>>
             /\ context_ # 0 /\ i \in 0 .. Len(layout[context_]) - 1
    <2>1. context_ \in Contexts /\ context_ \in Nat
      BY <1>3 DEF SourceTypeOK, Contexts
    <2>2. layout[context_] \in Seq(Types)
      BY <2>1, LayoutAssumption DEF SourceTypeOK, Contexts
    <2>3. i \in Nat /\ i < Len(layout[context_])
      BY <1>3, <2>2
    <2>4. <<context_, i>> \in Nat \X Nat
      BY <2>1, <2>3
    <2> QED  BY <1>3, <2>1, <2>3, <2>4 DEF Pointers, Alive, CodecsAlive
  <1> QED  BY <1>1, <1>2, <1>3 DEF GetContext

LEMMA CacheKept ==
  ASSUME SourceInv, NEW i, Caches(i)
  PROVE  SourceInv'
  <1> USE DEF SourceInv
  <1>1. GetContext(i) \in Pointers /\ Alive(GetContext(i))
    BY ContextFound
  <1>2. codecContexts_' \in [Slots -> Pointers]
    BY <1>1 DEF Caches, SourceTypeOK
  <1>3. \A j \in Slots : Alive(codecContexts_'[j])
    BY <1>1 DEF Caches, SourceTypeOK, CodecsAlive
  <1>4. UNCHANGED <<layout, freed, context_, packet_, codecType_, index_,
                    stream_, codecContext_, opened>>
    BY DEF Caches
  <1>5. Contexts' = Contexts /\ Pointers' = Pointers
    BY <1>4 DEF Contexts, Pointers
  <1>6. SourceTypeOK'
    BY <1>2, <1>4, <1>5 DEF SourceTypeOK
  <1>7. CodecsAlive'
    BY <1>3, <1>4, <1>5 DEF CodecsAlive, Alive, Slots
  <1>8. FirstOpenIsRight' /\ NoneBefore'
    BY <1>4 DEF FirstOpenIsRight, NoneBefore, Matches
  <1> QED  BY <1>6, <1>7, <1>8

(***************************************************************************)
(* Every call keeps the invariant.                                         *)
(***************************************************************************)
LEMMA OpenKept ==
  ASSUME SourceInv, Open
  PROVE  SourceInv'
  <1>1. PICK l \in Layouts :
          \/ OpenFileFails(l)
          \/ \E t \in Types \cup {"unknown"} : OpenFails(l, t) \/ OpenSucceeds(l, t)
    BY DEF Open
  <1>2. CASE OpenFileFails(l)
    <2>1. Allocates(l)
      BY <1>2 DEF OpenFileFails
    <2>2. Pointers \subseteq Pointers'
      BY <2>1, PointersStay DEF SourceInv
    <2>3. index_' \in Nat \cup {-1} /\ stream_' \in Pointers'
      BY <1>2, <2>2 DEF OpenFileFails, SourceInv, SourceTypeOK
    <2> QED  BY <1>2, <2>1, <2>3, FreesNew DEF OpenFileFails
  <1>3. ASSUME NEW t \in Types \cup {"unknown"}, OpenFails(l, t)
        PROVE  SourceInv'
    BY <1>3, ReleasesNew, InfoFails
       DEF OpenFails, OpenInputFails, OpenFindsNoStream
  <1>4. ASSUME NEW t \in Types \cup {"unknown"}, OpenSucceeds(l, t)
        PROVE  SourceInv'
    BY <1>4, Succeeds
  <1> QED  BY <1>1, <1>2, <1>3, <1>4

LEMMA SourceInvInit ==
  ASSUME SourceInit
  PROVE  SourceInv
  <1>1. Null \in Pointers
    BY DEF Pointers
  <1>2. codecContexts_ \in [Slots -> Pointers]
    BY <1>1 DEF SourceInit
  <1>3. SourceTypeOK
    <2>1. layout \in Seq(Layouts) /\ context_ \in 0 .. Len(layout)
      BY DEF SourceInit
    <2>2. freed \subseteq Contexts /\ index_ \in Nat \cup {-1} /\ opened \in Nat
      BY DEF SourceInit
    <2>3. packet_ \in BOOLEAN /\ codecType_ \in Types \cup {"unknown"}
      BY DEF SourceInit
    <2>4. stream_ \in Pointers /\ codecContext_ \in Pointers
      BY <1>1 DEF SourceInit
    <2> QED  BY <1>2, <2>1, <2>2, <2>3, <2>4 DEF SourceTypeOK
  <1> QED  BY <1>3 DEF SourceInit, SourceInv, CodecsAlive, Alive, Slots,
                       FirstOpenIsRight, NoneBefore

LEMMA SourceInvUnchanged ==
  ASSUME SourceInv, UNCHANGED sourceVars
  PROVE  SourceInv'
  BY DEF SourceInv, sourceVars, SourceTypeOK, CodecsAlive, FirstOpenIsRight,
         NoneBefore, Contexts, Pointers, Alive, Matches, Slots

LEMMA SourceInvariance == SourceSpec => []SourceInv
  <1>1. ASSUME SourceInv, SourceNext
        PROVE  SourceInv'
    BY <1>1, OpenKept, Closes, CacheKept DEF SourceNext
  <1>2. SourceInv /\ [SourceNext]_sourceVars => SourceInv'
    BY <1>1, SourceInvUnchanged
  <1>3. SourceInit => SourceInv
    BY SourceInvInit
  <1> QED  BY <1>2, <1>3, PTL DEF SourceSpec

(***************************************************************************)
(* Every pointer the wrapper keeps points, or once pointed, to a stream    *)
(* that exists, whatever the calls of its client.                          *)
(***************************************************************************)
THEOREM SourceTyping == SourceSpec => []SourceTypeOK
  <1>1. SourceInv => SourceTypeOK
    BY DEF SourceInv
  <1> QED  BY <1>1, SourceInvariance, PTL

(***************************************************************************)
(* No codec context the wrapper holds or hands out was freed, for every    *)
(* set of layouts, length of the cache and order of calls.                 *)
(***************************************************************************)
THEOREM LiveCodecs == SourceSpec => []CodecsAlive
  <1>1. SourceInv => CodecsAlive
    BY DEF SourceInv
  <1> QED  BY <1>1, SourceInvariance, PTL

(***************************************************************************)
(* The first successful Open since a Close reads the stream asked for.     *)
(***************************************************************************)
THEOREM FirstOpen == SourceSpec => []FirstOpenIsRight
  <1>1. SourceInv => FirstOpenIsRight
    BY DEF SourceInv
  <1> QED  BY <1>1, SourceInvariance, PTL

=============================================================================
