---------------------------- MODULE PlayerProofs ----------------------------
(***************************************************************************)
(* Theorems about the parts of the player: the session of the decoders,    *)
(* the converter of the pictures, the sound's way to the device and the    *)
(* synchronisation of the clocks, for any number of setters, media, frames *)
(* and calls, and whatever the thresholds are.                             *)
(***************************************************************************)
EXTENDS MCPlayer, FiniteSetTheorems, SequenceTheorems, TLAPS

-----------------------------------------------------------------------------
\* A nonempty set of numbers up to a bound has a greatest: of the sets of the
\* elements above one element a smallest exists, and it is empty.
LEMMA GreatestExists ==
  ASSUME NEW n \in Int, NEW S \in SUBSET (0 .. n), S # {}
  PROVE  \E m \in S : \A j \in S : j <= m
<1> DEFINE above(i) == {j \in S : j > i}
           family == {above(i) : i \in S}
<1>1. IsFiniteSet(S)
  <2>1. IsFiniteSet(0 .. n)
    BY FS_Interval
  <2> QED BY <2>1, FS_Subset
<1>2. family \subseteq FiniteSubsetsOf(S)
  <2>1. \A i \in S : above(i) \in SUBSET S /\ IsFiniteSet(above(i))
    BY <1>1, FS_Subset
  <2> QED BY <2>1 DEF FiniteSubsetsOf
<1>3. family # {}
  OBVIOUS
<1>4. IsWellFoundedOn(StrictSubsetOrdering(S), FiniteSubsetsOf(S))
  BY FS_StrictSubsetOrderingWellFounded
<1>5. PICK A \in family : \A B \in family : ~(<<B, A>> \in StrictSubsetOrdering(S))
  <2> HIDE DEF family
  <2> QED BY <1>2, <1>3, <1>4, WFMin
<1>6. PICK m \in S : A = above(m)
  BY <1>5
<1>7. ASSUME NEW j \in S, j > m PROVE FALSE
  <2>1. above(j) \in family
    OBVIOUS
  <2>0. S \subseteq Int
    OBVIOUS
  <2>2. above(j) \subseteq above(m) /\ j \in above(m) /\ j \notin above(j)
    <3>1. j \in Int /\ m \in Int
      BY <2>0
    <3>2. \A i \in S : i > j => i > m
      BY <1>7, <2>0, <3>1
    <3>3. ~(j > j)
      BY <3>1
    <3> QED BY <1>7, <3>2, <3>3
  <2>3. above(j) \subseteq S /\ above(m) \subseteq S
    OBVIOUS
  <2>4. <<above(j), above(m)>> \in StrictSubsetOrdering(S)
    <3> HIDE DEF above
    <3> QED BY <2>2, <2>3 DEF StrictSubsetOrdering
  <2> QED BY <2>1, <2>4, <1>5, <1>6
<1> QED
  <2>1. \A j \in S : j \in Int /\ m \in Int
    OBVIOUS
  <2> QED BY <1>7, <2>1

-----------------------------------------------------------------------------
(***************************************************************************)
(* DecoderSession.  The count of frames starts from where SetStartPos came *)
(* from and moves with the packets, so it is behind them by no more than   *)
(* Lead, which takes a failed first seek into account; the decoders and    *)
(* the indices of an object that was not opened twice are those of the     *)
(* open medium, and there are none when there is no medium.                *)
(***************************************************************************)

Streams == {p \in (1 .. Len(layout)) \X Nat : p[2] < Len(layout[p[1]])}

DsShape ==
  /\ decoderType \in {"VIDEO", "AUDIO", "STREAN"}
  /\ layout \in Seq(Layouts)
  /\ index \in [Kinds -> Int] /\ frameCount \in [Kinds -> Int]
  /\ {stream, codec, decoder} \subseteq [Kinds -> Streams \cup {Null}]
  /\ startPos \in Nat /\ base \in Nat
  /\ reopened \in BOOLEAN

\* What the code relies on while Open and Clear alternate.
OneMedium ==
  ~reopened =>
    \A k \in Kinds :
      /\ decoder[k] # Null =>
           formatCtx # 0 /\ decoder[k][1] = formatCtx /\ layout[formatCtx][decoder[k][2] + 1] = k
      /\ formatCtx = 0 => index[k] = -1

LiveDecoders == \A k \in Kinds : decoder[k] # Null => decoder[k][1] \notin freed

CountLeads ==
  startPos > 0 /\ outcome = "ok" /\ 2 \notin failed => position <= frameCount[Counted] + Lead

PlayedInFront ==
  startPos > 0 /\ decoderType # "STREAN" /\ 2 \notin failed =>
    \A n \in played : n <= startPos + Lead

DsInv == DsTypeOK /\ DsShape /\ OneMedium /\ LiveDecoders /\ CountLeads /\ PlayedInFront

LEMMA SessionInit ==
  ASSUME DsInit PROVE DsInv
<1> USE DEF DsInit, media, Nothing
<1>1. DsShape
  <2>1. layout \in Seq(Layouts) /\ startPos \in Nat /\ base \in Nat
    OBVIOUS
  <2>2. index \in [Kinds -> Int] /\ frameCount \in [Kinds -> Int]
    OBVIOUS
  <2>3. {stream, codec, decoder} \subseteq [Kinds -> Streams \cup {Null}]
    OBVIOUS
  <2> QED BY <2>1, <2>2, <2>3 DEF DsShape
<1>2. DsTypeOK
  BY SessionAssumption DEF DsTypeOK, Kinds, Null
<1>3. OneMedium /\ LiveDecoders /\ CountLeads /\ PlayedInFront
  BY DEF OneMedium, LiveDecoders, CountLeads, PlayedInFront, Kinds, Null, Counted, Lead
<1> QED BY <1>1, <1>2, <1>3 DEF DsInv

\* LastIndex(l, k, old) is the index of a stream of kind k, or old.
LEMMA LastIndexFinds ==
  ASSUME NEW l \in Seq({"video", "audio", "other"}), NEW k, NEW old
  PROVE  \/ LastIndex(l, k, old) \in 0 .. Len(l) - 1 /\ l[LastIndex(l, k, old) + 1] = k
         \/ LastIndex(l, k, old) = old
<1> DEFINE s == {i \in 0 .. Len(l) - 1 : l[i + 1] = k}
<1>1. CASE s = {}
  BY <1>1 DEF LastIndex
<1>2. CASE s # {}
  <2>1. Len(l) - 1 \in Int /\ s \in SUBSET (0 .. Len(l) - 1)
    OBVIOUS
  <2>2. \E m \in s : \A j \in s : j <= m
    <3> HIDE DEF s
    <3> QED BY <1>2, <2>1, GreatestExists
  <2>3. LastIndex(l, k, old) = CHOOSE i \in s : \A j \in s : j <= i
    BY <1>2 DEF LastIndex
  <2>4. LastIndex(l, k, old) \in s
    <3> HIDE DEF s
    <3> QED BY <2>2, <2>3
  <2> QED BY <2>4
<1> QED BY <1>1, <1>2

-----------------------------------------------------------------------------
\* A new medium leaves the streams of the others what they were.
LEMMA LayoutGrows ==
  ASSUME DsShape, NEW l \in Layouts, layout' = Append(layout, l)
  PROVE  /\ l \in Seq({"video", "audio", "other"}) /\ layout' \in Seq(Layouts)
         /\ Len(layout) \in Nat /\ new = Len(layout) + 1 /\ Len(layout') = new
         /\ \A i \in 1 .. Len(layout) : layout'[i] = layout[i]
         /\ layout'[new] = l
         /\ Streams \subseteq Streams'
         /\ \A i \in 0 .. Len(l) - 1 : <<new, i>> \in Streams'
<1>1. l \in Seq({"video", "audio", "other"})
  BY SessionAssumption
<1>2. /\ layout' \in Seq(Layouts) /\ Len(layout) \in Nat
      /\ new = Len(layout) + 1 /\ Len(layout') = new
      /\ \A i \in 1 .. Len(layout) : layout'[i] = layout[i]
      /\ layout'[new] = l
  BY DEF DsShape, new
<1>3. Streams \subseteq Streams'
  <2> SUFFICES ASSUME NEW p \in Streams PROVE p \in Streams'
    OBVIOUS
  <2>1. p \in (1 .. Len(layout)) \X Nat /\ p[2] < Len(layout[p[1]])
    BY DEF Streams
  <2>2. p \in (1 .. Len(layout')) \X Nat /\ layout'[p[1]] = layout[p[1]]
    BY <1>2, <2>1
  <2> QED BY <2>1, <2>2 DEF Streams
<1>4. \A i \in 0 .. Len(l) - 1 : <<new, i>> \in Streams'
  <2> SUFFICES ASSUME NEW i \in 0 .. Len(l) - 1 PROVE <<new, i>> \in Streams'
    OBVIOUS
  <2>1. Len(l) \in Nat /\ i \in Nat /\ i < Len(l)
    BY <1>1
  <2>2. <<new, i>> \in (1 .. Len(layout')) \X Nat
    BY <1>2, <2>1
  <2> QED BY <1>2, <2>1, <2>2 DEF Streams
<1> QED BY <1>1, <1>2, <1>3, <1>4

\* What a pointer to a stream tells.
LEMMA StreamIsOfMedium ==
  ASSUME NEW p \in Streams PROVE p # Null /\ p[1] \in 1 .. Len(layout) /\ p[2] \in Nat
BY DEF Streams, Null

\* Every Open keeps what the kinds' handles are: the old ones, or those of
\* streams of the new medium.
LEMMA OpenKeepsShape ==
  ASSUME DsInv, NEW l \in Layouts, Allocates(l), UNCHANGED decoderType,
         UNCHANGED <<startPos, frameCount, base>>, index' \in [Kinds -> Int],
         {stream', codec', decoder'} \subseteq [Kinds -> Streams' \cup {Null}]
  PROVE  DsShape'
<1>1. layout' \in Seq(Layouts) /\ reopened' \in BOOLEAN
  BY LayoutGrows DEF DsInv, Allocates, DsShape
<1> QED BY <1>1 DEF DsInv, DsShape

LEMMA OpenFailsKeeps ==
  ASSUME DsInv, NEW l \in Layouts, OpenFails(l) PROVE DsInv'
<1>1. Allocates(l) /\ layout' = Append(layout, l)
  BY DEF OpenFails, Allocates
<1>2. UNCHANGED <<decoderType, index, stream, codec, decoder>>
      /\ UNCHANGED <<startPos, frameCount, position, base, failed, played>> /\ UNCHANGED outcome
  BY DEF OpenFails, handles, filter
<1>3. /\ Len(layout) \in Nat /\ new = Len(layout) + 1 /\ Len(layout') = new
      /\ Streams \subseteq Streams'
      /\ \A i \in 1 .. Len(layout) : layout'[i] = layout[i]
  BY <1>1, LayoutGrows DEF DsInv
<1>4. \/ formatCtx' = 0 /\ freed' = freed \cup {new}
      \/ formatCtx' = new /\ freed' = freed
  BY DEF OpenFails
<1>5. DsShape'
  <2>1. {stream', codec', decoder'} \subseteq [Kinds -> Streams' \cup {Null}]
    BY <1>2, <1>3 DEF DsInv, DsShape
  <2>2. index' \in [Kinds -> Int]
    BY <1>2 DEF DsInv, DsShape
  <2>3. UNCHANGED decoderType /\ UNCHANGED <<startPos, frameCount, base>>
    BY <1>2
  <2> QED BY <1>1, <2>1, <2>2, <2>3, OpenKeepsShape
<1>6. freed' \subseteq 1 .. new /\ formatCtx' \in 0 .. new
  <2>1. freed \subseteq 1 .. Len(layout)
    BY DEF DsInv, DsTypeOK
  <2>2. freed \subseteq 1 .. new /\ new \in 1 .. new
    BY <1>3, <2>1
  <2>3. freed' = freed \/ freed' = freed \cup {new}
    BY <1>4
  <2>4. freed' \subseteq 1 .. new
    BY <2>2, <2>3
  <2>5. 0 \in 0 .. new /\ new \in 0 .. new
    BY <1>3
  <2> QED BY <1>4, <2>4, <2>5
<1>7. DsTypeOK'
  BY <1>2, <1>3, <1>5, <1>6 DEF DsInv, DsTypeOK, DsShape, Streams
<1>8. \A k \in Kinds : decoder[k] # Null =>
        decoder[k][1] \in 1 .. Len(layout) /\ decoder[k][1] # new
  BY <1>3, StreamIsOfMedium DEF DsInv, DsShape
<1>9. LiveDecoders'
  BY <1>2, <1>4, <1>8 DEF DsInv, LiveDecoders
<1>10. OneMedium'
  <2> SUFFICES ASSUME ~reopened'
               PROVE  \A k \in Kinds : decoder[k] = Null /\ index[k] = -1
    BY <1>2 DEF OneMedium
  <2>1. formatCtx = 0 /\ ~reopened
    BY <1>1 DEF Allocates
  <2> QED BY <2>1 DEF DsInv, OneMedium
<1>11. CountLeads' /\ PlayedInFront'
  BY <1>2 DEF DsInv, CountLeads, PlayedInFront, Counted, Lead
<1> QED BY <1>5, <1>7, <1>9, <1>10, <1>11 DEF DsInv

LEMMA OpenCrashesKeeps ==
  ASSUME DsInv, NEW l \in Layouts, OpenCrashes(l) PROVE DsInv'
<1>1. Allocates(l) /\ layout' = Append(layout, l) /\ formatCtx' = new
  BY DEF OpenCrashes, Allocates
<1>2. UNCHANGED <<decoderType, freed, stream, codec, decoder>>
      /\ UNCHANGED <<startPos, frameCount, position, base, failed, played>> /\ outcome' = "crashed"
  BY DEF OpenCrashes, filter
<1>3. /\ l \in Seq({"video", "audio", "other"})
      /\ Len(layout) \in Nat /\ new = Len(layout) + 1 /\ Len(layout') = new
      /\ Streams \subseteq Streams'
      /\ \A i \in 1 .. Len(layout) : layout'[i] = layout[i]
  BY <1>1, LayoutGrows DEF DsInv
<1>4. index' \in [Kinds -> Int] /\ \A k \in Kinds : index'[k] >= -1
  <2>1. index' = [k \in Kinds |-> LastIndex(l, k, index[k])]
    BY DEF OpenCrashes
  <2>2. ASSUME NEW k \in Kinds PROVE index'[k] \in Int /\ index'[k] >= -1
    <3>1. index[k] \in Int /\ index[k] >= -1
      BY DEF DsInv, DsShape, DsTypeOK
    <3>2. index'[k] = LastIndex(l, k, index[k])
      BY <2>1
    <3> QED BY <1>3, <3>1, <3>2, LastIndexFinds
  <2> QED BY <2>1, <2>2
<1>5. DsShape'
  <2>1. {stream', codec', decoder'} \subseteq [Kinds -> Streams' \cup {Null}]
    BY <1>2, <1>3 DEF DsInv, DsShape
  <2> QED BY <1>1, <1>2, <1>4, <2>1, OpenKeepsShape
<1>6. freed' \subseteq 1 .. new /\ formatCtx' \in 0 .. new
  BY <1>1, <1>2, <1>3 DEF DsInv, DsTypeOK
<1>7. DsTypeOK'
  BY <1>2, <1>3, <1>4, <1>5, <1>6, SMTT(20) DEF DsInv, DsTypeOK, DsShape, Streams
<1>8. LiveDecoders'
  BY <1>2 DEF DsInv, LiveDecoders
<1>9. OneMedium'
  <2> SUFFICES ASSUME ~reopened' PROVE \A k \in Kinds : decoder[k] = Null
    BY <1>1, <1>2, <1>3 DEF OneMedium
  <2>1. formatCtx = 0 /\ ~reopened
    BY <1>1 DEF Allocates
  <2> QED BY <2>1 DEF DsInv, OneMedium
<1>10. CountLeads' /\ PlayedInFront'
  BY <1>2 DEF DsInv, CountLeads, PlayedInFront, Counted, Lead
<1> QED BY <1>5, <1>7, <1>8, <1>9, <1>10 DEF DsInv

LEMMA OpenFindsKeeps ==
  ASSUME DsInv, NEW l \in Layouts, NEW opens \in SUBSET Kinds, OpenFinds(l, opens) PROVE DsInv'
<1>1. Allocates(l) /\ layout' = Append(layout, l) /\ formatCtx' = new
  BY DEF OpenFinds, Allocates
<1>2. /\ UNCHANGED <<decoderType, freed, startPos, frameCount, base, failed, outcome>>
      /\ position' = 0 /\ played' = {}
  BY DEF OpenFinds
<1>3. /\ l \in Seq({"video", "audio", "other"})
      /\ Len(layout) \in Nat /\ new = Len(layout) + 1 /\ Len(layout') = new
      /\ layout'[new] = l
      /\ Streams \subseteq Streams'
      /\ \A i \in 1 .. Len(layout) : layout'[i] = layout[i]
      /\ \A i \in 0 .. Len(l) - 1 : <<new, i>> \in Streams'
  BY <1>1, LayoutGrows DEF DsInv
<1>4. index' = [k \in Kinds |-> LastIndex(l, k, index[k])]
  BY DEF OpenFinds
<1>5. ASSUME NEW k \in Kinds
      PROVE  /\ index'[k] \in -1 .. Len(l) - 1
             /\ index[k] = -1 /\ index'[k] # -1 => l[index'[k] + 1] = k
  <2>1. index[k] \in Int /\ index[k] >= -1
    BY DEF DsInv, DsShape, DsTypeOK
  <2>2. index'[k] = LastIndex(l, k, index[k])
    BY <1>4
  <2>3. ~(index'[k] >= Len(l)) /\ Len(l) \in Nat
    BY <1>3 DEF OpenFinds, FindsPastEnd
  <2>4. \/ index'[k] \in 0 .. Len(l) - 1 /\ l[index'[k] + 1] = k
        \/ index'[k] = index[k]
    BY <1>3, <2>2, LastIndexFinds
  <2>5. index'[k] >= -1
    BY <2>1, <2>3, <2>4
  <2>6. index'[k] \in Int
    BY <2>1, <2>3, <2>4
  <2> QED BY <2>3, <2>4, <2>5, <2>6
<1> DEFINE found(k) == IF index'[k] = -1 THEN Null ELSE <<new, index'[k]>>
<1>6. /\ stream' = [k \in Kinds |-> IF index'[k] = -1 THEN stream[k] ELSE found(k)]
      /\ codec' = [k \in Kinds |-> IF index'[k] = -1 THEN codec[k] ELSE found(k)]
      /\ decoder' = [k \in Kinds |-> IF k \in opens \cap Decoded THEN found(k) ELSE Null]
  BY DEF OpenFinds
<1>7. \A k \in Kinds : found(k) \in Streams' \cup {Null}
  BY <1>3, <1>5
<1>8. {stream', codec', decoder'} \subseteq [Kinds -> Streams' \cup {Null}]
  <2>1. stream \in [Kinds -> Streams' \cup {Null}] /\ codec \in [Kinds -> Streams' \cup {Null}]
    BY <1>3 DEF DsInv, DsShape
  <2> HIDE DEF found
  <2> QED BY <1>6, <1>7, <2>1
<1>9. index' \in [Kinds -> Int] /\ \A k \in Kinds : index'[k] >= -1
  <2>1. \A k \in Kinds : index'[k] \in Int /\ index'[k] >= -1
    BY <1>3, <1>5
  <2> QED BY <1>4, <2>1
<1>10. DsShape'
  BY <1>1, <1>2, <1>8, <1>9, OpenKeepsShape
<1>11. freed' \subseteq 1 .. new /\ formatCtx' \in 0 .. new /\ new \notin freed
  BY <1>1, <1>2, <1>3 DEF DsInv, DsTypeOK
<1>12. DsTypeOK'
  <2>1. position' \in 0 .. MediaLength /\ played' \subseteq 1 .. MediaLength
    BY <1>2, SessionAssumption
  <2> QED BY <1>2, <1>3, <1>9, <1>10, <1>11, <2>1, SMTT(20) DEF DsInv, DsTypeOK, DsShape, Streams
<1>13. \A k \in Kinds : decoder'[k] # Null =>
         decoder'[k] = <<new, index'[k]>> /\ index'[k] # -1
  BY <1>6
<1>14. LiveDecoders'
  BY <1>2, <1>11, <1>13 DEF LiveDecoders
<1>15. OneMedium'
  <2>1. ASSUME ~reopened', NEW k \in Kinds, decoder'[k] # Null
        PROVE  layout'[new][decoder'[k][2] + 1] = k
    <3>1. formatCtx = 0 /\ ~reopened
      BY <1>1, <2>1 DEF Allocates
    <3>2. index[k] = -1
      BY <3>1 DEF DsInv, OneMedium
    <3>3. decoder'[k][2] = index'[k] /\ index'[k] # -1
      BY <1>13, <2>1
    <3> QED BY <1>3, <1>5, <3>2, <3>3
  <2>2. new # 0
    BY <1>3
  <2>3. \A k \in Kinds : decoder'[k] # Null => decoder'[k][1] = new
    BY <1>13
  <2> QED
    <3> HIDE DEF found, new
    <3> QED BY <1>1, <2>1, <2>2, <2>3 DEF OneMedium
<1>16. CountLeads'
  <2>1. ASSUME startPos > 0, outcome = "ok", 2 \notin failed PROVE 0 <= frameCount[Counted] + Lead
    <3>1. position <= frameCount[Counted] + Lead
      BY <2>1 DEF DsInv, CountLeads
    <3>2. position \in Nat /\ Lead \in Int /\ frameCount[Counted] \in Int
      BY SessionAssumption DEF DsInv, DsTypeOK, DsShape, Counted, Kinds, Lead
    <3> QED BY <3>1, <3>2
  <2> QED BY <1>2, <2>1 DEF CountLeads, Counted, Lead
<1>17. PlayedInFront'
  BY <1>2 DEF PlayedInFront
<1> QED BY <1>10, <1>12, <1>14, <1>15, <1>16, <1>17 DEF DsInv

-----------------------------------------------------------------------------
LEMMA ClearKeeps ==
  ASSUME DsInv, ClearDecoder PROVE DsInv'
<1>1. /\ index' = [k \in Kinds |-> -1] /\ codec' = [k \in Kinds |-> Null]
      /\ decoder' = [k \in Kinds |-> Null]
      /\ freed' = freed \cup ({formatCtx} \ {0}) /\ formatCtx' = 0 /\ reopened' = FALSE
      /\ UNCHANGED <<decoderType, layout, stream, outcome>>
      /\ UNCHANGED <<startPos, frameCount, position, base, failed, played>>
  BY DEF ClearDecoder, Nothing, filter
<1>2. Streams' = Streams
  BY <1>1 DEF Streams
<1>3. index' \in [Kinds -> Int] /\ \A k \in Kinds : index'[k] = -1
  BY <1>1
<1>4. {stream', codec', decoder'} \subseteq [Kinds -> Streams' \cup {Null}]
  BY <1>1, <1>2 DEF DsInv, DsShape
<1>5. DsShape'
  BY <1>1, <1>3, <1>4 DEF DsInv, DsShape
<1>6. Len(layout) \in Nat
  BY DEF DsInv, DsShape
<1>7. freed' \subseteq 1 .. Len(layout) /\ formatCtx' \in 0 .. Len(layout)
  <2>1. freed \subseteq 1 .. Len(layout) /\ {formatCtx} \ {0} \subseteq 1 .. Len(layout)
    BY <1>6 DEF DsInv, DsTypeOK
  <2>2. freed' = freed \cup ({formatCtx} \ {0}) /\ formatCtx' = 0
    BY <1>1
  <2>3. freed' \subseteq 1 .. Len(layout)
    BY <2>1, <2>2
  <2> QED BY <1>6, <2>2, <2>3
<1>8. DsTypeOK'
  BY <1>1, <1>3, <1>4, <1>7 DEF DsInv, DsTypeOK, Streams
<1>9. OneMedium' /\ LiveDecoders'
  BY <1>1, <1>3 DEF OneMedium, LiveDecoders
<1>10. CountLeads' /\ PlayedInFront'
  BY <1>1 DEF DsInv, CountLeads, PlayedInFront, Counted, Lead
<1> QED BY <1>5, <1>8, <1>9, <1>10 DEF DsInv

LEMMA InitAgainKeeps ==
  ASSUME DsInv, InitAgain PROVE DsInv'
<1>1. /\ index' = [k \in Kinds |-> -1] /\ stream' = [k \in Kinds |-> Null]
      /\ codec' = [k \in Kinds |-> Null] /\ decoder' = [k \in Kinds |-> Null]
      /\ startPos' = 0 /\ frameCount' = [k \in Kinds |-> 0]
      /\ UNCHANGED <<decoderType, layout, freed, formatCtx>>
      /\ UNCHANGED <<position, base, failed, played, outcome, reopened>>
  BY DEF InitAgain, Nothing, media
<1>2. /\ index' \in [Kinds -> Int] /\ frameCount' \in [Kinds -> Int]
      /\ \A k \in Kinds : index'[k] = -1
  BY <1>1
<1>3. {stream', codec', decoder'} \subseteq [Kinds -> Streams' \cup {Null}]
  BY <1>1
<1>4. DsShape'
  BY <1>1, <1>2, <1>3 DEF DsInv, DsShape
<1>5. DsTypeOK'
  BY <1>1, <1>2 DEF DsInv, DsTypeOK, Streams
<1>6. OneMedium' /\ LiveDecoders' /\ CountLeads' /\ PlayedInFront'
  BY <1>1, <1>2 DEF OneMedium, LiveDecoders, CountLeads, PlayedInFront
<1> QED BY <1>4, <1>5, <1>6 DEF DsInv

\* The calls that read packets leave the medium and its handles alone.
LEMMA ReadingKeeps ==
  ASSUME DsInv, UNCHANGED <<decoderType, media, handles, reopened>>,
         startPos' \in Nat, frameCount' \in [Kinds -> Int], base' \in Nat, failed' \subseteq {1, 2},
         position' \in 0 .. MediaLength, played' \subseteq 1 .. MediaLength,
         outcome' \in {"ok", "crashed", "hangs"},
         CountLeads', PlayedInFront'
  PROVE  DsInv'
<1>1. /\ UNCHANGED <<decoderType, layout, freed, formatCtx>>
      /\ UNCHANGED <<index, stream, codec, decoder, reopened>>
  BY DEF media, handles
<1>2. Streams' = Streams
  BY <1>1 DEF Streams
<1>3. DsShape'
  BY <1>1, <1>2 DEF DsInv, DsShape
<1>4. DsTypeOK'
  BY <1>1 DEF DsInv, DsTypeOK
<1>5. OneMedium' /\ LiveDecoders'
  BY <1>1 DEF DsInv, OneMedium, LiveDecoders
<1> QED BY <1>3, <1>4, <1>5 DEF DsInv

LEMMA SetStartPosKeeps ==
  ASSUME DsInv, NEW pos \in 0 .. MaxPos, outcome = "ok", SetStartPos(pos) PROVE DsInv'
<1>1. /\ UNCHANGED <<decoderType, media, handles, reopened>>
      /\ startPos' = pos /\ played' = {} /\ pos \in Nat
  BY SessionAssumption DEF SetStartPos
<1>2. /\ frameCount \in [Kinds -> Int] /\ base \in Nat /\ position \in 0 .. MediaLength
      /\ Counted \in Kinds /\ Counted' = Counted /\ MediaLength \in Nat
  BY <1>1, SessionAssumption DEF DsInv, DsShape, DsTypeOK, Counted, Kinds
<1>3. PlayedInFront'
  BY <1>1 DEF PlayedInFront
<1>4. CASE pos = 0 /\ UNCHANGED <<frameCount, position, base, failed, outcome>>
  <2>1. CountLeads'
    BY <1>1, <1>4 DEF CountLeads
  <2> QED BY <1>1, <1>2, <1>3, <1>4, <2>1, ReadingKeeps DEF DsInv, DsTypeOK
<1>5. CASE outcome' = "hangs" /\ UNCHANGED <<frameCount, position, base, failed>>
  <2>1. CountLeads'
    BY <1>5 DEF CountLeads
  <2> QED BY <1>1, <1>2, <1>3, <1>5, <2>1, ReadingKeeps DEF DsInv, DsTypeOK
<1>6. ASSUME failed' \in SUBSET {1, 2}, NEW first \in position .. MediaLength - 1,
             NEW key \in 0 .. pos - 1, key < MediaLength, base' = first,
             NEW second \in IF 1 \in failed' THEN first + 1 .. MediaLength - 1 ELSE {key},
             frameCount' = [frameCount EXCEPT ![Counted] = second - first],
             position' \in IF 2 \in failed' THEN second + 1 .. MediaLength ELSE {key},
             UNCHANGED outcome
      PROVE  DsInv'
  <2>1. first \in Nat /\ key \in Nat /\ key <= pos - 1
    BY <1>1, <1>2
  <2>2. second \in Nat /\ (1 \in failed' => second >= first + 1) /\ (1 \notin failed' => second = key)
    <3>1. CASE 1 \in failed'
      BY <1>2, <1>6, <2>1, <3>1
    <3>2. CASE 1 \notin failed'
      BY <1>6, <2>1, <3>2
    <3> QED BY <3>1, <3>2
  <2>3. position' \in 0 .. MediaLength /\ (2 \notin failed' => position' = key)
    <3>1. CASE 2 \in failed'
      BY <1>2, <1>6, <2>2, <3>1
    <3>2. CASE 2 \notin failed'
      BY <1>2, <1>6, <2>1, <3>2
    <3> QED BY <3>1, <3>2
  <2>4. frameCount' \in [Kinds -> Int] /\ frameCount'[Counted] = second - first
    BY <1>2, <1>6, <2>1, <2>2
  <2>5. CountLeads'
    <3> SUFFICES ASSUME 2 \notin failed' PROVE key <= (second - first) + Lead'
      BY <1>2, <2>3, <2>4 DEF CountLeads
    <3>1. CASE failed' = {}
      <4>1. second = key /\ Lead' = first
        BY <1>6, <2>2, <3>1 DEF Lead
      <4> QED BY <2>1, <4>1
    <3>2. CASE failed' # {}
      <4>1. 1 \in failed'
        BY <1>6, <3>2
      <4>2. second >= first + 1 /\ Lead' = pos - 2
        BY <1>1, <2>2, <3>2, <4>1 DEF Lead
      <4> QED BY <1>1, <2>1, <2>2, <4>2
    <3> QED BY <3>1, <3>2
  <2>6. startPos' \in Nat /\ base' \in Nat /\ failed' \subseteq {1, 2}
        /\ outcome' \in {"ok", "crashed", "hangs"} /\ played' \subseteq 1 .. MediaLength
    BY <1>1, <1>6, <2>1
  <2> QED BY <1>1, <1>3, <2>3, <2>4, <2>5, <2>6, ReadingKeeps
<1>7. \/ pos = 0 /\ UNCHANGED <<frameCount, position, base, failed, outcome>>
      \/ outcome' = "hangs" /\ UNCHANGED <<frameCount, position, base, failed>>
      \/ /\ failed' \in SUBSET {1, 2}
         /\ \E first \in position .. MediaLength - 1, key \in 0 .. pos - 1 :
              /\ key < MediaLength /\ base' = first
              /\ \E second \in IF 1 \in failed' THEN first + 1 .. MediaLength - 1 ELSE {key} :
                   /\ frameCount' = [frameCount EXCEPT ![Counted] = second - first]
                   /\ position' \in IF 2 \in failed' THEN second + 1 .. MediaLength ELSE {key}
         /\ UNCHANGED outcome
  BY DEF SetStartPos
<1> QED BY <1>4, <1>5, <1>6, <1>7

LEMMA DecodeNextKeeps ==
  ASSUME DsInv, NEW k \in Kinds, outcome = "ok", DecodeNext(k) PROVE DsInv'
<1>1. UNCHANGED <<decoderType, media, handles, reopened>> /\ UNCHANGED <<startPos, base, failed, outcome>>
  BY DEF DecodeNext
<1>2. /\ frameCount \in [Kinds -> Int] /\ base \in Nat /\ startPos \in Nat
      /\ position \in 0 .. MediaLength /\ played \subseteq 1 .. MediaLength
      /\ Counted \in Kinds /\ Counted' = Counted /\ MediaLength \in Nat
      /\ Lead \in Int /\ Lead' = Lead /\ failed' \subseteq {1, 2}
  BY <1>1, SessionAssumption DEF DsInv, DsShape, DsTypeOK, Counted, Kinds, Lead
<1>3. /\ position < MediaLength
      /\ frameCount' = [frameCount EXCEPT ![k] = @ + 1]
      /\ position' = IF k = Counted THEN position + 1 ELSE position
      /\ played' = IF k = Counted /\ decoder[k] # Null /\ ~Filtered(k)
                   THEN played \cup {position'} ELSE played
  BY DEF DecodeNext
<1>4. frameCount' \in [Kinds -> Int]
  BY <1>2, <1>3
<1>5. CASE k # Counted
  <2>1. position' = position /\ played' = played /\ frameCount'[Counted] = frameCount[Counted]
    BY <1>2, <1>3, <1>5
  <2>2. CountLeads' /\ PlayedInFront'
    BY <1>1, <1>2, <2>1 DEF DsInv, CountLeads, PlayedInFront
  <2>3. outcome' \in {"ok", "crashed", "hangs"}
    BY <1>1
  <2> QED BY <1>1, <1>2, <1>4, <2>1, <1>2, <2>2, <2>3, ReadingKeeps
<1>6. CASE k = Counted
  <2>1. position' = position + 1 /\ frameCount'[Counted] = frameCount[Counted] + 1
    BY <1>2, <1>3, <1>6
  <2>2. played' = played \/ (played' = played \cup {position + 1} /\ ~Filtered(k))
    BY <1>3, <2>1
  <2>3. position + 1 \in 1 .. MediaLength
    BY <1>2, <1>3
  <2>4. CountLeads'
    <3>1. startPos > 0 /\ 2 \notin failed => position + 1 <= (frameCount[Counted] + 1) + Lead
      BY <1>2 DEF DsInv, CountLeads
    <3> QED BY <1>1, <1>2, <2>1, <3>1 DEF CountLeads
  <2>5. PlayedInFront'
    <3> SUFFICES ASSUME startPos > 0, decoderType # "STREAN", 2 \notin failed, NEW n \in played'
                 PROVE  n <= startPos + Lead
      BY <1>1, <1>2 DEF PlayedInFront
    <3>1. CASE n \in played
      BY <3>1 DEF DsInv, PlayedInFront
    <3>2. CASE n = position + 1 /\ ~Filtered(k)
      <4>1. ~(frameCount[Counted] + 1 > startPos)
        BY <2>1, <3>2 DEF Filtered
      <4>2. position <= frameCount[Counted] + Lead
        BY DEF DsInv, CountLeads
      <4> QED BY <1>2, <3>2, <4>1, <4>2
    <3> QED BY <2>2, <3>1, <3>2
  <2>6. played' \subseteq 1 .. MediaLength /\ position' \in 0 .. MediaLength
    <3>1. position + 1 \in 0 .. MediaLength /\ {position + 1} \subseteq 1 .. MediaLength
      BY <1>2, <2>3
    <3>2. played' \subseteq 1 .. MediaLength
      BY <1>2, <2>2, <3>1
    <3> QED BY <2>1, <3>1, <3>2
  <2>7. outcome' \in {"ok", "crashed", "hangs"} /\ startPos' \in Nat /\ base' \in Nat
    BY <1>1, <1>2
  <2> QED BY <1>1, <1>2, <1>4, <2>4, <2>5, <2>6, <2>7, ReadingKeeps
<1> QED BY <1>5, <1>6

LEMMA DecodeCrashesKeeps ==
  ASSUME DsInv, DecodeCrashes PROVE DsInv'
<1>1. /\ UNCHANGED <<decoderType, media, handles, reopened>>
      /\ UNCHANGED <<startPos, frameCount, position, base, failed, played>> /\ outcome' = "crashed"
  BY DEF DecodeCrashes, filter
<1>2. CountLeads' /\ PlayedInFront'
  BY <1>1 DEF DsInv, CountLeads, PlayedInFront, Lead
<1> QED BY <1>1, <1>2, ReadingKeeps DEF DsInv, DsShape, DsTypeOK

\* The decoders, their counts and the clock of a session keep to DsInv.
THEOREM SessionInvariance == DsSpec => []DsInv
<1>1. DsInit => DsInv
  BY SessionInit
<1>2. DsInv /\ [DsNext]_dsVars => DsInv'
  <2> SUFFICES ASSUME DsInv, [DsNext]_dsVars PROVE DsInv'
    OBVIOUS
  <2>1. ASSUME NEW l \in Layouts, OpenFails(l) PROVE DsInv'
    BY <2>1, OpenFailsKeeps
  <2>2. ASSUME NEW l \in Layouts, OpenCrashes(l) PROVE DsInv'
    BY <2>2, OpenCrashesKeeps
  <2>3. ASSUME NEW l \in Layouts, NEW opens \in SUBSET Kinds, OpenFinds(l, opens) PROVE DsInv'
    BY <2>3, OpenFindsKeeps
  <2>4. ASSUME ClearDecoder \/ InitAgain \/ DecodeCrashes PROVE DsInv'
    BY <2>4, ClearKeeps, InitAgainKeeps, DecodeCrashesKeeps
  <2>5. ASSUME outcome = "ok", NEW pos \in 0 .. MaxPos, SetStartPos(pos) PROVE DsInv'
    BY <2>5, SetStartPosKeeps
  <2>6. ASSUME outcome = "ok", NEW k \in Kinds, DecodeNext(k) PROVE DsInv'
    BY <2>6, DecodeNextKeeps
  <2>7. CASE UNCHANGED dsVars
    <3>1. /\ UNCHANGED <<decoderType, media, handles, reopened>>
          /\ UNCHANGED <<startPos, frameCount, position, base, failed, played, outcome>>
      BY <2>7 DEF dsVars, filter
    <3>2. CountLeads' /\ PlayedInFront'
      BY <3>1 DEF DsInv, CountLeads, PlayedInFront, Counted, Lead
    <3> QED BY <3>1, <3>2, ReadingKeeps DEF DsInv, DsShape, DsTypeOK
  <2> QED BY <2>1, <2>2, <2>3, <2>4, <2>5, <2>6, <2>7 DEF DsNext, DsStops
<1> QED BY <1>1, <1>2, PTL DEF DsSpec

\* MediaDecoder::Open, Clear and SetStartPos, for every medium and any number of
\* opens: no decoder outlives its medium, none is of another medium or kind unless
\* an Open followed another, and a decoder of one kind plays nothing beyond the
\* argument of SetStartPos, whichever packets have a duration and whichever seeks
\* fail, as long as the second does not.
THEOREM DecodersBelongToTheMedium == DsSpec => []SessionSound
<1>1. DsInv => SessionSound
  <2> SUFFICES ASSUME DsInv PROVE SessionSound
    OBVIOUS
  <2>1. \A k \in Kinds : decoder[k] # Null =>
          /\ decoder[k][1] \notin freed
          /\ \/ reopened
             \/ decoder[k][1] = formatCtx /\ layout[formatCtx][decoder[k][2] + 1] = k
    BY DEF DsInv, LiveDecoders, OneMedium
  <2> QED BY <2>1 DEF DsInv, PlayedInFront, SessionSound
<1> QED BY <1>1, SessionInvariance, PTL

-----------------------------------------------------------------------------
(***************************************************************************)
(* VideoConvert.  While no two calls of SetConvert overlap, where the one  *)
(* call stands tells which converters live: the decoder's and              *)
(* MediaDecoder's are the same and the only one, except between the swap   *)
(* and the deletion.                                                       *)
(* A Decode that no call has overlapped sees none of this in between.      *)
(***************************************************************************)

Stages == {"idle", "decide", "detach", "delete", "swap", "attach", "deleteOld", "unlock"}

VcShape ==
  /\ setting \in [Setters -> Stages] /\ mine \in [Setters -> 0 .. nextConverter - 1]
  /\ nextConverter \in Nat \ {0} /\ changes \in Nat
  /\ readers \subseteq Setters \cup {"decode"}

Live == DOMAIN converters

Settled == attached = Convert /\ Live = {Convert} \ {None}

Stage(t) ==
  /\ setting[t] \in {"decide", "detach", "unlock"} => Settled
  /\ setting[t] = "delete" => attached = None /\ Convert # None /\ Live = {Convert}
  /\ setting[t] = "swap" =>
       /\ mine[t] # None /\ mine[t] # Convert /\ attached = Convert
       /\ Live = ({Convert} \ {None}) \cup {mine[t]}
  /\ setting[t] \in {"attach", "deleteOld"} =>
       /\ Convert # None /\ mine[t] # Convert
       /\ Live = {Convert} \cup ({mine[t]} \ {None})
  /\ setting[t] = "deleteOld" => attached = Convert

\* One call at a time, and what lives at each of its stages.
OneSetter ==
  ~crowded =>
    /\ \A t, u \in Setters : setting[t] # "idle" /\ setting[u] # "idle" => t = u
    /\ InUse = {} => Settled
    /\ \A t \in Setters : Stage(t)

\* A Decode that no call has overlapped uses the converter that is attached.
Undisturbed ==
  decoding # "idle" /\ ~clash =>
    /\ InUse = {}
    /\ decoding = "load" => attached # None
    /\ decoding = "scale" => convert = attached /\ convert # None

\* A converter keeps the geometry it was made for.
Steady ==
  /\ picture = codecInfo
  /\ \A c \in Live : converters[c].des \in Geometry
  /\ changes = 0 => \A c \in Live : converters[c].src = codecInfo
  /\ decoding = "scale" /\ convert \in Live => room = Merge(converters[convert].des, picture)

Verdicts == (~crowded /\ misused => clash) /\ (overrun => changes > 0)

VcInv == VcTypeOK /\ VcShape /\ OneSetter /\ Undisturbed /\ Steady /\ Verdicts

LEMMA ConvertInit ==
  ASSUME VcInit PROVE VcInv
<1> USE DEF VcInit
<1>1. VcShape
  BY DEF VcShape, Stages, None
<1>2. DOMAIN converters = {}
  OBVIOUS
<1>3. VcTypeOK
  BY <1>2 DEF VcTypeOK, None
<1>4. OneSetter
  BY <1>2 DEF OneSetter, Settled, Stage, Live, None
<1>5. Undisturbed /\ Steady /\ Verdicts
  BY <1>2 DEF Undisturbed, Steady, Verdicts, Live
<1> QED BY <1>1, <1>3, <1>4, <1>5 DEF VcInv

-----------------------------------------------------------------------------
\* The two sides: a step of SetConvert leaves Decode where it stands, and a
\* step of Decode leaves what the calls of SetConvert share.
LEMMA SetterMoves ==
  ASSUME VcShape, NEW t \in Setters, NEW from, NEW to \in Stages, SetterGoes(t, from, to)
  PROVE  /\ setting[t] = from /\ setting'[t] = to /\ setting' \in [Setters -> Stages]
         /\ \A u \in Setters \ {t} : setting'[u] = setting[u]
BY DEF VcShape, SetterGoes

\* A step of the only call, to a stage whose condition holds.
LEMMA StageMoves ==
  ASSUME VcInv, NEW t \in Setters, NEW from, NEW to \in Stages, SetterGoes(t, from, to),
         from # "idle", UNCHANGED crowded,
         ~crowded => Stage(t)' /\ (to = "idle" => Settled')
  PROVE  OneSetter'
<1>1. /\ setting[t] = from /\ setting'[t] = to
      /\ \A u \in Setters \ {t} : setting'[u] = setting[u]
  BY SetterMoves DEF VcInv
<1> SUFFICES ASSUME ~crowded
             PROVE  /\ \A u, v \in Setters : setting'[u] # "idle" /\ setting'[v] # "idle" => u = v
                    /\ InUse' = {} => Settled'
                    /\ \A u \in Setters : Stage(u)'
  BY DEF OneSetter
<1>2. \A u \in Setters \ {t} : setting[u] = "idle" /\ setting'[u] = "idle"
  BY <1>1 DEF VcInv, OneSetter
<1>3. InUse' = {} => to = "idle"
  BY <1>1 DEF InUse
<1>4. ASSUME NEW u \in Setters PROVE Stage(u)'
  BY <1>2 DEF Stage
<1> QED BY <1>2, <1>3, <1>4

\* Decode has been overlapped by a call that is under way.
LEMMA CallDisturbs ==
  ASSUME VcInv, NEW t \in Setters, setting[t] # "idle", UNCHANGED <<decoding, clash>>
  PROVE  Undisturbed'
BY DEF VcInv, Undisturbed, InUse

\* A step that makes no converter, changes no geometry and moves no Decode.
LEMMA StaysSteady ==
  ASSUME VcInv, UNCHANGED <<codecInfo, decodeVars, changes>>, Live' \subseteq Live,
         \A c \in Live' : converters'[c] = converters[c]
  PROVE  Steady'
<1>1. UNCHANGED <<decoding, picture, room, convert>>
  BY DEF decodeVars
<1> QED BY <1>1 DEF VcInv, Steady, Merge

\* delete c.
LEMMA DeletesOne ==
  ASSUME NEW c, Deletes(c)
  PROVE  /\ Live' = Live \ {c} /\ \A d \in Live' : converters'[d] = converters[d]
         /\ c \in Live /\ misused' => misused
<1>1. converters' = [d \in Live \ {c} |-> converters[d]]
  BY DEF Deletes, Live, Restrict
<1>2. Live' = Live \ {c} /\ \A d \in Live' : converters'[d] = converters[d]
  BY <1>1 DEF Live
<1> QED BY <1>2 DEF Deletes, Live

\* A step from one stage to another that makes no converter.
LEMMA SettersTypes ==
  ASSUME VcInv, NEW t \in Setters, NEW from, NEW to \in Stages, SetterGoes(t, from, to),
         from # "idle", to # "idle", UNCHANGED <<readers, codecInfo, decodeVars, changes>>,
         nextConverter' \in {nextConverter, nextConverter + 1},
         Live' \subseteq 1 .. nextConverter' - 1, {Convert', attached'} \subseteq 0 .. nextConverter' - 1,
         mine' \in [Setters -> 0 .. nextConverter' - 1]
  PROVE  VcTypeOK' /\ VcShape'
<1>1. /\ setting[t] = from /\ setting'[t] = to /\ setting' \in [Setters -> Stages]
      /\ \A u \in Setters \ {t} : setting'[u] = setting[u]
  BY SetterMoves DEF VcInv
<1>2. UNCHANGED <<decoding, picture, room, convert>>
  BY DEF decodeVars
<1>3. nextConverter \in Nat \ {0}
  BY DEF VcInv, VcShape
<1>4. convert \in 0 .. nextConverter' - 1
  BY <1>3 DEF VcInv, VcTypeOK
<1>5. VcShape'
  BY <1>1, <1>3 DEF VcInv, VcShape
<1>6. \A u \in Setters : u \in readers' <=> setting'[u] # "idle"
  BY <1>1 DEF VcInv, VcTypeOK
<1>7. VcTypeOK'
  BY <1>2, <1>4, <1>6 DEF VcInv, VcTypeOK, Live
<1> QED BY <1>5, <1>7

\* The same, when nothing but the pointers and the life of converters changes.
LEMMA SetterKeeps ==
  ASSUME VcInv, ~misused, ~overrun,
         NEW t \in Setters, NEW from, NEW to \in Stages, SetterGoes(t, from, to),
         from # "idle", to # "idle",
         UNCHANGED <<lockVars, nextConverter, codecInfo, decodeVars, changes, overrun>>,
         Live' \subseteq Live, \A c \in Live' : converters'[c] = converters[c],
         {Convert', attached'} \subseteq 0 .. nextConverter - 1,
         mine' \in [Setters -> 0 .. nextConverter - 1],
         ~crowded => Stage(t)' /\ ~misused'
  PROVE  VcInv'
<1>1. UNCHANGED <<readers, crowded, clash>> /\ UNCHANGED decoding
  BY DEF lockVars, decodeVars
<1>2. Live \subseteq 1 .. nextConverter - 1
  BY DEF VcInv, VcTypeOK, Live
<1>3. VcTypeOK' /\ VcShape'
  BY <1>1, <1>2, SettersTypes
<1>4. OneSetter'
  BY <1>1, StageMoves
<1>5. setting[t] # "idle"
  BY DEF SetterGoes
<1>6. Undisturbed'
  BY <1>1, <1>5, CallDisturbs
<1>7. Steady'
  BY StaysSteady
<1>8. Verdicts'
  BY <1>1 DEF Verdicts
<1> QED BY <1>3, <1>4, <1>6, <1>7, <1>8 DEF VcInv

\* What the lemmas above ask of the types.
LEMMA PointerTypes ==
  ASSUME VcInv
  PROVE  /\ {Convert, attached, None} \subseteq 0 .. nextConverter - 1
         /\ mine \in [Setters -> 0 .. nextConverter - 1]
         /\ nextConverter \in Nat /\ nextConverter # 0
         /\ Live \subseteq 1 .. nextConverter - 1
BY DEF VcInv, VcTypeOK, VcShape, None, Live

-----------------------------------------------------------------------------
LEMMA GeometryTypes ==
  ASSUME VcInv PROVE picture \in Geometry /\ room \in Geometry /\ codecInfo \in Geometry
BY DEF VcInv, VcTypeOK

LEMMA LocksKeeps ==
  ASSUME VcInv, ~misused, ~overrun, NEW t \in Setters, SetConvertLocks(t) PROVE VcInv'
<1>1. SetterGoes(t, "idle", "decide") /\ "decide" \in Stages
  BY DEF SetConvertLocks, Stages
<1>2. /\ readers' = readers \cup {t}
      /\ crowded' = (crowded \/ InUse # {}) /\ clash' = (clash \/ decoding # "idle")
      /\ UNCHANGED <<converters, nextConverter, Convert, attached, codecInfo, mine>>
      /\ UNCHANGED decodeVars
      /\ UNCHANGED <<decoding, picture, room, convert, changes, misused, overrun>>
  BY DEF SetConvertLocks, shared, decodeVars
<1>3. /\ setting[t] = "idle" /\ setting'[t] = "decide" /\ setting' \in [Setters -> Stages]
      /\ \A u \in Setters \ {t} : setting'[u] = setting[u]
  BY <1>1, SetterMoves DEF VcInv
<1>4. VcShape'
  BY <1>2, <1>3 DEF VcInv, VcShape
<1>5. VcTypeOK'
  <2>1. \A u \in Setters : u \in readers' <=> setting'[u] # "idle"
    BY <1>2, <1>3 DEF VcInv, VcTypeOK
  <2>2. readers' \subseteq Setters \cup {"decode"}
    BY <1>2 DEF VcInv, VcTypeOK
  <2> QED BY <1>2, <2>1, <2>2 DEF VcInv, VcTypeOK
<1>6. OneSetter'
  <2> SUFFICES ASSUME ~crowded, InUse = {}
               PROVE  /\ \A u, v \in Setters : setting'[u] # "idle" /\ setting'[v] # "idle" => u = v
                      /\ InUse' = {} => Settled'
                      /\ \A u \in Setters : Stage(u)'
    BY <1>2 DEF OneSetter
  <2>1. Settled /\ \A u \in Setters : setting[u] = "idle"
    BY DEF VcInv, OneSetter, InUse
  <2>2. Settled'
    BY <1>2, <2>1 DEF Settled, Live
  <2>3. Stage(t)'
    BY <1>3, <2>2 DEF Stage
  <2>4. \A u \in Setters \ {t} : Stage(u)'
    BY <1>3, <2>1 DEF Stage
  <2> QED BY <1>3, <2>1, <2>2, <2>3, <2>4
<1>7. Undisturbed'
  BY <1>2 DEF Undisturbed
<1>8. Steady'
  BY <1>2, StaysSteady DEF Live
<1>9. Verdicts'
  BY <1>2 DEF VcInv, Verdicts
<1> QED BY <1>4, <1>5, <1>6, <1>7, <1>8, <1>9 DEF VcInv

LEMMA DecidesKeeps ==
  ASSUME VcInv, ~misused, ~overrun, NEW t \in Setters, NEW info \in Wishes,
         SetConvertDecides(t, info)
  PROVE  VcInv'
<1>1. /\ UNCHANGED <<lockVars, decodeVars>>
      /\ UNCHANGED <<readers, crowded, clash, Convert, attached, codecInfo, changes, misused, overrun>>
      /\ UNCHANGED <<decoding, picture, room, convert>>
  BY DEF SetConvertDecides, lockVars, decodeVars
<1>2. CASE /\ UNCHANGED <<converters, nextConverter, mine>>
           /\ SetterGoes(t, "decide", "detach") \/ SetterGoes(t, "decide", "unlock")
  <2>1. PICK to \in {"detach", "unlock"} : SetterGoes(t, "decide", to)
    BY <1>2
  <2>2. to \in Stages /\ to # "idle"
    BY DEF Stages
  <2>3. setting[t] = "decide" /\ setting'[t] = to
    BY <2>1, <2>2, SetterMoves DEF VcInv
  <2>4. ~crowded => Stage(t)' /\ ~misused'
    BY <1>1, <1>2, <2>1, <2>3 DEF VcInv, OneSetter, Stage, Settled, Live
  <2>5. Live' = Live
    BY <1>2 DEF Live
  <2> QED
    BY <1>1, <1>2, <2>1, <2>2, <2>4, <2>5, PointerTypes, SetterKeeps
<1>3. CASE /\ SetterGoes(t, "decide", "swap")
           /\ converters' = [c \in DOMAIN converters \cup {nextConverter} |->
                                IF c = nextConverter
                                THEN [src |-> codecInfo, des |-> Merge(info, codecInfo)]
                                ELSE converters[c]]
           /\ nextConverter' = nextConverter + 1
           /\ mine' = [mine EXCEPT ![t] = nextConverter]
  <2>1. "swap" \in Stages /\ setting[t] = "decide" /\ setting'[t] = "swap"
    BY <1>3, SetterMoves DEF VcInv, Stages
  <2>2. /\ {Convert, attached} \subseteq 0 .. nextConverter - 1
        /\ mine \in [Setters -> 0 .. nextConverter - 1]
        /\ nextConverter \in Nat /\ nextConverter # 0
        /\ Live \subseteq 1 .. nextConverter - 1
    BY PointerTypes
  <2>3. /\ Live' = Live \cup {nextConverter} /\ nextConverter \notin Live
        /\ converters'[nextConverter].src = codecInfo
        /\ \A c \in Live : converters'[c] = converters[c]
    BY <1>3, <2>2 DEF Live
  <2>4. /\ Live' \subseteq 1 .. nextConverter' - 1
        /\ {Convert', attached'} \subseteq 0 .. nextConverter' - 1
    BY <1>1, <1>3, <2>2, <2>3
  <2>5. mine'[t] = nextConverter /\ mine' \in [Setters -> 0 .. nextConverter' - 1]
    <3>1. mine \in [Setters -> 0 .. nextConverter' - 1]
      BY <1>3, <2>2
    <3>2. nextConverter \in 0 .. nextConverter' - 1
      BY <1>3, <2>2
    <3> QED BY <1>3, <3>1, <3>2
  <2>6. VcTypeOK' /\ VcShape'
    <3>1. nextConverter' \in {nextConverter, nextConverter + 1}
      BY <1>3
    <3> QED BY <1>1, <1>3, <2>1, <2>4, <2>5, <3>1, SettersTypes
  <2>7. ~crowded => Stage(t)'
    <3> SUFFICES ASSUME ~crowded
                 PROVE  /\ mine'[t] # None /\ mine'[t] # Convert /\ attached = Convert
                        /\ Live' = ({Convert} \ {None}) \cup {mine'[t]}
      BY <1>1, <2>1 DEF Stage
    <3>1. Settled
      BY <2>1 DEF VcInv, OneSetter, Stage
    <3>2. nextConverter # Convert /\ nextConverter # None
      BY <2>2 DEF None
    <3> QED BY <2>3, <2>5, <3>1, <3>2 DEF Settled
  <2>8. OneSetter'
    BY <1>1, <1>3, <2>1, <2>7, StageMoves
  <2>9. Undisturbed'
    BY <1>1, <2>1, CallDisturbs
  <2>10. Steady'
    <3>1. convert # nextConverter
      BY <2>2 DEF VcInv, VcTypeOK
    <3>2. changes = 0 => \A c \in Live' : converters'[c].src = codecInfo
      BY <2>3 DEF VcInv, Steady
    <3>3. Merge(info, codecInfo) \in Geometry
      BY ConvertAssumption, GeometryTypes DEF Merge, Wishes, Geometry
    <3>4. converters'[nextConverter].des \in Geometry
      BY <1>3, <3>3
    <3>5. \A c \in Live' : converters'[c].des \in Geometry
      BY <2>3, <3>4 DEF VcInv, Steady
    <3> QED BY <1>1, <2>3, <3>1, <3>2, <3>5 DEF VcInv, Steady, Merge
  <2>11. Verdicts'
    BY <1>1 DEF VcInv, Verdicts
  <2> QED BY <2>6, <2>8, <2>9, <2>10, <2>11 DEF VcInv
<1> QED BY <1>2, <1>3 DEF SetConvertDecides

\* What a stage of SetConvert that only moves pointers leaves alone.
LEMMA DetachesKeeps ==
  ASSUME VcInv, ~misused, ~overrun, NEW t \in Setters, SetConvertDetaches(t) PROVE VcInv'
<1> DEFINE to == IF Convert = None THEN "unlock" ELSE "delete"
<1>1. /\ SetterGoes(t, "detach", to) /\ to \in Stages /\ to # "idle" /\ attached' = None
      /\ UNCHANGED <<lockVars, nextConverter, codecInfo, decodeVars, changes, overrun>>
      /\ UNCHANGED <<converters, Convert, mine, misused, crowded>>
  BY DEF SetConvertDetaches, Stages, lockVars
<1>2. setting[t] = "detach" /\ setting'[t] = to
  BY <1>1, SetterMoves DEF VcInv
<1>3. ~crowded => Stage(t)' /\ ~misused'
  <2> SUFFICES ASSUME ~crowded PROVE Stage(t)'
    BY <1>1
  <2>1. Settled
    BY <1>2 DEF VcInv, OneSetter, Stage
  <2>2. CASE Convert = None
    BY <1>1, <1>2, <2>1, <2>2 DEF Stage, Settled, Live
  <2>3. CASE Convert # None
    BY <1>1, <1>2, <2>1, <2>3 DEF Stage, Settled, Live
  <2> QED BY <2>2, <2>3
<1>4. Live' = Live
  BY <1>1 DEF Live
<1> QED
  <2> HIDE DEF to
  <2> QED BY <1>1, <1>3, <1>4, PointerTypes, SetterKeeps

LEMMA DeletesKeeps ==
  ASSUME VcInv, ~misused, ~overrun, NEW t \in Setters, SetConvertDeletes(t) PROVE VcInv'
<1>1. /\ SetterGoes(t, "delete", "unlock") /\ "unlock" \in Stages /\ Convert' = None
      /\ UNCHANGED <<lockVars, nextConverter, codecInfo, decodeVars, changes, overrun>>
      /\ UNCHANGED <<attached, mine, crowded>>
      /\ Convert # None => Deletes(Convert)
      /\ Convert = None => UNCHANGED <<converters, misused>>
  BY DEF SetConvertDeletes, Stages, lockVars
<1>2. setting[t] = "delete" /\ setting'[t] = "unlock"
  BY <1>1, SetterMoves DEF VcInv
<1>3. Live' \subseteq Live /\ \A c \in Live' : converters'[c] = converters[c]
  BY <1>1, DeletesOne DEF Live
<1>4. ~crowded => Stage(t)' /\ ~misused'
  <2> SUFFICES ASSUME ~crowded PROVE Stage(t)' /\ ~misused'
    OBVIOUS
  <2>1. attached = None /\ Convert # None /\ Live = {Convert}
    BY <1>2 DEF VcInv, OneSetter, Stage
  <2>2. Live' = {} /\ ~misused'
    BY <1>1, <2>1, DeletesOne
  <2> QED BY <1>1, <1>2, <2>1, <2>2 DEF Stage, Settled
<1> QED BY <1>1, <1>3, <1>4, PointerTypes, SetterKeeps

LEMMA SwapsKeeps ==
  ASSUME VcInv, ~misused, ~overrun, NEW t \in Setters, SetConvertSwaps(t) PROVE VcInv'
<1>1. /\ SetterGoes(t, "swap", "attach") /\ "attach" \in Stages
      /\ Convert' = mine[t] /\ mine' = [mine EXCEPT ![t] = Convert]
      /\ UNCHANGED <<lockVars, nextConverter, codecInfo, decodeVars, changes, overrun>>
      /\ UNCHANGED <<converters, attached, misused, crowded>>
  BY DEF SetConvertSwaps, Stages, lockVars
<1>2. setting[t] = "swap" /\ setting'[t] = "attach"
  BY <1>1, SetterMoves DEF VcInv
<1>3. /\ mine' \in [Setters -> 0 .. nextConverter - 1] /\ mine'[t] = Convert
      /\ {Convert', attached'} \subseteq 0 .. nextConverter - 1
  BY <1>1, PointerTypes
<1>4. Live' = Live
  BY <1>1 DEF Live
<1>5. ~crowded => Stage(t)' /\ ~misused'
  <2> SUFFICES ASSUME ~crowded PROVE Stage(t)'
    BY <1>1
  <2>1. /\ mine[t] # None /\ mine[t] # Convert /\ attached = Convert
        /\ Live = ({Convert} \ {None}) \cup {mine[t]}
    BY <1>2 DEF VcInv, OneSetter, Stage
  <2> QED BY <1>1, <1>2, <1>3, <1>4, <2>1 DEF Stage
<1> QED BY <1>1, <1>3, <1>4, <1>5, SetterKeeps DEF Live

LEMMA AttachesKeeps ==
  ASSUME VcInv, ~misused, ~overrun, NEW t \in Setters, SetConvertAttaches(t) PROVE VcInv'
<1>1. /\ SetterGoes(t, "attach", "deleteOld") /\ "deleteOld" \in Stages
      /\ attached' = Convert
      /\ UNCHANGED <<lockVars, nextConverter, codecInfo, decodeVars, changes, overrun>>
      /\ UNCHANGED <<converters, Convert, mine, misused, crowded>>
  BY DEF SetConvertAttaches, Stages, lockVars
<1>2. setting[t] = "attach" /\ setting'[t] = "deleteOld"
  BY <1>1, SetterMoves DEF VcInv
<1>3. Live' = Live
  BY <1>1 DEF Live
<1>4. ~crowded => Stage(t)' /\ ~misused'
  BY <1>1, <1>2, <1>3 DEF VcInv, OneSetter, Stage
<1> QED BY <1>1, <1>3, <1>4, PointerTypes, SetterKeeps DEF Live

LEMMA DeletesOldKeeps ==
  ASSUME VcInv, ~misused, ~overrun, NEW t \in Setters, SetConvertDeletesOld(t) PROVE VcInv'
<1>1. /\ SetterGoes(t, "deleteOld", "unlock") /\ "unlock" \in Stages
      /\ mine' = [mine EXCEPT ![t] = None]
      /\ UNCHANGED <<lockVars, nextConverter, codecInfo, decodeVars, changes, overrun>>
      /\ UNCHANGED <<Convert, attached, crowded>>
      /\ mine[t] # None => Deletes(mine[t])
      /\ mine[t] = None => UNCHANGED <<converters, misused>>
  BY DEF SetConvertDeletesOld, Stages, lockVars
<1>2. setting[t] = "deleteOld" /\ setting'[t] = "unlock"
  BY <1>1, SetterMoves DEF VcInv
<1>3. mine' \in [Setters -> 0 .. nextConverter - 1]
  BY <1>1, PointerTypes
<1>4. Live' \subseteq Live /\ \A c \in Live' : converters'[c] = converters[c]
  BY <1>1, DeletesOne DEF Live
<1>5. ~crowded => Stage(t)' /\ ~misused'
  <2> SUFFICES ASSUME ~crowded PROVE Stage(t)' /\ ~misused'
    OBVIOUS
  <2>1. /\ Convert # None /\ mine[t] # Convert /\ attached = Convert
        /\ Live = {Convert} \cup ({mine[t]} \ {None})
    BY <1>2 DEF VcInv, OneSetter, Stage
  <2>2. Live' = {Convert} /\ ~misused'
    <3>1. CASE mine[t] = None
      BY <1>1, <2>1, <3>1 DEF Live
    <3>2. CASE mine[t] # None
      BY <1>1, <2>1, <3>2, DeletesOne
    <3> QED BY <3>1, <3>2
  <2> QED BY <1>1, <1>2, <2>1, <2>2 DEF Stage, Settled
<1> QED BY <1>1, <1>3, <1>4, <1>5, PointerTypes, SetterKeeps

LEMMA UnlocksKeeps ==
  ASSUME VcInv, ~misused, ~overrun, NEW t \in Setters, SetConvertUnlocks(t) PROVE VcInv'
<1>1. /\ SetterGoes(t, "unlock", "idle") /\ "idle" \in Stages
      /\ readers' = readers \ {t}
      /\ UNCHANGED <<crowded, clash, converters, nextConverter, Convert, attached>>
      /\ UNCHANGED <<decoding, picture, room, convert>>
      /\ UNCHANGED <<codecInfo, mine, decodeVars, changes, misused, overrun>>
  BY DEF SetConvertUnlocks, Stages, shared, decodeVars
<1>2. /\ setting[t] = "unlock" /\ setting'[t] = "idle" /\ setting' \in [Setters -> Stages]
      /\ \A u \in Setters \ {t} : setting'[u] = setting[u]
  BY <1>1, SetterMoves DEF VcInv
<1>3. Live' = Live
  BY <1>1 DEF Live
<1>4. VcShape'
  BY <1>1, <1>2 DEF VcInv, VcShape
<1>5. VcTypeOK'
  <2>1. \A u \in Setters : u \in readers' <=> setting'[u] # "idle"
    BY <1>1, <1>2 DEF VcInv, VcTypeOK
  <2> QED BY <1>1, <2>1 DEF VcInv, VcTypeOK
<1>6. OneSetter'
  <2>1. ~crowded => Stage(t)' /\ Settled'
    BY <1>1, <1>2, <1>3 DEF VcInv, OneSetter, Stage, Settled
  <2> QED BY <1>1, <2>1, StageMoves
<1>7. Undisturbed'
  BY <1>1, <1>2 DEF VcInv, Undisturbed, InUse
<1>8. Steady'
  BY <1>1, <1>3, StaysSteady
<1>9. Verdicts'
  BY <1>1 DEF VcInv, Verdicts
<1> QED BY <1>4, <1>5, <1>6, <1>7, <1>8, <1>9 DEF VcInv

-----------------------------------------------------------------------------
\* A step of Decode while it holds the lock.
LEMMA DecodeKeeps ==
  ASSUME VcInv, ~misused, ~overrun, decoding # "idle",
         decoding' \in {"filter", "clone", "load", "scale", "unlock"},
         UNCHANGED <<lockVars, shared, codecInfo, setting, mine, picture, changes>>,
         convert' \in {convert, attached}, room' \in Geometry,
         Undisturbed', Steady', Verdicts'
  PROVE  VcInv'
<1>1. /\ UNCHANGED <<readers, crowded, clash, converters, nextConverter, Convert, attached>>
      /\ UNCHANGED <<codecInfo, setting, mine, picture, changes>>
  BY DEF lockVars, shared
<1>2. VcShape'
  BY <1>1 DEF VcInv, VcShape
<1>3. VcTypeOK'
  BY <1>1 DEF VcInv, VcTypeOK
<1>4. OneSetter'
  BY <1>1 DEF VcInv, OneSetter, InUse, Stage, Settled, Live
<1> QED BY <1>2, <1>3, <1>4 DEF VcInv

LEMMA DecodeLocksKeeps ==
  ASSUME VcInv, ~misused, ~overrun, DecodeLocksConvert PROVE VcInv'
<1>1. /\ decoding = "idle" /\ decoding' = "filter"
      /\ readers' = readers \cup {"decode"} /\ picture' = codecInfo' /\ clash' = (InUse # {})
      /\ UNCHANGED <<crowded, converters, nextConverter, Convert, attached>>
      /\ UNCHANGED <<setting, mine, room, convert, misused, overrun>>
  BY DEF DecodeLocksConvert, DecodeGoes, shared
<1>2. codecInfo' \in Geometry /\ changes' \in Nat
      /\ (changes' = 0 => codecInfo' = codecInfo /\ changes = 0)
  <2>1. changes \in Nat
    BY DEF VcInv, VcShape
  <2>2. \/ codecInfo' = codecInfo /\ changes' = changes
        \/ changes' = changes + 1 /\ codecInfo' \in Geometry
    BY DEF DecodeLocksConvert
  <2> QED BY <2>1, <2>2, GeometryTypes
<1>3. VcShape'
  BY <1>1, <1>2 DEF VcInv, VcShape
<1>4. VcTypeOK'
  <2>1. \A u \in Setters : u \in readers' <=> setting'[u] # "idle"
    BY <1>1, ConvertAssumption DEF VcInv, VcTypeOK
  <2> QED BY <1>1, <1>2, <2>1, GeometryTypes DEF VcInv, VcTypeOK
<1>5. OneSetter'
  BY <1>1 DEF VcInv, OneSetter, InUse, Stage, Settled, Live
<1>6. Undisturbed'
  BY <1>1 DEF Undisturbed, InUse
<1>7. Steady'
  BY <1>1, <1>2 DEF VcInv, Steady, Live
<1>8. Verdicts'
  BY <1>1 DEF Verdicts
<1> QED BY <1>3, <1>4, <1>5, <1>6, <1>7, <1>8 DEF VcInv

\* The steps that touch no converter.
LEMMA DecodeWithoutConverter ==
  ASSUME VcInv, ~misused, ~overrun, DecodeSkips \/ DecodeTestsConvert \/ CloneFrame PROVE VcInv'
<1>1. /\ UNCHANGED <<lockVars, shared, codecInfo, setting, mine, picture, changes>>
      /\ UNCHANGED <<convert, misused, overrun>>
      /\ decoding # "idle" /\ decoding' \in {"filter", "clone", "load", "scale", "unlock"}
      /\ decoding' # "scale" /\ room' \in {room, picture}
      /\ decoding' = "load" => attached # None
  BY DEF DecodeSkips, DecodeTestsConvert, CloneFrame, DecodeGoes
<1>2. UNCHANGED <<crowded, clash, converters, attached>>
  BY <1>1 DEF lockVars, shared
<1>3. Undisturbed'
  BY <1>1, <1>2 DEF VcInv, Undisturbed, InUse
<1>4. Steady'
  BY <1>1, <1>2 DEF VcInv, Steady, Live
<1>5. Verdicts'
  BY <1>1, <1>2 DEF Verdicts
<1>6. room' \in Geometry
  BY <1>1, GeometryTypes
<1> QED BY <1>1, <1>3, <1>4, <1>5, <1>6, DecodeKeeps

\* A whole geometry is its own merge with any other.
LEMMA MergeOfWhole ==
  ASSUME NEW own \in Geometry, NEW info PROVE Merge(own, info) = own
BY ConvertAssumption DEF Geometry, Merge

LEMMA ConvertFrameLoadsKeeps ==
  ASSUME VcInv, ~misused, ~overrun, ConvertFrameLoads PROVE VcInv'
<1>1. /\ UNCHANGED <<lockVars, shared, codecInfo, setting, mine, picture, changes>>
      /\ UNCHANGED overrun /\ decoding = "load"
  BY DEF ConvertFrameLoads, DecodeGoes
<1>2. UNCHANGED <<crowded, clash, converters, attached, Convert>>
  BY <1>1 DEF lockVars, shared
<1>3. CASE /\ attached \in Live /\ decoding' = "scale" /\ convert' = attached
           /\ room' = Merge(converters[attached].des, picture) /\ UNCHANGED misused
  <2>1. room' \in Geometry
    BY <1>3, MergeOfWhole DEF VcInv, Steady
  <2>2. Undisturbed'
    BY <1>1, <1>2, <1>3 DEF VcInv, Undisturbed, InUse
  <2>3. Steady'
    BY <1>1, <1>2, <1>3 DEF VcInv, Steady, Live, Merge
  <2>4. Verdicts'
    BY <1>1, <1>3 DEF Verdicts
  <2> QED BY <1>1, <1>3, <2>1, <2>2, <2>3, <2>4, DecodeKeeps
<1>4. CASE /\ attached \notin Live /\ decoding' = "unlock" /\ UNCHANGED <<convert, room>>
  <2>1. Undisturbed'
    BY <1>1, <1>2, <1>4 DEF VcInv, Undisturbed, InUse
  <2>2. Steady'
    BY <1>1, <1>2, <1>4 DEF VcInv, Steady, Live
  <2>3. ~crowded => clash
    <3> SUFFICES ASSUME ~crowded, ~clash PROVE FALSE
      OBVIOUS
    <3>1. InUse = {} /\ attached # None
      BY <1>1 DEF VcInv, Undisturbed
    <3>2. Settled
      BY <3>1 DEF VcInv, OneSetter
    <3> QED BY <1>4, <3>1, <3>2 DEF Settled
  <2>4. Verdicts'
    BY <1>1, <1>2, <2>3 DEF Verdicts
  <2> QED BY <1>1, <1>4, <2>1, <2>2, <2>4, GeometryTypes, DecodeKeeps
<1> QED BY <1>3, <1>4 DEF ConvertFrameLoads, DecodeGoes, Live

LEMMA ConvertFrameScalesKeeps ==
  ASSUME VcInv, ~misused, ~overrun, ConvertFrameScales PROVE VcInv'
<1>1. /\ UNCHANGED <<lockVars, shared, codecInfo, setting, mine, picture, room, convert, changes>>
      /\ decoding = "scale" /\ decoding' = "unlock"
  BY DEF ConvertFrameScales, DecodeGoes
<1>2. UNCHANGED <<crowded, clash, converters, attached, Convert>>
  BY <1>1 DEF lockVars, shared
<1>3. Undisturbed'
  BY <1>1, <1>2 DEF VcInv, Undisturbed, InUse
<1>4. Steady'
  BY <1>1, <1>2 DEF VcInv, Steady, Live
<1>5. ~crowded /\ misused' => clash
  <2> SUFFICES ASSUME ~crowded, ~clash, misused' PROVE FALSE
    OBVIOUS
  <2>1. InUse = {} /\ convert = attached /\ convert # None
    BY <1>1 DEF VcInv, Undisturbed
  <2>2. Settled
    BY <2>1 DEF VcInv, OneSetter
  <2>3. convert \in DOMAIN converters
    BY <2>1, <2>2 DEF Settled, Live
  <2> QED BY <2>3 DEF ConvertFrameScales, Scales
<1>6. overrun' => changes > 0
  <2> SUFFICES ASSUME overrun', ~(changes > 0) PROVE FALSE
    OBVIOUS
  <2>1. changes = 0
    BY DEF VcInv, VcShape
  <2>2. /\ convert \in Live
        /\ \/ Merge(converters[convert].src, picture) # picture
           \/ Merge(converters[convert].des, picture) # room
    BY DEF ConvertFrameScales, Scales, Live
  <2>3. converters[convert].src = picture /\ room = Merge(converters[convert].des, picture)
    BY <1>1, <2>1, <2>2 DEF VcInv, Steady
  <2> QED BY <2>2, <2>3, GeometryTypes, MergeOfWhole
<1>7. Verdicts'
  BY <1>1, <1>2, <1>5, <1>6 DEF Verdicts
<1> QED BY <1>1, <1>3, <1>4, <1>7, GeometryTypes, DecodeKeeps

LEMMA DecodeUnlocksKeeps ==
  ASSUME VcInv, ~misused, ~overrun, DecodeUnlocksConvert PROVE VcInv'
<1>1. /\ decoding' = "idle" /\ readers' = readers \ {"decode"}
      /\ picture' = codecInfo /\ room' = codecInfo /\ convert' = None /\ clash' = FALSE
      /\ UNCHANGED <<crowded, converters, nextConverter, Convert, attached>>
      /\ UNCHANGED <<codecInfo, setting, mine, changes, misused, overrun>>
  BY DEF DecodeUnlocksConvert, DecodeGoes, shared
<1>2. VcShape'
  BY <1>1 DEF VcInv, VcShape
<1>3. VcTypeOK'
  <2>1. \A u \in Setters : u \in readers' <=> setting'[u] # "idle"
    BY <1>1, ConvertAssumption DEF VcInv, VcTypeOK
  <2>2. None \in 0 .. nextConverter - 1
    BY PointerTypes
  <2> QED BY <1>1, <2>1, <2>2, GeometryTypes DEF VcInv, VcTypeOK
<1>4. OneSetter'
  BY <1>1 DEF VcInv, OneSetter, InUse, Stage, Settled, Live
<1>5. Undisturbed'
  BY <1>1 DEF Undisturbed
<1>6. Steady'
  BY <1>1 DEF VcInv, Steady, Live
<1>7. Verdicts'
  BY <1>1 DEF Verdicts
<1> QED BY <1>2, <1>3, <1>4, <1>5, <1>6, <1>7 DEF VcInv

-----------------------------------------------------------------------------
\* The parts of the state that VcInv and its conjuncts are about are kept when
\* all of it is.
LEMMA ConvertRests ==
  ASSUME VcInv, UNCHANGED vcVars PROVE VcInv'
<1>1. /\ UNCHANGED <<readers, crowded, clash, converters, nextConverter, Convert, attached>>
      /\ UNCHANGED <<codecInfo, setting, mine, decoding, picture, room, convert>>
      /\ UNCHANGED <<changes, misused, overrun>>
  BY DEF vcVars, lockVars, shared, decodeVars
<1>2. VcTypeOK' /\ VcShape'
  BY <1>1 DEF VcInv, VcTypeOK, VcShape
<1>3. OneSetter' /\ Undisturbed'
  BY <1>1 DEF VcInv, OneSetter, Undisturbed, InUse, Stage, Settled, Live
<1>4. Steady' /\ Verdicts'
  BY <1>1 DEF VcInv, Steady, Verdicts, Live, Merge
<1> QED BY <1>2, <1>3, <1>4 DEF VcInv

\* The converters, the calls of SetConvert and Decode keep to VcInv.
THEOREM ConvertInvariance == VcSpec => []VcInv
<1>1. VcInit => VcInv
  BY ConvertInit
<1>2. VcInv /\ [VcNext]_vcVars => VcInv'
  <2> SUFFICES ASSUME VcInv, [VcNext]_vcVars PROVE VcInv'
    OBVIOUS
  <2>1. ASSUME ~misused, ~overrun, NEW t \in Setters, SetConvert(t) PROVE VcInv'
    <3>1. ASSUME NEW info \in Wishes, SetConvertDecides(t, info) PROVE VcInv'
      BY <2>1, <3>1, DecidesKeeps
    <3>2. CASE SetConvertLocks(t) \/ SetConvertDetaches(t) \/ SetConvertDeletes(t)
      BY <2>1, <3>2, LocksKeeps, DetachesKeeps, DeletesKeeps
    <3>3. CASE SetConvertSwaps(t) \/ SetConvertAttaches(t) \/ SetConvertDeletesOld(t)
      BY <2>1, <3>3, SwapsKeeps, AttachesKeeps, DeletesOldKeeps
    <3>4. CASE SetConvertUnlocks(t)
      BY <2>1, <3>4, UnlocksKeeps
    <3> QED BY <2>1, <3>1, <3>2, <3>3, <3>4 DEF SetConvert
  <2>2. ASSUME ~misused, ~overrun, Decode PROVE VcInv'
    BY <2>2, DecodeLocksKeeps, DecodeWithoutConverter, ConvertFrameLoadsKeeps,
       ConvertFrameScalesKeeps, DecodeUnlocksKeeps DEF Decode
  <2>3. CASE UNCHANGED vcVars
    BY <2>3, ConvertRests
  <2> QED BY <2>1, <2>2, <2>3 DEF VcNext, VcCrashed
<1> QED BY <1>1, <1>2, PTL DEF VcSpec

\* With any number of threads that set the converter: without two calls at once
\* the only converter is the one that is attached, and only a Decode that a call
\* has overlapped uses one that is deleted.
THEOREM ConverterStaysAlive == VcSpec => []ConverterAlive
<1>1. VcInv => ConverterAlive
  BY DEF VcInv, OneSetter, Settled, Verdicts, ConverterAlive, Live
<1> QED BY <1>1, ConvertInvariance, PTL

-----------------------------------------------------------------------------
(***************************************************************************)
(* AudioOutput.  FlattenSeq is a recursive function: that one exists, and  *)
(* only one, comes from a first number for which it would not.             *)
(***************************************************************************)

\* f is what the first n elements of s make, put one behind the other.
Flattens(f, s, n) ==
  f = [i \in 1 .. n |-> IF i = 1 THEN s[i] ELSE f[i - 1] \o s[i]]

LEMMA LeastExists ==
  ASSUME NEW n \in Nat, NEW S \in SUBSET (0 .. n), S # {}
  PROVE  \E m \in S : \A j \in S : m <= j
<1> DEFINE T == {n - j : j \in S}
<1>1. \A j \in S : j \in Int /\ j >= 0 /\ j <= n
  OBVIOUS
<1>2. \A j \in S : n - j \in 0 .. n
  BY <1>1
<1>3. T \in SUBSET (0 .. n) /\ T # {}
  BY <1>2
<1>4. PICK g \in T : \A k \in T : k <= g
  <2>1. n \in Int
    OBVIOUS
  <2> HIDE DEF T
  <2> QED BY <1>3, <2>1, GreatestExists
<1>5. PICK m \in S : g = n - m
  BY <1>4
<1>6. ASSUME NEW j \in S PROVE m <= j
  <2>1. n - j <= n - m
    BY <1>4, <1>5
  <2>2. m \in Int /\ j \in Int
    BY <1>1
  <2> QED BY <2>1, <2>2
<1> QED BY <1>6

LEMMA FlattensOnce ==
  ASSUME NEW s, NEW n \in Nat, NEW k \in 0 .. n, NEW f, NEW g, Flattens(f, s, n), Flattens(g, s, k)
  PROVE  \A i \in 1 .. k : f[i] = g[i]
<1> DEFINE Apart == {i \in 1 .. k : f[i] # g[i]}
<1> SUFFICES ASSUME Apart # {} PROVE FALSE
  OBVIOUS
<1>1. Apart \in SUBSET (0 .. n)
  OBVIOUS
<1>2. PICK m \in Apart : \A j \in Apart : m <= j
  <2> HIDE DEF Apart
  <2> QED BY <1>1, LeastExists
<1>3. m \in 1 .. k /\ m \in 1 .. n /\ f[m] # g[m]
  OBVIOUS
<1>4. /\ f[m] = IF m = 1 THEN s[m] ELSE f[m - 1] \o s[m]
      /\ g[m] = IF m = 1 THEN s[m] ELSE g[m - 1] \o s[m]
  BY <1>3 DEF Flattens
<1>5. CASE m # 1
  <2>1. m - 1 \in 1 .. k /\ ~(m <= m - 1)
    BY <1>3, <1>5
  <2>2. f[m - 1] = g[m - 1]
    BY <1>2, <2>1
  <2> QED BY <1>3, <1>4, <1>5, <2>2
<1> QED BY <1>3, <1>4, <1>5

LEMMA FlattensExists ==
  ASSUME NEW s, NEW n \in Nat
  PROVE  \E f : Flattens(f, s, n)
<1> DEFINE Bad == {k \in 0 .. n : ~ \E f : Flattens(f, s, k)}
<1> SUFFICES ASSUME Bad # {} PROVE FALSE
  <2>1. n \in 0 .. n
    OBVIOUS
  <2> QED BY <2>1
<1>1. Bad \in SUBSET (0 .. n)
  OBVIOUS
<1>2. PICK m \in Bad : \A j \in Bad : m <= j
  <2> HIDE DEF Bad
  <2> QED BY <1>1, LeastExists
<1>3. m \in 0 .. n /\ ~ \E f : Flattens(f, s, m)
  OBVIOUS
<1>4. m # 0
  <2> SUFFICES ASSUME m = 0 PROVE FALSE
    OBVIOUS
  <2>1. 1 .. m = {}
    OBVIOUS
  <2>2. Flattens([i \in 1 .. m |-> 0], s, m)
    BY <2>1 DEF Flattens
  <2> QED BY <1>3, <2>2
<1>5. m - 1 \in 0 .. n /\ ~(m <= m - 1) /\ m \in Nat
  BY <1>3, <1>4
<1>6. PICK f : Flattens(f, s, m - 1)
  BY <1>2, <1>5
<1> DEFINE last == IF m = 1 THEN s[m] ELSE f[m - 1] \o s[m]
           g == [i \in 1 .. m |-> IF i = m THEN last ELSE f[i]]
<1>7. ASSUME NEW i \in 1 .. m
      PROVE  g[i] = IF i = 1 THEN s[i] ELSE g[i - 1] \o s[i]
  <2>1. CASE i = m
    <3>1. m # 1 => m - 1 \in 1 .. m /\ m - 1 # m
      BY <1>5, <1>4
    <3>2. g[i] = last
      BY <2>1
    <3>3. m # 1 => g[m - 1] = f[m - 1]
      BY <3>1
    <3> QED BY <2>1, <3>2, <3>3
  <2>2. CASE i # m
    <3>1. i \in 1 .. m - 1
      BY <1>5, <2>2
    <3>2. f[i] = IF i = 1 THEN s[i] ELSE f[i - 1] \o s[i]
      BY <1>6, <3>1 DEF Flattens
    <3>3. i # 1 => i - 1 \in 1 .. m /\ i - 1 # m
      BY <1>5, <3>1
    <3>4. g[i] = f[i] /\ (i # 1 => g[i - 1] = f[i - 1])
      BY <2>2, <3>3
    <3> QED BY <3>2, <3>4
  <2> QED BY <2>1, <2>2
<1>8. Flattens(g, s, m)
  <2>1. g = [i \in 1 .. m |-> g[i]]
    OBVIOUS
  <2> HIDE DEF g
  <2> QED BY <1>7, <2>1 DEF Flattens
<1> QED BY <1>3, <1>8

LEMMA FlattenSeqIs ==
  ASSUME NEW s, Len(s) \in Nat, Len(s) # 0
  PROVE  \E f : Flattens(f, s, Len(s)) /\ FlattenSeq(s) = f[Len(s)]
<1> DEFINE f == CHOOSE g : g = [i \in 1 .. Len(s) |-> IF i = 1 THEN s[i] ELSE g[i - 1] \o s[i]]
<1>1. \E g : g = [i \in 1 .. Len(s) |-> IF i = 1 THEN s[i] ELSE g[i - 1] \o s[i]]
  BY FlattensExists DEF Flattens
<1>2. f = [i \in 1 .. Len(s) |-> IF i = 1 THEN s[i] ELSE f[i - 1] \o s[i]]
  BY <1>1, Zenon
<1>3. FlattenSeq(s) = f[Len(s)]
  BY DEF FlattenSeq
<1> HIDE DEF f
<1> QED BY <1>2, <1>3 DEF Flattens

\* One more element comes behind what there is.
LEMMA FlattenAppend ==
  ASSUME NEW T, NEW s \in Seq(Seq(T)), NEW x \in Seq(T)
  PROVE  FlattenSeq(Append(s, x)) = FlattenSeq(s) \o x
<1> DEFINE n == Len(s)
           longer == Append(s, x)
<1>1. /\ n \in Nat /\ Len(longer) = n + 1 /\ n + 1 \in Nat /\ n + 1 # 0
      /\ longer[n + 1] = x /\ \A i \in 1 .. n : longer[i] = s[i]
  OBVIOUS
<1> HIDE DEF longer
<1>2. PICK f : Flattens(f, longer, n + 1) /\ FlattenSeq(longer) = f[n + 1]
  BY <1>1, FlattenSeqIs
<1>3. f[n + 1] = IF n + 1 = 1 THEN x ELSE f[(n + 1) - 1] \o x
  <2>1. n + 1 \in 1 .. n + 1
    BY <1>1
  <2> QED BY <1>1, <1>2, <2>1 DEF Flattens
<1>4. CASE n = 0
  <2>1. FlattenSeq(s) = <<>>
    BY <1>4 DEF FlattenSeq
  <2>2. <<>> \o x = x
    BY ConcatEmptySeq
  <2> QED BY <1>2, <1>3, <1>4, <2>1, <2>2 DEF longer
<1>5. CASE n # 0
  <2>1. PICK g : Flattens(g, s, n) /\ FlattenSeq(s) = g[n]
    BY <1>1, <1>5, FlattenSeqIs
  <2>2. Flattens(g, longer, n)
    BY <1>1, <2>1 DEF Flattens
  <2>3. f[n] = g[n]
    <3>1. n \in 0 .. n + 1 /\ n \in 1 .. n
      BY <1>1, <1>5
    <3> QED BY <1>1, <1>2, <2>2, <3>1, FlattensOnce
  <2>4. (n + 1) - 1 = n /\ n + 1 # 1
    BY <1>1, <1>5
  <2> QED BY <1>2, <1>3, <2>1, <2>3, <2>4 DEF longer
<1> QED BY <1>4, <1>5

-----------------------------------------------------------------------------
\* Numbers of frames grow along the queue, and from what was taken to it; a call
\* that has taken a frame has not asked for less than it has had of it.
Frames == [id : 1 .. MaxFrames, size : FrameSizes]
Sound == Nat \X Nat

AoShape ==
  /\ audioBuff \in Nat /\ audioBuffSize \in Nat
  /\ taken \in Seq(Frames) /\ heard \in Seq(Sound)
  /\ item \in Seq(1 .. MaxFrames)

Numbered ==
  /\ \A i, j \in 1 .. Len(audioQueue) : i < j => audioQueue[i].id < audioQueue[j].id
  /\ \A i \in 1 .. Len(audioQueue) : audioQueue[i].id <= made
  /\ \A d \in dropped : d <= made /\ \A i \in 1 .. Len(audioQueue) : d < audioQueue[i].id
  /\ Len(item) = 1 =>
       /\ item[1] <= made /\ \A i \in 1 .. Len(audioQueue) : item[1] < audioQueue[i].id
       /\ \A d \in dropped : d < item[1]

Asked ==
  /\ calling => \E n \in Requests :
       IF Len(item) = 0 THEN len <= n ELSE audioBuffIndex + len <= n
  /\ Len(item) = 1 => Len(taken) # 0 /\ taken[Len(taken)].size = audioBuffSize
  /\ dropped # {} => \E i \in 1 .. Len(taken), n \in Requests : taken[i].size < n

Accounted == heard \o Rest = FlattenSeq([i \in 1 .. Len(taken) |-> Bytes(taken[i])])

AoInv == AoTypeOK /\ AoShape /\ Numbered /\ Asked /\ Accounted

LEMMA RestTypes ==
  ASSUME AoTypeOK, AoShape
  PROVE  Rest \in Seq(Sound) /\ Len(Rest) = audioBuffSize - audioBuffIndex
<1>1. \A i \in 1 .. audioBuffSize - audioBuffIndex : <<audioBuff, audioBuffIndex + i>> \in Sound
  BY DEF AoTypeOK, AoShape, Sound
<1>2. audioBuffSize - audioBuffIndex \in Nat
  BY DEF AoTypeOK, AoShape
<1> QED BY <1>1, <1>2 DEF Rest

LEMMA BytesTypes ==
  ASSUME NEW f \in Frames
  PROVE  /\ f.id \in Nat /\ f.size \in Nat /\ f.id \in 1 .. MaxFrames
         /\ Bytes(f) \in Seq(Sound)
<1>1. f.id \in 1 .. MaxFrames /\ f.id \in Nat /\ f.size \in Nat
  <2>1. f.id \in 1 .. MaxFrames /\ f.size \in FrameSizes
    BY DEF Frames
  <2>2. FrameSizes \subseteq Nat /\ MaxFrames \in Nat
    BY AudioAssumption
  <2>3. f.size \in Nat
    BY <2>1, <2>2
  <2>4. f.id \in Nat
    BY <2>1, <2>2
  <2> QED BY <2>1, <2>3, <2>4
<1> QED BY <1>1 DEF Bytes, Sound

\* The queue's records are frames.
LEMMA QueueTypes ==
  ASSUME AoTypeOK
  PROVE  audioQueue \in Seq(Frames) /\ made \in Nat /\ MaxFrames \in Nat /\ len \in Nat
BY AudioAssumption DEF AoTypeOK, Frames

\* At most one frame fetched, and its number.
LEMMA ItemTypes ==
  ASSUME AoTypeOK, AoShape
  PROVE  /\ Len(item) \in {0, 1}
         /\ Len(item) = 1 => item[1] \in 1 .. MaxFrames /\ item[1] \in Int
<1>1. item \in Seq(1 .. MaxFrames)
  BY DEF AoShape
<1>2. Len(item) \in Nat
  BY <1>1
<1>3. Len(item) <= 1
  BY DEF AoTypeOK
<1>4. Len(item) = 0 \/ Len(item) = 1
  <2>1. PICK k \in Nat : k = Len(item)
    BY <1>2
  <2>2. k <= 1
    BY <1>3, <2>1
  <2>3. k = 0 \/ k = 1
    BY <2>2
  <2> QED BY <2>1, <2>3
<1>5. ASSUME Len(item) = 1 PROVE item[1] \in 1 .. MaxFrames
  <2> DEFINE numbers == 1 .. MaxFrames
  <2>1. item \in Seq(numbers)
    BY <1>1
  <2> HIDE DEF numbers
  <2>2. 1 \in 1 .. Len(item)
    BY <1>5
  <2>3. item[1] \in numbers
    BY <2>1, <2>2
  <2> QED BY <2>3 DEF numbers
<1>6. MaxFrames \in Nat
  BY AudioAssumption
<1> QED BY <1>4, <1>5, <1>6

\* The bytes of what was taken, with one more frame behind.
LEMMA TakenAppend ==
  ASSUME AoTypeOK, AoShape, NEW f \in Frames, taken' = Append(taken, f)
  PROVE  FlattenSeq([i \in 1 .. Len(taken) |-> Bytes(taken[i])])' =
         FlattenSeq([i \in 1 .. Len(taken) |-> Bytes(taken[i])]) \o Bytes(f)
<1> DEFINE s == [i \in 1 .. Len(taken) |-> Bytes(taken[i])]
           t == [i \in 1 .. Len(taken') |-> Bytes(taken'[i])]
<1>1. taken \in Seq(Frames) /\ Len(taken) \in Nat
  BY DEF AoShape
<1>2. s \in Seq(Seq(Sound)) /\ Len(s) = Len(taken)
  <2>1. \A i \in 1 .. Len(taken) : Bytes(taken[i]) \in Seq(Sound)
    BY <1>1, BytesTypes
  <2> QED BY <1>1, <2>1
<1>3. Len(taken') = Len(taken) + 1 /\ taken'[Len(taken) + 1] = f
      /\ \A i \in 1 .. Len(taken) : taken'[i] = taken[i]
  BY <1>1
<1>4. t = Append(s, Bytes(f))
  <2>1. DOMAIN t = 1 .. Len(taken) + 1
    BY <1>3
  <2>2. ASSUME NEW i \in 1 .. Len(taken) + 1 PROVE t[i] = Append(s, Bytes(f))[i]
    <3>1. CASE i = Len(taken) + 1
      <4>1. t[i] = Bytes(f)
        BY <1>3, <3>1
      <4>2. Append(s, Bytes(f))[i] = Bytes(f)
        <5> HIDE DEF s
        <5> QED BY <1>2, <3>1
      <4> QED BY <4>1, <4>2
    <3>2. CASE i # Len(taken) + 1
      <4>1. i \in 1 .. Len(taken)
        BY <1>1, <3>2
      <4>2. t[i] = Bytes(taken[i]) /\ s[i] = Bytes(taken[i])
        BY <1>3, <4>1
      <4>3. Append(s, Bytes(f))[i] = s[i]
        <5> HIDE DEF s
        <5> QED BY <1>2, <4>1
      <4> QED BY <4>2, <4>3
    <3> QED BY <3>1, <3>2
  <2>3. Bytes(f) \in Seq(Sound)
    BY BytesTypes
  <2>4. Append(s, Bytes(f)) \in Seq(Seq(Sound)) /\ Len(Append(s, Bytes(f))) = Len(taken) + 1
    <3> HIDE DEF s
    <3> QED BY <1>2, <2>3
  <2>5. t \in Seq(Seq(Sound)) /\ Len(t) = Len(taken) + 1
    <3>1. \A i \in 1 .. Len(taken') : Bytes(taken'[i]) \in Seq(Sound)
      <4>1. \A i \in 1 .. Len(taken') : taken'[i] \in Frames
        BY <1>1
      <4> QED BY <4>1, BytesTypes
    <3> QED BY <1>1, <1>3, <3>1
  <2> HIDE DEF s, t
  <2> QED BY <2>2, <2>4, <2>5, SeqEqual
<1>5. Bytes(f) \in Seq(Sound)
  BY BytesTypes
<1>6. FlattenSeq(t) = FlattenSeq(s) \o Bytes(f)
  <2> HIDE DEF s, t
  <2> QED BY <1>2, <1>4, <1>5, FlattenAppend
<1>7. t = s'
  BY DEF Bytes
<1> QED BY <1>6, <1>7

-----------------------------------------------------------------------------
LEMMA AoInitInv == AoInit => AoInv
<1> SUFFICES ASSUME AoInit PROVE AoInv
  OBVIOUS
<1>1. AoTypeOK
  <2>1. QueueLen \in Nat /\ MaxFrames \in Nat
    BY AudioAssumption
  <2>2. Len(audioQueue) = 0 /\ Len(item) = 0 /\ audioQueue \in Seq([id : 1 .. MaxFrames, size : FrameSizes])
    BY DEF AoInit
  <2>3. 0 <= QueueLen /\ 0 \in 0 .. MaxFrames
    BY <2>1
  <2>4. /\ Len(audioQueue) <= QueueLen /\ Len(item) <= 1 /\ made \in 0 .. MaxFrames
        /\ audioBuffIndex \in 0 .. audioBuffSize
    BY <2>2, <2>3 DEF AoInit
  <2> QED BY <2>2, <2>4 DEF AoInit, AoTypeOK
<1>2. AoShape /\ Numbered /\ Asked
  BY DEF AoInit, AoShape, Numbered, Asked
<1>3. Accounted
  <2>1. Rest = <<>>
    <3>1. Rest \in Seq(Sound) /\ Len(Rest) = audioBuffSize - audioBuffIndex
      BY <1>1, <1>2, RestTypes
    <3>2. Len(Rest) = 0
      BY <3>1 DEF AoInit
    <3> QED BY <3>1, <3>2
  <2>2. heard = <<>> /\ taken = <<>>
    BY DEF AoInit
  <2>3. FlattenSeq([i \in 1 .. Len(taken) |-> Bytes(taken[i])]) = <<>>
    <3>1. [i \in 1 .. Len(taken) |-> Bytes(taken[i])] = <<>>
      BY <2>2
    <3>2. FlattenSeq(<<>>) = <<>>
      BY DEF FlattenSeq
    <3> QED BY <3>1, <3>2
  <2>4. <<>> \o <<>> = <<>>
    OBVIOUS
  <2> QED BY <2>1, <2>2, <2>3, <2>4 DEF Accounted
<1> QED BY <1>1, <1>2, <1>3 DEF AoInv

\* Steps that touch neither the buffer nor what was heard and taken.
LEMMA AccountStays ==
  ASSUME Accounted, UNCHANGED <<audioBuff, audioBuffIndex, audioBuffSize, taken, heard>>
  PROVE  Accounted'
BY DEF Accounted, Rest, Bytes

LEMMA AddKeeps ==
  ASSUME AoInv, NEW size \in FrameSizes, AddAudioData(size) PROVE AoInv'
<1>1. /\ made < MaxFrames /\ made' = made + 1
      /\ UNCHANGED <<audioBuff, audioBuffIndex, audioBuffSize, taken, heard>>
      /\ UNCHANGED <<queueStop, device, hasAudio, calling, len, item, dropped>>
  BY DEF AddAudioData, call, buffer
<1>2. \/ UNCHANGED audioQueue
      \/ /\ Len(audioQueue) < QueueLen
         /\ audioQueue' = Append(audioQueue, [id |-> made + 1, size |-> size])
  BY <1>1 DEF AddAudioData
<1>3. audioQueue \in Seq(Frames) /\ made \in Nat /\ MaxFrames \in Nat
  BY QueueTypes DEF AoInv
<1>4. made + 1 \in 1 .. MaxFrames /\ [id |-> made + 1, size |-> size] \in Frames
  BY <1>1, <1>3 DEF Frames
<1>5. QueueLen \in Nat
  BY AudioAssumption
<1> DEFINE f == [id |-> made + 1, size |-> size]
<1>6. f.id = made + 1 /\ f \in Frames
  BY <1>4
<1> HIDE DEF f
<1>7. /\ audioQueue' \in Seq(Frames) /\ Len(audioQueue') <= QueueLen
      /\ \A i \in 1 .. Len(audioQueue') :
           \/ i \in 1 .. Len(audioQueue) /\ audioQueue'[i] = audioQueue[i]
           \/ i = Len(audioQueue) + 1 /\ i = Len(audioQueue') /\ audioQueue'[i] = f
  <2>1. CASE UNCHANGED audioQueue
    BY <1>3, <2>1 DEF AoInv, AoTypeOK
  <2>2. CASE Len(audioQueue) < QueueLen /\ audioQueue' = Append(audioQueue, f)
    BY <1>3, <1>5, <1>6, <2>2
  <2> QED BY <1>2, <2>1, <2>2 DEF f
<1>8. AoTypeOK'
  <2>1. made' \in 0 .. MaxFrames
    BY <1>1, <1>3
  <2> QED BY <1>1, <1>7, <2>1 DEF AoInv, AoTypeOK, Frames
<1>9. AoShape'
  BY <1>1 DEF AoInv, AoShape
<1>10. \A i \in 1 .. Len(audioQueue) : audioQueue[i].id \in Int /\ audioQueue[i].id <= made
  <2>1. \A i \in 1 .. Len(audioQueue) : audioQueue[i] \in Frames
    BY <1>3
  <2>2. \A i \in 1 .. Len(audioQueue) : audioQueue[i].id \in Int
    BY <2>1, BytesTypes
  <2> QED BY <2>2 DEF AoInv, Numbered
<1>11. Numbered'
  <2>1. \A i, j \in 1 .. Len(audioQueue') : i < j => audioQueue'[i].id < audioQueue'[j].id
    <3> SUFFICES ASSUME NEW i \in 1 .. Len(audioQueue'), NEW j \in 1 .. Len(audioQueue'), i < j
                 PROVE  audioQueue'[i].id < audioQueue'[j].id
      OBVIOUS
    <3>1. i \in 1 .. Len(audioQueue) /\ audioQueue'[i] = audioQueue[i]
      BY <1>3, <1>7
    <3>2. CASE j \in 1 .. Len(audioQueue) /\ audioQueue'[j] = audioQueue[j]
      BY <3>1, <3>2 DEF AoInv, Numbered
    <3>3. CASE audioQueue'[j] = f
      BY <1>3, <1>6, <1>10, <3>1, <3>3
    <3> QED BY <1>7, <3>2, <3>3
  <2>2. \A i \in 1 .. Len(audioQueue') : audioQueue'[i].id <= made'
    BY <1>1, <1>3, <1>6, <1>7, <1>10
  <2>3. ASSUME NEW d \in dropped
        PROVE  d <= made' /\ \A i \in 1 .. Len(audioQueue') : d < audioQueue'[i].id
    <3>1. d <= made /\ \A i \in 1 .. Len(audioQueue) : d < audioQueue[i].id
      BY DEF AoInv, Numbered
    <3>2. d \in Int
      BY DEF AoInv, AoTypeOK
    <3>3. d < made + 1 /\ d <= made + 1
      BY <1>3, <3>1, <3>2
    <3> QED BY <1>1, <1>6, <1>7, <3>1, <3>3
  <2>4. ASSUME Len(item) = 1
        PROVE  /\ item[1] <= made' /\ \A i \in 1 .. Len(audioQueue') : item[1] < audioQueue'[i].id
               /\ \A d \in dropped : d < item[1]
    <3>1. /\ item[1] <= made /\ \A i \in 1 .. Len(audioQueue) : item[1] < audioQueue[i].id
          /\ \A d \in dropped : d < item[1]
      BY <2>4 DEF AoInv, Numbered
    <3>2. item[1] \in Int
      BY <2>4, ItemTypes DEF AoInv
    <3>3. item[1] < made + 1 /\ item[1] <= made + 1
      BY <1>3, <3>1, <3>2
    <3> QED BY <1>1, <1>6, <1>7, <3>1, <3>3
  <2> QED BY <1>1, <2>1, <2>2, <2>3, <2>4 DEF Numbered
<1>12. Asked'
  BY <1>1 DEF AoInv, Asked
<1>13. Accounted'
  BY <1>1, AccountStays DEF AoInv
<1> QED BY <1>8, <1>9, <1>11, <1>12, <1>13 DEF AoInv

\* Clearing, resetting, opening, pausing, closing and the flag: no byte moves.
LEMMA ControlKeeps ==
  ASSUME AoInv, audioQueue' = <<>> \/ UNCHANGED audioQueue,
         queueStop' \in BOOLEAN, device' \in {"none", "paused", "playing"}, hasAudio' \in BOOLEAN,
         UNCHANGED <<calling, len, item>>,
         UNCHANGED <<audioBuff, audioBuffIndex, audioBuffSize, taken, heard>>,
         UNCHANGED <<made, dropped>>
  PROVE  AoInv'
<1>1. audioQueue' \in Seq([id : 1 .. MaxFrames, size : FrameSizes]) /\ Len(audioQueue') <= QueueLen
  <2>1. CASE audioQueue' = <<>>
    <3>1. Len(audioQueue') = 0 /\ 0 <= QueueLen
      BY <2>1, AudioAssumption
    <3> QED BY <2>1, <3>1
  <2>2. CASE UNCHANGED audioQueue
    BY <2>2 DEF AoInv, AoTypeOK
  <2> QED BY <2>1, <2>2
<1>2. AoTypeOK'
  BY <1>1 DEF AoInv, AoTypeOK
<1>3. AoShape' /\ Asked'
  BY DEF AoInv, AoShape, Asked
<1>4. Numbered'
  BY DEF AoInv, Numbered
<1>5. Accounted'
  BY AccountStays DEF AoInv
<1> QED BY <1>2, <1>3, <1>4, <1>5 DEF AoInv

-----------------------------------------------------------------------------
LEMMA BeginsKeeps ==
  ASSUME AoInv, NEW n \in Requests, CallBegins(n) PROVE AoInv'
<1>1. /\ calling' = TRUE /\ len' = n /\ item' = <<>>
      /\ UNCHANGED <<audioBuff, audioBuffIndex, audioBuffSize, taken, heard>>
      /\ UNCHANGED <<audioQueue, queueStop, device, hasAudio, made, dropped>>
  BY DEF CallBegins, queue, buffer, history
<1>2. n \in Nat /\ n <= n
  BY AudioAssumption
<1>3. Len(item') = 0 /\ item' \in Seq(1 .. MaxFrames)
  BY <1>1
<1>4. AoTypeOK' /\ AoShape'
  BY <1>1, <1>2, <1>3 DEF AoInv, AoTypeOK, AoShape
<1>5. Numbered' /\ Asked'
  BY <1>1, <1>2, <1>3 DEF AoInv, Numbered, Asked
<1>6. Accounted'
  BY <1>1, AccountStays DEF AoInv
<1> QED BY <1>4, <1>5, <1>6 DEF AoInv

\* A call that has had all of a frame and wants more has asked for more than the
\* frame was long.
LEMMA ItemIsShort ==
  ASSUME AoInv, Exhausted
  PROVE  /\ dropped \cup Range(item) # {} =>
              \E i \in 1 .. Len(taken), n \in Requests : taken[i].size < n
         /\ Rest = <<>>
         /\ Range(item) = IF Len(item) = 1 THEN {item[1]} ELSE {}
         /\ Len(item) \in {0, 1}
<1>1. audioBuffIndex = audioBuffSize /\ audioBuffSize \in Nat /\ len \in Nat /\ len > 0 /\ calling
  BY QueueTypes DEF AoInv, AoTypeOK, AoShape, Exhausted
<1>2. Rest = <<>>
  <2>1. Rest \in Seq(Sound) /\ Len(Rest) = audioBuffSize - audioBuffIndex
    BY RestTypes DEF AoInv
  <2>2. Len(Rest) = 0
    BY <1>1, <2>1
  <2> QED BY <2>1, <2>2
<1>3. Len(item) \in {0, 1} /\ item \in Seq(1 .. MaxFrames)
  BY ItemTypes DEF AoInv, AoShape
<1>4. Range(item) = IF Len(item) = 1 THEN {item[1]} ELSE {}
  <2>1. DOMAIN item = 1 .. Len(item)
    BY <1>3
  <2>2. CASE Len(item) = 1
    <3>1. DOMAIN item = {1}
      BY <2>1, <2>2
    <3> QED BY <2>2, <3>1 DEF Range
  <2>3. CASE Len(item) = 0
    <3>1. DOMAIN item = {}
      BY <2>1, <2>3
    <3> QED BY <2>3, <3>1 DEF Range
  <2> QED BY <1>3, <2>2, <2>3
<1>5. ASSUME Len(item) = 1
      PROVE  \E i \in 1 .. Len(taken), n \in Requests : taken[i].size < n
  <2>1. PICK n \in Requests : audioBuffIndex + len <= n
    BY <1>1, <1>5 DEF AoInv, Asked
  <2>2. n \in Nat
    BY AudioAssumption
  <2>3. Len(taken) # 0 /\ taken[Len(taken)].size = audioBuffSize
    BY <1>5 DEF AoInv, Asked
  <2>4. Len(taken) \in 1 .. Len(taken)
    BY <2>3 DEF AoInv, AoShape
  <2>5. audioBuffSize < n
    BY <1>1, <2>1, <2>2
  <2> QED BY <2>3, <2>4, <2>5
<1>6. dropped # {} => \E i \in 1 .. Len(taken), n \in Requests : taken[i].size < n
  BY DEF AoInv, Asked
<1> QED BY <1>2, <1>3, <1>4, <1>5, <1>6

LEMMA FetchesKeeps ==
  ASSUME AoInv, CallFetches PROVE AoInv'
<1>1. Exhausted /\ audioQueue # <<>> /\ audioQueue' = Tail(audioQueue)
  BY DEF CallFetches
<1>2. audioQueue \in Seq(Frames) /\ made \in Nat /\ MaxFrames \in Nat /\ len \in Nat
  BY QueueTypes DEF AoInv
<1>3. PICK f \in Frames : f = Head(audioQueue)
  BY <1>1, <1>2
<1>4. /\ audioBuff' = f.id /\ audioBuffIndex' = 0 /\ audioBuffSize' = f.size
      /\ taken' = Append(taken, f) /\ item' = <<f.id>> /\ dropped' = dropped \cup Range(item)
      /\ UNCHANGED <<queueStop, device, hasAudio, calling, len, made, heard>>
  BY <1>3 DEF CallFetches
<1>5. f.id \in Nat /\ f.size \in Nat /\ f.id \in 1 .. MaxFrames /\ Bytes(f) \in Seq(Sound)
  BY BytesTypes
<1>6. /\ audioQueue' \in Seq(Frames) /\ Len(audioQueue') = Len(audioQueue) - 1
      /\ Len(audioQueue) \in Nat /\ 1 \in 1 .. Len(audioQueue) /\ f = audioQueue[1]
      /\ \A i \in 1 .. Len(audioQueue') :
           /\ audioQueue'[i] = audioQueue[i + 1] /\ i + 1 \in 1 .. Len(audioQueue) /\ 1 < i + 1
  BY <1>1, <1>2, <1>3
<1>7. /\ dropped' # {} => \E i \in 1 .. Len(taken), n \in Requests : taken[i].size < n
      /\ Rest = <<>> /\ Range(item) = IF Len(item) = 1 THEN {item[1]} ELSE {}
      /\ Len(item) \in {0, 1}
  BY <1>1, <1>4, ItemIsShort
<1>8. Len(item') = 1 /\ item'[1] = f.id /\ item' \in Seq(1 .. MaxFrames)
  BY <1>4, <1>5
<1>9. /\ taken' \in Seq(Frames) /\ Len(taken') = Len(taken) + 1 /\ Len(taken) \in Nat
      /\ taken'[Len(taken')] = f /\ \A i \in 1 .. Len(taken) : taken'[i] = taken[i]
  BY <1>4 DEF AoInv, AoShape
<1>10. AoTypeOK'
  <2>1. dropped' \subseteq 1 .. MaxFrames
    <3>1. Len(item) = 1 => item[1] \in 1 .. MaxFrames
      BY ItemTypes DEF AoInv
    <3> QED BY <1>4, <1>7, <3>1 DEF AoInv, AoTypeOK
  <2>2. Len(audioQueue') <= QueueLen
    BY <1>6, AudioAssumption DEF AoInv, AoTypeOK
  <2>3. audioBuffIndex' \in 0 .. audioBuffSize'
    BY <1>4, <1>5
  <2> QED BY <1>4, <1>6, <1>8, <2>1, <2>2, <2>3 DEF AoInv, AoTypeOK, Frames
<1>11. AoShape'
  BY <1>4, <1>5, <1>8, <1>9 DEF AoInv, AoShape
<1>12. Numbered'
  <2>1. \A i \in 1 .. Len(audioQueue') : f.id < audioQueue'[i].id
    BY <1>6 DEF AoInv, Numbered
  <2>2. \A i, j \in 1 .. Len(audioQueue') : i < j => audioQueue'[i].id < audioQueue'[j].id
    <3> SUFFICES ASSUME NEW i \in 1 .. Len(audioQueue'), NEW j \in 1 .. Len(audioQueue'), i < j
                 PROVE  audioQueue'[i].id < audioQueue'[j].id
      OBVIOUS
    <3>1. i + 1 < j + 1
      OBVIOUS
    <3>2. /\ audioQueue'[i] = audioQueue[i + 1] /\ i + 1 \in 1 .. Len(audioQueue)
          /\ audioQueue'[j] = audioQueue[j + 1] /\ j + 1 \in 1 .. Len(audioQueue)
      BY <1>6
    <3> QED BY <3>1, <3>2 DEF AoInv, Numbered
  <2>3. \A i \in 1 .. Len(audioQueue') : audioQueue'[i].id <= made'
    BY <1>4, <1>6 DEF AoInv, Numbered
  <2>4. f.id <= made'
    BY <1>4, <1>6 DEF AoInv, Numbered
  <2>5. ASSUME NEW d \in dropped'
        PROVE  d <= made' /\ d < f.id /\ \A i \in 1 .. Len(audioQueue') : d < audioQueue'[i].id
    <3>1. d \in dropped \/ (Len(item) = 1 /\ d = item[1])
      BY <1>4, <1>7
    <3>2. d <= made /\ \A i \in 1 .. Len(audioQueue) : d < audioQueue[i].id
      BY <3>1 DEF AoInv, Numbered
    <3> QED BY <1>4, <1>6, <3>2
  <2> QED BY <1>8, <2>1, <2>2, <2>3, <2>4, <2>5 DEF Numbered
<1>13. Asked'
  <2>1. calling' => \E n \in Requests : audioBuffIndex' + len' <= n
    <3> SUFFICES ASSUME calling PROVE \E n \in Requests : len <= n
      BY <1>2, <1>4
    <3>1. PICK n \in Requests : IF Len(item) = 0 THEN len <= n ELSE audioBuffIndex + len <= n
      BY DEF AoInv, Asked
    <3>2. n \in Nat /\ audioBuffIndex \in Nat
      BY AudioAssumption DEF AoInv, AoTypeOK, AoShape
    <3> QED BY <1>2, <3>1, <3>2
  <2>2. Len(taken') # 0 /\ taken'[Len(taken')].size = audioBuffSize'
    BY <1>4, <1>9
  <2>3. dropped' # {} => \E i \in 1 .. Len(taken'), n \in Requests : taken'[i].size < n
    <3>1. \A i \in 1 .. Len(taken) : i \in 1 .. Len(taken') /\ taken'[i] = taken[i]
      BY <1>9
    <3> QED BY <1>7, <3>1
  <2> QED BY <1>8, <2>1, <2>2, <2>3 DEF Asked
<1>14. Accounted'
  <2>1. Rest' = Bytes(f)
    <3>1. f.size - 0 = f.size /\ \A i \in 1 .. f.size : 0 + i = i
      BY <1>5
    <3> QED BY <1>4, <3>1 DEF Rest, Bytes
  <2>2. heard \o Rest = heard
    BY <1>7, ConcatEmptySeq DEF AoInv, AoShape
  <2>3. FlattenSeq([i \in 1 .. Len(taken) |-> Bytes(taken[i])])' =
        FlattenSeq([i \in 1 .. Len(taken) |-> Bytes(taken[i])]) \o Bytes(f)
    BY <1>4, TakenAppend DEF AoInv
  <2> QED BY <1>4, <2>1, <2>2, <2>3 DEF AoInv, Accounted
<1> QED BY <1>10, <1>11, <1>12, <1>13, <1>14 DEF AoInv


LEMMA RunsDryKeeps ==
  ASSUME AoInv, CallRunsDry PROVE AoInv'
<1>1. /\ Exhausted
      /\ calling' = FALSE /\ len' = 0 /\ item' = <<>> /\ dropped' = dropped \cup Range(item)
      /\ UNCHANGED <<audioBuff, audioBuffIndex, audioBuffSize, taken, heard>>
      /\ UNCHANGED <<audioQueue, queueStop, device, hasAudio, made>>
  BY DEF CallRunsDry, queue, buffer
<1>2. /\ dropped' # {} => \E i \in 1 .. Len(taken), n \in Requests : taken[i].size < n
      /\ Range(item) = IF Len(item) = 1 THEN {item[1]} ELSE {}
  BY <1>1, ItemIsShort
<1>3. Len(item') = 0 /\ item' \in Seq(1 .. MaxFrames)
  BY <1>1
<1>4. dropped' \subseteq 1 .. MaxFrames
  <2>1. Len(item) = 1 => item[1] \in 1 .. MaxFrames
    BY ItemTypes DEF AoInv
  <2> QED BY <1>1, <1>2, <2>1 DEF AoInv, AoTypeOK
<1>5. AoTypeOK' /\ AoShape'
  <2>1. 0 <= 1
    OBVIOUS
  <2>2. Len(item') <= 1
    BY <1>3, <2>1, Zenon
  <2>3. AoTypeOK'
    BY <1>1, <1>4, <2>2 DEF AoInv, AoTypeOK
  <2> QED BY <1>1, <1>3, <2>3 DEF AoInv, AoShape
<1>6. ASSUME NEW d \in dropped'
      PROVE  d <= made' /\ \A i \in 1 .. Len(audioQueue') : d < audioQueue'[i].id
  <2>1. d \in dropped \/ (Len(item) = 1 /\ d = item[1])
    BY <1>1, <1>2
  <2>2. d <= made /\ \A i \in 1 .. Len(audioQueue) : d < audioQueue[i].id
    BY <2>1 DEF AoInv, Numbered
  <2> QED BY <1>1, <2>2
<1>7. Numbered'
  BY <1>1, <1>3, <1>6 DEF AoInv, Numbered
<1>8. Asked'
  BY <1>1, <1>2, <1>3 DEF Asked
<1>9. Accounted'
  BY <1>1, AccountStays DEF AoInv
<1> QED BY <1>5, <1>7, <1>8, <1>9 DEF AoInv

\* The frame without data comes last in taken, with no bytes.
LEMMA FindsNoDataKeeps ==
  ASSUME AoInv, CallFindsNoData PROVE AoInv'
<1>1. Exhausted /\ audioQueue # <<>> /\ audioQueue' = Tail(audioQueue)
  BY DEF CallFindsNoData
<1>2. audioQueue \in Seq(Frames) /\ made \in Nat /\ MaxFrames \in Nat /\ len \in Nat
  BY QueueTypes DEF AoInv
<1>3. PICK f \in Frames : f = Head(audioQueue)
  BY <1>1, <1>2
<1>4. /\ f.size = 0 /\ calling' = FALSE /\ len' = 0 /\ item' = <<>>
      /\ taken' = Append(taken, f) /\ dropped' = dropped \cup Range(item) \cup {f.id}
      /\ UNCHANGED <<audioBuff, audioBuffIndex, audioBuffSize>>
      /\ UNCHANGED <<queueStop, device, hasAudio, made, heard>>
  BY <1>3 DEF CallFindsNoData, buffer
<1>5. f.id \in Nat /\ f.id \in 1 .. MaxFrames
  BY BytesTypes
<1>6. /\ audioQueue' \in Seq(Frames) /\ Len(audioQueue') = Len(audioQueue) - 1
      /\ Len(audioQueue) \in Nat /\ 1 \in 1 .. Len(audioQueue) /\ f = audioQueue[1]
      /\ \A i \in 1 .. Len(audioQueue') :
           /\ audioQueue'[i] = audioQueue[i + 1] /\ i + 1 \in 1 .. Len(audioQueue) /\ 1 < i + 1
  BY <1>1, <1>2, <1>3
<1>7. Range(item) = IF Len(item) = 1 THEN {item[1]} ELSE {}
  BY <1>1, ItemIsShort
<1>8. Len(item') = 0 /\ item' \in Seq(1 .. MaxFrames)
  BY <1>4
<1>9. /\ taken' \in Seq(Frames) /\ Len(taken') = Len(taken) + 1 /\ Len(taken) \in Nat
      /\ taken'[Len(taken')] = f
  BY <1>4 DEF AoInv, AoShape
<1>10. AoTypeOK'
  <2>1. dropped' \subseteq 1 .. MaxFrames
    <3>1. Len(item) = 1 => item[1] \in 1 .. MaxFrames
      BY ItemTypes DEF AoInv
    <3> QED BY <1>4, <1>5, <1>7, <3>1 DEF AoInv, AoTypeOK
  <2>2. Len(audioQueue') <= QueueLen
    BY <1>6, AudioAssumption DEF AoInv, AoTypeOK
  <2>3. 0 <= 1 /\ 0 \in Nat
    OBVIOUS
  <2>4. Len(item') <= 1
    BY <1>8, <2>3, Zenon
  <2> QED BY <1>4, <1>6, <2>1, <2>2, <2>3, <2>4 DEF AoInv, AoTypeOK, Frames
<1>11. AoShape'
  BY <1>4, <1>8, <1>9 DEF AoInv, AoShape
<1>12. Numbered'
  <2>1. \A i, j \in 1 .. Len(audioQueue') : i < j => audioQueue'[i].id < audioQueue'[j].id
    <3> SUFFICES ASSUME NEW i \in 1 .. Len(audioQueue'), NEW j \in 1 .. Len(audioQueue'), i < j
                 PROVE  audioQueue'[i].id < audioQueue'[j].id
      OBVIOUS
    <3>1. i + 1 < j + 1
      OBVIOUS
    <3>2. /\ audioQueue'[i] = audioQueue[i + 1] /\ i + 1 \in 1 .. Len(audioQueue)
          /\ audioQueue'[j] = audioQueue[j + 1] /\ j + 1 \in 1 .. Len(audioQueue)
      BY <1>6
    <3> QED BY <3>1, <3>2 DEF AoInv, Numbered
  <2>2. \A i \in 1 .. Len(audioQueue') : audioQueue'[i].id <= made' /\ f.id < audioQueue'[i].id
    BY <1>4, <1>6 DEF AoInv, Numbered
  <2>3. f.id <= made'
    BY <1>4, <1>6 DEF AoInv, Numbered
  <2>4. ASSUME NEW d \in dropped'
        PROVE  d <= made' /\ \A i \in 1 .. Len(audioQueue') : d < audioQueue'[i].id
    <3>1. CASE d = f.id
      BY <2>2, <2>3, <3>1
    <3>2. CASE d # f.id
      <4>1. d \in dropped \/ (Len(item) = 1 /\ d = item[1])
        BY <1>4, <1>7, <3>2
      <4>2. d <= made /\ \A i \in 1 .. Len(audioQueue) : d < audioQueue[i].id
        BY <4>1 DEF AoInv, Numbered
      <4> QED BY <1>4, <1>6, <4>2
    <3> QED BY <3>1, <3>2
  <2> QED BY <1>8, <2>1, <2>2, <2>4 DEF Numbered
<1>13. Asked'
  <2>1. PICK n \in Requests : TRUE
    BY <1>1 DEF Exhausted, AoInv, Asked
  <2>2. 0 < n
    BY AudioAssumption
  <2>3. Len(taken') \in 1 .. Len(taken') /\ taken'[Len(taken')].size < n
    BY <1>4, <1>9, <2>2
  <2> QED BY <1>4, <1>8, <2>3 DEF Asked
<1>14. Accounted'
  <2>1. Bytes(f) = <<>>
    BY <1>4 DEF Bytes
  <2>2. FlattenSeq([i \in 1 .. Len(taken) |-> Bytes(taken[i])])' =
        FlattenSeq([i \in 1 .. Len(taken) |-> Bytes(taken[i])]) \o Bytes(f)
    BY <1>4, TakenAppend DEF AoInv
  <2>3. Rest' = Rest
    BY <1>4 DEF Rest
  <2>4. Rest = <<>>
    BY <1>1, ItemIsShort
  <2>5. heard \o <<>> = heard
    BY ConcatEmptySeq DEF AoInv, AoShape
  <2>6. heard = FlattenSeq([i \in 1 .. Len(taken) |-> Bytes(taken[i])])
    BY <2>4, <2>5 DEF AoInv, Accounted
  <2>7. heard \in Seq(Sound)
    BY DEF AoInv, AoShape
  <2>8. FlattenSeq([i \in 1 .. Len(taken) |-> Bytes(taken[i])])' = heard
    BY <2>1, <2>2, <2>5, <2>6
  <2> QED BY <1>4, <2>3, <2>4, <2>5, <2>8 DEF Accounted
<1> QED BY <1>10, <1>11, <1>12, <1>13, <1>14 DEF AoInv

\* A sequence is its beginning and what is left when that is cut off.
LEMMA RestSplits ==
  ASSUME AoTypeOK, AoShape, NEW k \in 0 .. audioBuffSize - audioBuffIndex,
         UNCHANGED <<audioBuff, audioBuffSize>>, audioBuffIndex' = audioBuffIndex + k
  PROVE  /\ Rest = SubSeq(Rest, 1, k) \o Rest'
         /\ SubSeq(Rest, 1, k) \in Seq(Sound) /\ Rest' \in Seq(Sound)
<1>1. Rest \in Seq(Sound) /\ Len(Rest) = audioBuffSize - audioBuffIndex
  BY RestTypes
<1>2. audioBuffSize \in Nat /\ audioBuffIndex \in Nat /\ k \in Nat /\ k <= Len(Rest) /\ audioBuff \in Nat
  BY <1>1 DEF AoTypeOK, AoShape
<1> DEFINE head == SubSeq(Rest, 1, k)
<1>3. head \in Seq(Sound) /\ Len(head) = k /\ \A i \in 1 .. k : head[i] = Rest[i]
  <2> DEFINE m == Len(Rest)
  <2>1. \A i \in 1 .. k : i \in 1 .. m
    BY <1>2
  <2> QED BY <1>1, <1>2, <2>1
<1>4. Rest' = [i \in 1 .. (audioBuffSize - audioBuffIndex) - k |-> <<audioBuff, audioBuffIndex + k + i>>]
  <2>1. audioBuffSize - (audioBuffIndex + k) = (audioBuffSize - audioBuffIndex) - k
    BY <1>2
  <2> QED BY <2>1 DEF Rest
<1>5. /\ Rest' \in Seq(Sound) /\ Len(Rest') = Len(Rest) - k
      /\ \A i \in 1 .. Len(Rest) - k : Rest'[i] = <<audioBuff, audioBuffIndex + k + i>>
  <2>1. Len(Rest) - k \in Nat
    BY <1>1, <1>2
  <2>2. \A i \in 1 .. Len(Rest) - k : <<audioBuff, audioBuffIndex + k + i>> \in Sound
    BY <1>1, <1>2 DEF Sound
  <2>3. Rest' = [i \in 1 .. Len(Rest) - k |-> <<audioBuff, audioBuffIndex + k + i>>]
    BY <1>1, <1>4
  <2> QED BY <2>1, <2>2, <2>3
<1>6. \A i \in 1 .. Len(Rest) : Rest[i] = <<audioBuff, audioBuffIndex + i>>
  BY <1>1 DEF Rest
<1> HIDE DEF head
<1>7. PICK r \in Seq(Sound) : r = Rest
  BY <1>1
<1>8. PICK t \in Seq(Sound) : t = Rest'
  BY <1>5
<1>9. head \o t \in Seq(Sound) /\ Len(head \o t) = Len(r) /\ Len(r) \in Nat
  BY <1>1, <1>2, <1>3, <1>5, <1>7, <1>8
<1>10. ASSUME NEW i \in 1 .. Len(r) PROVE (head \o t)[i] = r[i]
  <2>1. CASE i <= k
    <3>1. (head \o t)[i] = head[i]
      BY <1>2, <1>3, <1>9, <2>1
    <3> QED BY <1>2, <1>3, <1>7, <2>1, <3>1
  <2>2. CASE ~(i <= k)
    <3>1. i - k \in 1 .. Len(r) - k /\ k + (i - k) = i
      BY <1>2, <1>9, <2>2
    <3>2. (head \o t)[i] = t[i - k]
      BY <1>2, <1>3, <1>5, <1>8, <1>9, <2>2
    <3>3. t[i - k] = <<audioBuff, audioBuffIndex + k + (i - k)>>
      BY <1>5, <1>7, <1>8, <3>1
    <3>4. audioBuffIndex + k + (i - k) = audioBuffIndex + i
      BY <1>2, <1>9
    <3>5. r[i] = <<audioBuff, audioBuffIndex + i>>
      BY <1>6, <1>7
    <3> QED BY <3>2, <3>3, <3>4, <3>5
  <2> QED BY <2>1, <2>2
<1>11. head \o t = r
  BY <1>9, <1>10, SeqEqual
<1> QED BY <1>3, <1>5, <1>7, <1>8, <1>11 DEF head

LEMMA CopiesKeep ==
  ASSUME AoInv, CallCopies PROVE AoInv'
<1>1. len \in Nat /\ audioBuffSize \in Nat /\ audioBuffIndex \in Nat /\ audioBuffIndex <= audioBuffSize
      /\ Rest \in Seq(Sound) /\ Len(Rest) = audioBuffSize - audioBuffIndex
  BY QueueTypes, RestTypes DEF AoInv, AoTypeOK, AoShape
<1>2. PICK k \in Nat : k = IF Len(Rest) > len THEN len ELSE Len(Rest)
  <2>1. PICK m \in Nat : m = Len(Rest)
    BY <1>1
  <2>2. (IF m > len THEN len ELSE m) \in Nat
    BY <1>1
  <2> QED BY <2>1, <2>2
<1>3. /\ heard' = heard \o SubSeq(Rest, 1, k)
      /\ len' = len - k /\ audioBuffIndex' = audioBuffIndex + k /\ calling
      /\ UNCHANGED <<audioQueue, queueStop, device, hasAudio, calling, item>>
      /\ UNCHANGED <<audioBuff, audioBuffSize, made, taken, dropped>>
  BY <1>2 DEF CallCopies, queue
<1>4. k <= len /\ k \in 0 .. audioBuffSize - audioBuffIndex
  BY <1>1, <1>2
<1>5. /\ Rest = SubSeq(Rest, 1, k) \o Rest'
      /\ SubSeq(Rest, 1, k) \in Seq(Sound) /\ Rest' \in Seq(Sound)
  BY <1>3, <1>4, RestSplits DEF AoInv
<1>6. AoTypeOK'
  <2>1. len' \in Nat /\ audioBuffIndex' \in 0 .. audioBuffSize'
    BY <1>1, <1>3, <1>4
  <2> QED BY <1>3, <2>1 DEF AoInv, AoTypeOK
<1>7. AoShape'
  <2>1. heard' \in Seq(Sound)
    <3> DEFINE head == SubSeq(Rest, 1, k)
    <3>1. head \in Seq(Sound) /\ heard \in Seq(Sound) /\ heard' = heard \o head
      BY <1>3, <1>5 DEF AoInv, AoShape
    <3> HIDE DEF head
    <3> QED BY <3>1
  <2> QED BY <1>3, <2>1 DEF AoInv, AoShape
<1>8. Numbered'
  BY <1>3 DEF AoInv, Numbered
<1>9. Asked'
  <2>1. PICK n \in Requests : IF Len(item) = 0 THEN len <= n ELSE audioBuffIndex + len <= n
    BY <1>3 DEF AoInv, Asked
  <2>2. n \in Nat
    BY AudioAssumption
  <2>3. IF Len(item') = 0 THEN len' <= n ELSE audioBuffIndex' + len' <= n
    <3>1. CASE Len(item) = 0
      BY <1>1, <1>3, <1>4, <2>1, <2>2, <3>1
    <3>2. CASE Len(item) # 0
      BY <1>1, <1>3, <1>4, <2>1, <2>2, <3>2
    <3> QED BY <3>1, <3>2
  <2> QED BY <1>3, <2>3 DEF AoInv, Asked
<1>10. Accounted'
  <2> DEFINE head == SubSeq(Rest, 1, k)
             all == FlattenSeq([i \in 1 .. Len(taken) |-> Bytes(taken[i])])
  <2>1. heard \o Rest = all
    BY DEF AoInv, Accounted
  <2>2. PICK t \in Seq(Sound) : t = Rest'
    BY <1>5
  <2>3. heard \in Seq(Sound) /\ head \in Seq(Sound)
    BY <1>5 DEF AoInv, AoShape
  <2>4. Rest = head \o t /\ heard' = heard \o head
    BY <1>3, <1>5, <2>2
  <2>5. (heard \o head) \o t = heard \o (head \o t)
    <3> HIDE DEF head
    <3> QED BY <2>3, ConcatAssociative, SMTT(20)
  <2>6. heard' \o t = all
    BY <2>1, <2>4, <2>5
  <2>7. all' = all
    BY <1>3 DEF Bytes
  <2> HIDE DEF head, all
  <2>8. heard' \o Rest' = all'
    BY <2>2, <2>6, <2>7
  <2> QED BY <2>8 DEF Accounted, all
<1> QED BY <1>6, <1>7, <1>8, <1>9, <1>10 DEF AoInv

LEMMA ReturnsKeep ==
  ASSUME AoInv, CallReturns PROVE AoInv'
<1>1. /\ calling' = FALSE /\ item' = <<>>
      /\ UNCHANGED <<audioBuff, audioBuffIndex, audioBuffSize, taken, heard>>
      /\ UNCHANGED <<audioQueue, queueStop, device, hasAudio, len, made, dropped>>
  BY DEF CallReturns, queue, buffer, history
<1>2. Len(item') = 0 /\ item' \in Seq(1 .. MaxFrames)
  BY <1>1
<1>3. AoTypeOK'
  <2>1. 0 <= 1
    OBVIOUS
  <2>2. Len(item') <= 1
    BY <1>2, <2>1, Zenon
  <2> QED BY <1>1, <2>2 DEF AoInv, AoTypeOK
<1>4. AoShape'
  BY <1>1, <1>2 DEF AoInv, AoShape
<1>5. Numbered' /\ Asked'
  BY <1>1, <1>2 DEF AoInv, Numbered, Asked
<1>6. Accounted'
  BY <1>1, AccountStays DEF AoInv
<1> QED BY <1>3, <1>4, <1>5, <1>6 DEF AoInv

\* What the program does between the calls.
LEMMA ControlsKeep ==
  ASSUME AoInv,
         \/ ClearAudioData \/ ResetAudioData
         \/ OpenAudio \/ PlayOrPauseAudio \/ CloseAudio \/ SetAudioFlag
  PROVE  AoInv'
<1>1. UNCHANGED <<calling, len, item>>
  BY DEF ClearAudioData, ResetAudioData, OpenAudio, PlayOrPauseAudio, CloseAudio, SetAudioFlag, call
<1>2. UNCHANGED <<audioBuff, audioBuffIndex, audioBuffSize, taken, heard>>
  BY DEF ClearAudioData, ResetAudioData, OpenAudio, PlayOrPauseAudio, CloseAudio, SetAudioFlag, buffer, history
<1>3. UNCHANGED <<made, dropped>>
  BY DEF ClearAudioData, ResetAudioData, OpenAudio, PlayOrPauseAudio, CloseAudio, SetAudioFlag, history
<1>4. audioQueue' = <<>> \/ UNCHANGED audioQueue
  BY DEF ClearAudioData, ResetAudioData, OpenAudio, PlayOrPauseAudio, CloseAudio, SetAudioFlag, queue
<1>5. /\ queueStop \in BOOLEAN /\ hasAudio \in BOOLEAN /\ device \in {"none", "paused", "playing"}
  BY DEF AoInv, AoTypeOK
<1>6. /\ queueStop' \in BOOLEAN /\ hasAudio' \in BOOLEAN /\ device' \in {"none", "paused", "playing"}
  <2>1. CASE ClearAudioData
    BY <1>5, <2>1 DEF ClearAudioData
  <2>2. CASE ResetAudioData
    BY <1>5, <2>2 DEF ResetAudioData
  <2>3. CASE OpenAudio
    BY <1>5, <2>3 DEF OpenAudio, queue
  <2>4. CASE PlayOrPauseAudio
    BY <1>5, <2>4 DEF PlayOrPauseAudio, queue
  <2>5. CASE CloseAudio
    BY <1>5, <2>5 DEF CloseAudio, queue
  <2>6. CASE SetAudioFlag
    BY <1>5, <2>6 DEF SetAudioFlag, queue
  <2> QED BY <2>1, <2>2, <2>3, <2>4, <2>5, <2>6
<1> QED BY <1>1, <1>2, <1>3, <1>4, <1>6, ControlKeeps

LEMMA AoStep ==
  ASSUME AoInv, [AoNext]_aoVars PROVE AoInv'
<1>1. ASSUME NEW size \in FrameSizes, AddAudioData(size) PROVE AoInv'
  BY <1>1, AddKeeps
<1>2. ASSUME ClearAudioData \/ ResetAudioData \/ OpenAudio \/ PlayOrPauseAudio \/ CloseAudio \/ SetAudioFlag
      PROVE  AoInv'
  BY <1>2, ControlsKeep
<1>3. ASSUME AudioCall PROVE AoInv'
  BY <1>3, BeginsKeeps, FetchesKeeps, RunsDryKeeps, FindsNoDataKeeps,
     CopiesKeep, ReturnsKeep DEF AudioCall
<1>4. ASSUME UNCHANGED aoVars PROVE AoInv'
  <2>1. UNCHANGED <<audioBuff, audioBuffIndex, audioBuffSize, taken, heard>>
    BY <1>4 DEF aoVars, buffer, history
  <2>2. UNCHANGED <<audioQueue, queueStop, device, hasAudio>> /\ UNCHANGED <<calling, len, item>>
        /\ UNCHANGED <<made, dropped>>
    BY <1>4 DEF aoVars, queue, call, history
  <2>3. /\ queueStop \in BOOLEAN /\ hasAudio \in BOOLEAN /\ device \in {"none", "paused", "playing"}
    BY DEF AoInv, AoTypeOK
  <2> QED BY <2>1, <2>2, <2>3, ControlKeeps
<1> QED BY <1>1, <1>2, <1>3, <1>4 DEF AoNext

THEOREM AudioInvariance == AoSpec => []AoInv
<1>1. AoInit => AoInv
  BY AoInitInv
<1>2. AoInv /\ [AoNext]_aoVars => AoInv'
  BY AoStep
<1> QED BY <1>1, <1>2, PTL DEF AoSpec

\* Every byte taken from the queue is heard once and in its order, whatever the
\* program does with the device between the calls of audioCall.
THEOREM EveryByteIsHeard == AoSpec => []AudioAccounted
<1>1. AoInv => AudioAccounted
  <2> SUFFICES ASSUME AoInv PROVE AudioAccounted
    OBVIOUS
  <2>1. item \in Seq(1 .. MaxFrames)
    BY DEF AoInv, AoShape
  <2>2. ASSUME NEW d \in dropped, d \in Range(item) PROVE FALSE
    <3>1. Len(item) \in {0, 1} /\ DOMAIN item = 1 .. Len(item)
      BY <2>1, ItemTypes DEF AoInv
    <3>2. PICK i \in 1 .. Len(item) : d = item[i]
      BY <2>2, <3>1 DEF Range
    <3>3. Len(item) = 1 /\ i = 1
      BY <3>1, <3>2
    <3>4. d < d
      BY <3>2, <3>3 DEF AoInv, Numbered
    <3>5. d \in Int
      BY DEF AoInv, AoTypeOK
    <3> QED BY <3>4, <3>5
  <2>3. dropped \cap Range(item) = {}
    BY <2>2
  <2> QED BY <2>3 DEF AoInv, Accounted, Asked, AudioAccounted
<1> QED BY <1>1, AudioInvariance, PTL

-----------------------------------------------------------------------------
(***************************************************************************)
(* MediaSynchronise.  Two numbers say how a player that comes on time      *)
(* fares: by how much the video is ahead of the audio, D, and how far the  *)
(* frame timer lags behind the time when the video clock was set, G; a     *)
(* third, L, is the duration of the frame to come, which grows by a step   *)
(* with every frame whose wait is rounded.  Rank bounds the time for which *)
(* the clocks may be out of sync, and falls by a step with every frame     *)
(* that moves them.                                                        *)
(***************************************************************************)
Thr(s) == SyncThreshold(s)

\* Compute_target_delay as a function of the difference.
Target(D, s) ==
  IF Abs(D) >= MaxFrame \/ Abs(D) < Thr(s) THEN s
  ELSE IF D < 0 THEN (IF s + D >= 0 THEN s + D ELSE 0)
  ELSE IF s > FrameDup THEN s + D ELSE 2 * s

\* In sync and to remain so.
Resolved(D, G) == G <= SyncMax /\ -SyncMax < D + G /\ D + G < 2 * SyncMax

Rank(D, G, s) ==
  IF G <= SyncMax THEN Abs(D + G)
  ELSE IF D <= 0 THEN SyncMax - D + 3 * s
  ELSE MaxFrame + SyncMax + s

LEMMA MaxOfTwo ==
  ASSUME NEW a \in Int, NEW b \in Int PROVE Max({a, b}) = IF a >= b THEN a ELSE b
<1> DEFINE m == IF a >= b THEN a ELSE b
<1>1. m \in {a, b} /\ \A y \in {a, b} : m >= y
  OBVIOUS
<1>2. PICK x : x = Max({a, b})
  OBVIOUS
<1>3. x \in {a, b} /\ \A y \in {a, b} : x >= y
  BY <1>1, <1>2 DEF Max
<1>4. x >= a /\ x >= b
  BY <1>3
<1> QED BY <1>2, <1>3, <1>4

LEMMA MinOfTwo ==
  ASSUME NEW a \in Int, NEW b \in Int PROVE Min({a, b}) = IF a <= b THEN a ELSE b
<1> DEFINE m == IF a <= b THEN a ELSE b
<1>1. m \in {a, b} /\ \A y \in {a, b} : m <= y
  OBVIOUS
<1>2. PICK x : x = Min({a, b})
  OBVIOUS
<1>3. x \in {a, b} /\ \A y \in {a, b} : x <= y
  BY <1>1, <1>2 DEF Min
<1>4. x <= a /\ x <= b
  BY <1>3
<1> QED BY <1>2, <1>3, <1>4

LEMMA Limits ==
  /\ SyncMin \in Nat /\ SyncMax \in Nat /\ MaxFrame \in Nat /\ FrameDup \in Nat /\ Refresh \in Nat
  /\ StartTime \in Nat /\ NaN \notin Int
  /\ Ms \in Nat /\ 0 < Ms /\ Ms <= SyncMin /\ Ms <= Refresh
  /\ SyncMin <= SyncMax /\ SyncMax < MaxFrame /\ FrameDup <= SyncMax
  /\ \A s \in FrameSteps : s \in Nat /\ 0 < s /\ s < MaxFrame /\ Ms <= s
  /\ MaxShown \in Nat
BY SyncAssumption

LEMMA ThrIs ==
  ASSUME NEW s \in Nat
  PROVE  /\ Thr(s) \in Nat /\ 0 < Thr(s) /\ Thr(s) <= SyncMax
         /\ s <= SyncMax => s <= Thr(s)
         /\ \A r \in Nat : r <= s => Thr(r) <= Thr(s)
<1>1. ASSUME NEW r \in Nat
      PROVE  Thr(r) = IF SyncMax <= r THEN SyncMax ELSE IF SyncMin >= r THEN SyncMin ELSE r
  <2>1. PICK m : m = Min({SyncMax, r})
    OBVIOUS
  <2>2. m = IF SyncMax <= r THEN SyncMax ELSE r
    BY <2>1, Limits, MinOfTwo
  <2>3. m \in Int /\ m <= SyncMax
    BY <2>2, Limits
  <2>4. Thr(r) = Max({SyncMin, m})
    BY <2>1 DEF Thr, SyncThreshold
  <2>5. Thr(r) = IF SyncMin >= m THEN SyncMin ELSE m
    BY <2>3, <2>4, Limits, MaxOfTwo
  <2> QED BY <2>2, <2>3, <2>5, Limits
<1> HIDE DEF Thr
<1>2. Thr(s) \in Nat /\ 0 < Thr(s) /\ Thr(s) <= SyncMax /\ (s <= SyncMax => s <= Thr(s))
  BY <1>1, Limits
<1>3. ASSUME NEW r \in Nat, r <= s PROVE Thr(r) <= Thr(s)
  <2>1. /\ Thr(r) = IF SyncMax <= r THEN SyncMax ELSE IF SyncMin >= r THEN SyncMin ELSE r
        /\ Thr(s) = IF SyncMax <= s THEN SyncMax ELSE IF SyncMin >= s THEN SyncMin ELSE s
    BY <1>1
  <2> QED BY <1>3, <2>1, Limits
<1> QED BY <1>2, <1>3

LEMMA TargetNat ==
  ASSUME NEW d \in Nat, NEW D \in Int PROVE Target(D, d) \in Nat
<1>1. PICK t \in Nat : t = Thr(d) /\ 0 < t
  BY ThrIs
<1> QED BY <1>1, Limits DEF Target, Abs

\* How the delay depends on the difference.
LEMMA TargetIs ==
  ASSUME NEW s \in Nat, NEW D \in Int, NEW d, d = Target(D, s)
  PROVE  \/ d = s
         \/ D < 0 /\ D > -MaxFrame /\ D + s < 0 /\ d = 0
         \/ D < 0 /\ D > -MaxFrame /\ D + s >= 0 /\ d = s + D
         \/ D > 0 /\ D < MaxFrame /\ s > FrameDup /\ d = s + D
         \/ D > 0 /\ D < MaxFrame /\ s <= FrameDup /\ d = 2 * s
<1>1. PICK t \in Nat : t = Thr(s) /\ 0 < t
  BY ThrIs
<1> QED BY <1>1, Limits DEF Target, Abs

\* A difference of the largest threshold or more is always corrected.
LEMMA TargetFar ==
  ASSUME NEW s \in Nat, NEW D \in Int, NEW d, d = Target(D, s), Abs(D) < MaxFrame
  PROVE  /\ D <= -SyncMax => d = (IF s + D >= 0 THEN s + D ELSE 0)
         /\ D >= SyncMax => d = (IF s > FrameDup THEN s + D ELSE 2 * s)
<1>1. PICK t \in Nat : t = Thr(s) /\ 0 < t /\ t <= SyncMax
  BY ThrIs
<1> QED BY <1>1, Limits DEF Target, Abs

\* A longer duration may shorten the delay, but not by more than the largest
\* threshold.
LEMMA DelayDrops ==
  ASSUME NEW D \in Int, NEW r \in Nat, NEW s \in Nat, 0 < r, r <= s
  PROVE  \/ Target(D, r) <= Target(D, s)
         \/ Target(D, r) + (s - r) <= Target(D, s) + SyncMax
<1>1. PICK t \in Nat, u \in Nat : /\ t = Thr(r) /\ u = Thr(s) /\ 0 < t /\ t <= u /\ u <= SyncMax
                                  /\ (r <= SyncMax => r <= t)
  <2>1. Thr(r) \in Nat /\ Thr(s) \in Nat /\ 0 < Thr(r) /\ Thr(s) <= SyncMax
        /\ (r <= SyncMax => r <= Thr(r)) /\ Thr(r) <= Thr(s)
    BY ThrIs
  <2> QED BY <2>1
<1>2. SyncMax \in Nat /\ MaxFrame \in Nat /\ FrameDup \in Nat /\ FrameDup <= SyncMax
  BY Limits
<1>3. CASE Abs(D) >= MaxFrame \/ Abs(D) < t
  <2>1. Target(D, r) = r
    BY <1>1, <1>3 DEF Target
  <2>2. Target(D, s) >= s
    BY <1>1, <1>2, <1>3 DEF Target, Abs
  <2> QED BY <2>1, <2>2, TargetNat
<1>4. CASE Abs(D) < MaxFrame /\ Abs(D) >= t /\ D < 0
  BY <1>1, <1>2, <1>4 DEF Target, Abs
<1>5. CASE Abs(D) < MaxFrame /\ Abs(D) >= t /\ D >= 0 /\ r > FrameDup
  <2>1. Target(D, r) = r + D
    BY <1>1, <1>2, <1>5 DEF Target, Abs
  <2>2. Target(D, s) = s + D \/ (Target(D, s) = s /\ D < SyncMax)
    BY <1>1, <1>2, <1>5 DEF Target, Abs
  <2> QED BY <1>2, <2>1, <2>2
<1>6. CASE Abs(D) < MaxFrame /\ Abs(D) >= t /\ D >= 0 /\ r <= FrameDup
  <2>1. Target(D, r) = 2 * r /\ r <= D
    BY <1>1, <1>2, <1>6 DEF Target, Abs
  <2>2. Target(D, s) = s + D \/ Target(D, s) = s \/ Target(D, s) = 2 * s
    BY <1>1, <1>2, <1>6 DEF Target, Abs
  <2> QED BY <1>2, <1>6, <2>1, <2>2
<1>7. Abs(D) \in Int
  BY DEF Abs
<1> QED BY <1>1, <1>2, <1>3, <1>4, <1>5, <1>6, <1>7

\* What a frame of duration L that is shown e after the video clock was set does
\* to the two numbers, if the player comes on time.
Moves(D, G, L, e, E, H, s) ==
  LET d == Target(D, L)
      lag == G + e - d
  IN  /\ lag >= 0 /\ (e = 0 \/ lag <= SyncMax)
      /\ (e = 0 /\ L = s) \/ G <= Target(D, s)
      /\ E = D + L - e
      /\ H = IF d > 0 /\ lag > SyncMax THEN 0 ELSE lag

LEMMA MovesTypes ==
  ASSUME NEW s \in Nat, 0 < s, NEW D \in Int, NEW G \in Nat, NEW L \in Nat, s <= L, NEW e \in Nat,
         NEW E, NEW H, Moves(D, G, L, e, E, H, s)
  PROVE  E \in Int /\ H \in Nat
<1>1. PICK d \in Nat : d = Target(D, L)
  BY TargetNat
<1> QED BY <1>1 DEF Moves

\* The timer never lags far behind again.
LEMMA DelayDropsLittle ==
  ASSUME NEW D \in Int, NEW r \in Nat, NEW s \in Nat, 0 < r, r <= s,
         NEW f \in Nat, f = Target(D, r), NEW d \in Nat, d = Target(D, s)
  PROVE  f <= d + SyncMax
<1>1. f <= d \/ f + (s - r) <= d + SyncMax
  BY DelayDrops
<1> QED BY <1>1, Limits

LEMMA ResolvedStays ==
  ASSUME NEW s \in Nat, 0 < s, NEW D \in Int, NEW G \in Nat, NEW L \in Nat, s <= L, NEW e \in Nat,
         Resolved(D, G), NEW E, NEW H, Moves(D, G, L, e, E, H, s)
  PROVE  Resolved(E, H)
<1>2. PICK d \in Nat, f \in Nat : d = Target(D, L) /\ f = Target(D, s)
  BY TargetNat
<1>3. E \in Int /\ H \in Nat
  BY MovesTypes
<1>1. H <= SyncMax /\ E + H = D + G + L - d
  <2>1. f <= d + SyncMax
    BY <1>2, DelayDropsLittle
  <2> QED BY <1>2, <1>3, <2>1, Limits DEF Moves, Resolved
<1>4. PICK X \in Int : X = D + G /\ -SyncMax < X /\ X < 2 * SyncMax /\ G <= SyncMax
  BY DEF Resolved
<1>5. -SyncMax < X + L - d /\ X + L - d < 2 * SyncMax
  <2>1. CASE d = L
    BY <1>4, <2>1, Limits
  <2>2. CASE D < 0 /\ D + L < 0 /\ d = 0
    BY <1>4, <2>2, Limits
  <2>3. CASE D < 0 /\ D + L >= 0 /\ d = L + D
    BY <1>4, <2>3, Limits
  <2>4. CASE D > 0 /\ L > FrameDup /\ d = L + D
    BY <1>4, <2>4, Limits
  <2>5. CASE D > 0 /\ L <= FrameDup /\ d = 2 * L
    BY <1>4, <2>5, Limits
  <2> QED BY <1>2, <2>1, <2>2, <2>3, <2>4, <2>5, TargetIs
<1>6. E + H = X + L - d
  BY <1>1, <1>2, <1>4
<1> QED BY <1>1, <1>3, <1>5, <1>6 DEF Resolved

LEMMA RankIs ==
  ASSUME NEW s \in Nat, 0 < s, NEW D \in Int, NEW G \in Nat, Abs(D) < MaxFrame
  PROVE  Rank(D, G, s) \in Nat /\ Rank(D, G, s) <= MaxFrame + SyncMax + 3 * s
BY Limits DEF Rank, Abs

LEMMA RankFalls ==
  ASSUME NEW s \in Nat, 0 < s, NEW D \in Int, NEW G \in Nat, NEW L \in Nat, s <= L, NEW e \in Nat,
         ~Resolved(D, G), NEW E, NEW H, Moves(D, G, L, e, E, H, s),
         Abs(D) < MaxFrame, Abs(E) < MaxFrame
  PROVE  Resolved(E, H) \/ Rank(E, H, s) <= Rank(D, G, s) - s
<1>1. PICK d \in Nat, f \in Nat : d = Target(D, L) /\ f = Target(D, s)
  BY TargetNat
<1>2. E \in Int /\ H \in Nat
  BY MovesTypes
<1>3. SyncMax \in Nat /\ MaxFrame \in Nat /\ SyncMax < MaxFrame /\ FrameDup \in Nat /\ FrameDup <= SyncMax
  BY Limits
<1>0. f <= d + SyncMax
  BY <1>1, DelayDropsLittle
<1>4. CASE G <= SyncMax
  <2>1. H <= SyncMax /\ E + H = D + G + L - d
    BY <1>0, <1>1, <1>2, <1>3, <1>4 DEF Moves
  <2>2. PICK X \in Int : X = D + G /\ Rank(D, G, s) = Abs(X) /\ (X <= -SyncMax \/ X >= 2 * SyncMax)
    BY <1>3, <1>4 DEF Resolved, Rank
  <2>3. PICK Y \in Int : Y = E + H /\ Y = X + L - d /\ Rank(E, H, s) = Abs(Y)
    BY <1>2, <2>1, <2>2 DEF Rank
  <2>4. CASE X <= -SyncMax
    <3>1. D <= -SyncMax
      BY <1>3, <2>2, <2>4
    <3>2. d = IF L + D >= 0 THEN L + D ELSE 0
      BY <1>1, <3>1, TargetFar
    <3>3. CASE L + D >= 0
      <4>1. Y = G
        BY <2>2, <2>3, <3>2, <3>3
      <4>2. SyncMax > 0
        BY Limits
      <4> QED BY <1>2, <1>3, <1>4, <2>1, <2>3, <4>1, <4>2 DEF Resolved
    <3>4. CASE L + D < 0
      <4>1. Y = X + L
        BY <2>2, <2>3, <3>2, <3>4
      <4>2. CASE Y <= -SyncMax
        BY <1>3, <2>2, <2>3, <4>1, <4>2 DEF Abs
      <4>3. CASE Y > -SyncMax
        <5>1. Y < 2 * SyncMax
          BY <1>3, <1>4, <2>2, <3>4, <4>1
        <5> QED BY <1>2, <1>3, <2>1, <2>3, <4>3, <5>1 DEF Resolved
      <4> QED BY <1>3, <4>2, <4>3
    <3> QED BY <3>3, <3>4
  <2>5. CASE X >= 2 * SyncMax
    <3>1. D >= SyncMax
      BY <1>3, <1>4, <2>2, <2>5
    <3>2. d = IF L > FrameDup THEN L + D ELSE 2 * L
      BY <1>1, <3>1, TargetFar
    <3>3. CASE L > FrameDup
      <4>1. Y = G
        BY <2>2, <2>3, <3>2, <3>3
      <4>2. SyncMax > 0
        BY Limits
      <4> QED BY <1>2, <1>3, <1>4, <2>1, <2>3, <4>1, <4>2 DEF Resolved
    <3>4. CASE L <= FrameDup
      <4>1. Y = X - L
        <5>1. d = 2 * L
          BY <3>2, <3>4, <1>3
        <5> QED BY <2>3, <5>1
      <4>2. Y >= 0
        BY <1>3, <2>2, <2>5, <3>4, <4>1
      <4>3. Y <= X - s
        BY <4>1
      <4> QED BY <1>3, <2>2, <2>3, <2>5, <4>2, <4>3 DEF Abs
    <3> QED BY <1>3, <3>3, <3>4
  <2> QED BY <2>2, <2>4, <2>5
<1>5. CASE G > SyncMax /\ G <= f
  <2>1. H <= SyncMax /\ E + H = D + G + L - d
    BY <1>0, <1>1, <1>2, <1>3, <1>5 DEF Moves
  <2>2. Rank(E, H, s) = Abs(E + H)
    BY <2>1 DEF Rank
  <2>3. CASE D <= 0
    <3>1. Rank(D, G, s) = SyncMax - D + 3 * s
      BY <1>3, <1>5, <2>3 DEF Rank
    <3>2. f <= s
      BY <1>1, <2>3, TargetIs
    <3>3. d <= L /\ L - d <= -D
      BY <1>1, <2>3, TargetIs
    <3>4. G <= s
      BY <1>5, <3>2
    <3> QED BY <1>2, <1>3, <2>1, <2>2, <2>3, <3>1, <3>3, <3>4 DEF Abs
  <2>4. CASE D > 0
    <3>1. Rank(D, G, s) = MaxFrame + SyncMax + s
      BY <1>3, <1>5, <2>4 DEF Rank
    <3> QED BY <1>2, <1>3, <2>1, <2>2, <3>1 DEF Abs
  <2> QED BY <2>3, <2>4
<1>6. CASE G > SyncMax /\ ~(G <= f)
  <2>1. e = 0 /\ L = s /\ E = D + s /\ G >= d /\ H = IF d > 0 /\ G - d > SyncMax THEN 0 ELSE G - d
    BY <1>1, <1>6 DEF Moves
  <2>2. CASE D <= 0
    <3>1. Rank(D, G, s) = SyncMax - D + 3 * s
      BY <1>3, <1>6, <2>2 DEF Rank
    <3>2. d <= s /\ (d = 0 => D + s <= 0)
      <4>1. d = s \/ (D + s < 0 /\ d = 0) \/ (D < 0 /\ D + s >= 0 /\ d = s + D)
        BY <1>1, <2>1, <2>2, TargetIs
      <4> QED BY <2>2, <4>1
    <3>3. CASE H = 0
      <4>1. Rank(E, H, s) = Abs(E)
        BY <1>2, <1>3, <3>3 DEF Rank
      <4> QED BY <1>2, <1>3, <2>1, <2>2, <3>1, <4>1 DEF Abs
    <3>4. CASE H # 0 /\ H <= SyncMax
      <4>1. Rank(E, H, s) = Abs(E + H)
        BY <3>4 DEF Rank
      <4> QED BY <1>2, <1>3, <2>1, <2>2, <3>1, <3>4, <4>1 DEF Abs
    <3>5. CASE H # 0 /\ H > SyncMax
      <4>1. d = 0
        BY <1>1, <1>3, <2>1, <3>5
      <4>2. Rank(E, H, s) = SyncMax - E + 3 * s
        BY <1>2, <1>3, <2>1, <3>2, <3>5, <4>1 DEF Rank
      <4> QED BY <1>2, <1>3, <2>1, <3>1, <4>2
    <3> QED BY <1>2, <1>3, <3>3, <3>4, <3>5
  <2>3. CASE D > 0
    <3>1. Rank(D, G, s) = MaxFrame + SyncMax + s
      BY <1>3, <1>6, <2>3 DEF Rank
    <3>2. d > 0
      <4>1. d = s \/ d = s + D \/ d = 2 * s
        BY <1>1, <2>1, <2>3, TargetIs
      <4> QED BY <2>3, <4>1
    <3>3. H <= SyncMax
      BY <1>1, <1>3, <2>1, <3>2
    <3>4. Rank(E, H, s) = Abs(E + H)
      BY <3>3 DEF Rank
    <3> QED BY <1>2, <1>3, <3>1, <3>3, <3>4 DEF Abs
  <2> QED BY <2>2, <2>3
<1>7. G <= SyncMax \/ G > SyncMax
  BY <1>3
<1> QED BY <1>4, <1>5, <1>6, <1>7

-----------------------------------------------------------------------------
\* When the video clock was last set, by that clock.
ShownAt == frameLastPts - videoClock

\* The duration of the frame to come.
Length == framePts - frameLastPts

MsShape ==
  /\ MsTypeOK
  /\ audioFrameNextPts \in Int \cup {NaN}

\* Two frames after an upset the time stamps grow by a step with every frame.
Regular ==
  /\ calm >= 1 => stamped
  /\ calm >= 2 => videoClock \in Int /\ step <= Length /\ Length < MaxFrame

\* A frame is shown when it is due or in the millisecond that follows, or at once
\* if it was due before; for one that was not the timer does not lag.
OnTime ==
  calm >= 2 /\ audioClock # NaN =>
    LET D == videoClock - audioClock
        due == frameTimer + Target(D, Length)
    IN  /\ frameTimer <= ShownAt /\ ShownAt <= now
        /\ now = ShownAt \/ now <= due + SyncMax
        /\ answer # -1 => now + answer * Ms <= due
        /\ \/ now = ShownAt /\ Length = step
           \/ ShownAt <= frameTimer + Target(D, step)

\* The bound that is left is used up with the frames that move the clocks.
Converging ==
  calm >= 2 /\ audioClock # NaN =>
    LET D == videoClock - audioClock
        G == ShownAt - frameTimer
    IN  \/ Resolved(D, G)
        \/ Abs(D) < MaxFrame /\ Rank(D, G, step) + calm * step <= MaxFrame + SyncMax + 5 * step

SyncInv == MsShape /\ Regular /\ OnTime /\ Converging

LEMMA TargetDelay ==
  ASSUME NEW d \in Nat, audioClock \in Int, videoClock \in Int
  PROVE  ComputeTargetDelay(d) = Target(videoClock - audioClock, d)
<1>1. PICK D \in Int : D = videoClock - audioClock
  OBVIOUS
<1>2. Diff = D /\ Diff # NaN
  BY <1>1, Limits DEF Diff
<1>3. Max({0, d + D}) = IF d + D >= 0 THEN d + D ELSE 0
  <2>1. d + D \in Int /\ 0 \in Int
    BY <1>1
  <2>2. Max({0, d + D}) = IF 0 >= d + D THEN 0 ELSE d + D
    BY <2>1, MaxOfTwo
  <2> QED BY <2>1, <2>2
<1> QED BY <1>1, <1>2, <1>3 DEF ComputeTargetDelay, Target, Thr

LEMMA MsTypes ==
  ASSUME MsShape
  PROVE  /\ now \in Nat /\ frameTimer \in Nat /\ frameTimer <= now
         /\ frameLastPts \in Nat /\ framePts \in Nat /\ stamped \in BOOLEAN
         /\ step \in FrameSteps /\ step \in Nat /\ 0 < step /\ step < MaxFrame /\ Ms <= step
         /\ audioClock \in Int \cup {NaN} /\ videoClock \in Int \cup {NaN}
         /\ answer \in Int /\ -1 <= answer /\ answer <= Refresh
         /\ shown \in Nat /\ shown <= MaxShown /\ calm \in Nat /\ calm <= shown /\ upsets \in Nat
         /\ Length \in Int
<1>1. /\ now \in Nat /\ step \in FrameSteps /\ frameTimer \in 0 .. now /\ answer \in -1 .. Refresh
      /\ shown \in 0 .. MaxShown /\ calm \in 0 .. shown /\ upsets \in Nat
      /\ frameLastPts \in Nat /\ framePts \in Nat /\ stamped \in BOOLEAN
  BY DEF MsShape, MsTypeOK
<1>2. frameTimer \in Nat /\ frameTimer <= now
  BY <1>1
<1>3. step \in Nat /\ 0 < step /\ step < MaxFrame /\ Ms <= step
  BY <1>1, Limits
<1>4. answer \in Int /\ -1 <= answer /\ answer <= Refresh
  BY <1>1, Limits
<1>5. shown \in Nat /\ shown <= MaxShown
  BY <1>1, Limits
<1>6. calm \in Nat /\ calm <= shown
  BY <1>1, <1>5
<1>7. Length \in Int
  BY <1>1 DEF Length
<1> QED BY <1>1, <1>2, <1>3, <1>4, <1>5, <1>6, <1>7 DEF MsShape, MsTypeOK

\* The duration is a sane one, and the delay a time.
LEMMA DelayIs ==
  ASSUME MsShape
  PROVE  /\ LastDuration \in 0 .. MaxFrame - 1 /\ Delay \in Nat
         /\ audioClock \in Int /\ videoClock \in Int =>
              Delay = Target(videoClock - audioClock, LastDuration)
<1>1. /\ frameLastDuration \in 0 .. MaxFrame - 1 /\ frameLastPts \in Nat
      /\ audioClock \in Int \cup {NaN} /\ videoClock \in Int \cup {NaN}
  BY DEF MsShape, MsTypeOK
<1>2. LastDuration \in 0 .. MaxFrame - 1
  <2>1. MaxFrame \in Nat /\ 0 < MaxFrame
    BY Limits
  <2>2. CASE stamped /\ framePts - frameLastPts \in 1 .. MaxFrame - 1
    <3>1. LastDuration = framePts - frameLastPts
      BY <2>2 DEF LastDuration
    <3> QED BY <2>1, <2>2, <3>1
  <2>3. CASE ~(stamped /\ framePts - frameLastPts \in 1 .. MaxFrame - 1)
    <3>1. LastDuration = frameLastDuration
      BY <2>3 DEF LastDuration
    <3> QED BY <1>1, <3>1
  <2> QED BY <2>2, <2>3
<1>3. LastDuration \in Nat
  BY <1>2, Limits
<1>4. CASE audioClock \in Int /\ videoClock \in Int
  <2>1. Delay = Target(videoClock - audioClock, LastDuration)
    BY <1>3, <1>4, TargetDelay DEF Delay
  <2>2. videoClock - audioClock \in Int
    BY <1>4
  <2>3. Delay \in Nat
    BY <1>3, <2>1, <2>2, TargetNat
  <2> QED BY <1>2, <2>1, <2>3
<1>5. CASE ~(audioClock \in Int /\ videoClock \in Int)
  <2>1. Diff = NaN
    BY <1>1, <1>5 DEF Diff
  <2>2. Delay = LastDuration
    BY <2>1 DEF Delay, ComputeTargetDelay
  <2> QED BY <1>2, <1>3, <1>5, <2>2
<1> QED BY <1>4, <1>5

\* While time stamps are regular the duration is the difference of two.
LEMMA RegularDelay ==
  ASSUME MsShape, Regular, calm >= 2, audioClock # NaN
  PROVE  /\ videoClock \in Int /\ audioClock \in Int /\ Length \in Nat /\ step <= Length
         /\ Delay = Target(videoClock - audioClock, Length)
<1>1. stamped /\ videoClock \in Int /\ audioClock \in Int /\ step <= Length /\ Length < MaxFrame
  BY MsTypes DEF Regular
<1>2. Length \in 1 .. MaxFrame - 1 /\ Length \in Nat
  BY <1>1, MsTypes, Limits
<1>3. LastDuration = Length
  BY <1>1, <1>2 DEF LastDuration, Length
<1> QED BY <1>1, <1>2, <1>3, DelayIs

\* Whole milliseconds.
LEMMA DivIs ==
  ASSUME NEW a \in Nat, NEW m \in Nat, 0 < m
  PROVE  /\ a \div m \in Nat /\ (a \div m) * m <= a /\ a < (a \div m + 1) * m
         /\ a \div m <= a /\ (a >= m => a \div m >= 1)
<1>1. PICK q \in Nat : q = a \div m
  OBVIOUS
<1>2. q * m <= a /\ a < (q + 1) * m /\ q * m \in Nat
  BY <1>1
<1>3. q <= q * m
  BY <1>1
<1>4. a >= m => q >= 1
  BY <1>1, <1>2
<1> QED BY <1>1, <1>2, <1>3, <1>4

LEMMA UpsetKeeps ==
  ASSUME MsShape', calm' = 0 PROVE SyncInv'
BY DEF SyncInv, Regular, OnTime, Converging

LEMMA WaitsKeeps ==
  ASSUME SyncInv, GetVideoDelayWaits PROVE SyncInv'
<1> DEFINE left == Due - now
<1>1. /\ answer = -1 /\ left >= Ms
      /\ frameLastDuration' = LastDuration /\ answer' = Min({left, Refresh}) \div Ms
      /\ now' = now /\ step' = step /\ audioClock' = audioClock /\ videoClock' = videoClock
      /\ audioFrameNextPts' = audioFrameNextPts /\ frameTimer' = frameTimer
      /\ frameLastPts' = frameLastPts /\ framePts' = framePts /\ stamped' = stamped
      /\ shown' = shown /\ upsets' = upsets /\ calm' = calm
  BY DEF GetVideoDelayWaits, clocks
<1>2. MsShape /\ Regular /\ OnTime /\ Converging
  BY DEF SyncInv
<1>3. /\ LastDuration \in 0 .. MaxFrame - 1 /\ Delay \in Nat
      /\ now \in Nat /\ frameTimer \in Nat /\ Refresh \in Nat /\ Ms <= Refresh /\ Ms \in Nat /\ 0 < Ms
  BY <1>2, DelayIs, MsTypes, Limits
<1>4. left \in Nat /\ left = frameTimer + Delay - now
  BY <1>1, <1>3 DEF Due
<1> HIDE DEF left
<1>5. PICK a \in Nat : a = Min({left, Refresh}) /\ a <= left /\ a <= Refresh /\ Ms <= a
  <2>1. Min({left, Refresh}) = IF left <= Refresh THEN left ELSE Refresh
    BY <1>3, <1>4, MinOfTwo
  <2> QED BY <1>1, <1>3, <1>4, <2>1
<1>6. answer' \in Nat /\ answer' \in -1 .. Refresh /\ answer' * Ms <= left /\ answer' * Ms \in Nat
  <2>1. a \div Ms \in Nat /\ (a \div Ms) * Ms <= a /\ a \div Ms <= a
    BY <1>3, <1>5, DivIs
  <2>2. PICK q \in Nat : q = a \div Ms /\ q * Ms <= a /\ q <= a
    BY <2>1
  <2>3. answer' = q
    BY <1>1, <1>5, <2>2
  <2> QED BY <1>3, <1>4, <1>5, <2>2, <2>3
<1>7. MsShape'
  BY <1>1, <1>2, <1>3, <1>6 DEF MsShape, MsTypeOK
<1>8. Regular' /\ Converging'
  BY <1>1, <1>2 DEF Regular, Converging, ShownAt, Length
<1>9. OnTime'
  <2> SUFFICES ASSUME calm >= 2, audioClock # NaN PROVE OnTime'
    BY <1>1 DEF OnTime
  <2>1. Delay = Target(videoClock - audioClock, Length)
    BY <1>2, RegularDelay
  <2>2. now + answer' * Ms <= frameTimer + Delay
    <3>1. PICK b \in Nat : b = answer' * Ms /\ b <= left
      BY <1>6
    <3> QED BY <1>3, <1>4, <3>1
  <2>3. ShownAt' = ShownAt /\ Length' = Length
    BY <1>1 DEF ShownAt, Length
  <2> QED BY <1>1, <1>2, <2>1, <2>2, <2>3 DEF OnTime
<1> QED BY <1>7, <1>8, <1>9 DEF SyncInv

LEMMA SleepKeeps ==
  ASSUME SyncInv, Sleep PROVE SyncInv'
<1>1. PICK tick \in {0, Ms} :
        /\ answer # -1 /\ answer' = -1 /\ now' = now + answer * Ms + tick
        /\ step' = step /\ audioClock' = audioClock /\ videoClock' = videoClock
        /\ audioFrameNextPts' = audioFrameNextPts /\ frameTimer' = frameTimer
        /\ frameLastPts' = frameLastPts /\ framePts' = framePts /\ stamped' = stamped
        /\ frameLastDuration' = frameLastDuration
        /\ shown' = shown /\ upsets' = upsets /\ calm' = calm
  BY DEF Sleep, clocks, frame
<1>2. MsShape /\ Regular /\ OnTime /\ Converging
  BY DEF SyncInv
<1>3. /\ now \in Nat /\ frameTimer \in Nat /\ frameTimer <= now /\ answer \in Nat /\ Refresh \in Nat
      /\ Ms \in Nat /\ Ms <= SyncMax /\ SyncMax \in Nat /\ tick \in Nat /\ tick <= Ms
  BY <1>1, <1>2, MsTypes, Limits
<1>4. PICK slept \in Nat : slept = answer * Ms
  BY <1>3
<1>5. now' = now + slept + tick
  BY <1>1, <1>4
<1>6. now' \in Nat /\ now <= now' /\ frameTimer \in 0 .. now' /\ -1 \in -1 .. Refresh
  BY <1>3, <1>5
<1>7. MsShape'
  BY <1>1, <1>2, <1>6 DEF MsShape, MsTypeOK
<1>8. Regular' /\ Converging'
  BY <1>1, <1>2 DEF Regular, Converging, ShownAt, Length
<1>9. OnTime'
  <2> SUFFICES ASSUME calm >= 2, audioClock # NaN PROVE OnTime'
    BY <1>1 DEF OnTime
  <2>0. videoClock - audioClock \in Int /\ step \in Nat /\ Length \in Nat
    BY <1>2, MsTypes, RegularDelay
  <2>1. PICK d \in Nat, f \in Nat : d = Target(videoClock - audioClock, Length)
                                    /\ f = Target(videoClock - audioClock, step)
    BY <2>0, TargetNat
  <2>2. /\ frameTimer <= ShownAt /\ ShownAt <= now /\ now + slept <= frameTimer + d
        /\ (now = ShownAt /\ Length = step) \/ ShownAt <= frameTimer + f
    BY <1>1, <1>2, <1>4, <2>1 DEF OnTime
  <2>3. ShownAt' = ShownAt /\ ShownAt \in Int /\ Length' = Length
    BY <1>1, <1>2, MsTypes DEF ShownAt, Regular, Length
  <2>4. ShownAt <= now' /\ now' <= frameTimer + d + SyncMax
    BY <1>3, <1>5, <2>2, <2>3
  <2>5. ShownAt <= frameTimer + f
    <3>1. CASE now = ShownAt /\ Length = step
      BY <1>3, <2>1, <2>2, <3>1
    <3> QED BY <2>2, <3>1
  <2> QED BY <1>1, <2>1, <2>2, <2>3, <2>4, <2>5 DEF OnTime
<1> QED BY <1>7, <1>8, <1>9 DEF SyncInv

LEMMA OneMoreFrame ==
  ASSUME NEW a \in Nat, NEW s \in Nat PROVE (a + 1) * s = a * s + s /\ a * s \in Nat /\ 1 * s = s
OBVIOUS

\* The time that SettleTime grants is longer than what any upset can take.
LEMMA SettleTimeIs ==
  ASSUME NEW s \in Nat, 0 < s, NEW n \in Nat, n >= (MaxFrame + SyncMax) \div s + 6
  PROVE  n * s > MaxFrame + SyncMax + 5 * s
<1>1. PICK a \in Nat : a = MaxFrame + SyncMax
  BY Limits
<1>2. PICK q \in Nat : q = a \div s
  OBVIOUS
<1>3. a < (q + 1) * s
  BY <1>2
<1>4. PICK k \in Nat : n = (q + 1) + 5 + k
  <2>1. n - ((q + 1) + 5) \in Nat
    BY <1>1, <1>2
  <2> QED BY <1>2, <2>1
<1>5. n * s = (q + 1) * s + 5 * s + k * s /\ k * s \in Nat /\ (q + 1) * s \in Nat
  BY <1>2, <1>4
<1> QED BY <1>1, <1>3, <1>5

\* Clocks that are left so far apart that they are not corrected are an upset,
\* unless the time to settle is over, and then they are in sync.
LEMMA NotApart ==
  ASSUME SyncInv, calm >= 1, audioClock # NaN, ~(TooFarApart' /\ calm < SettleTime),
         calm >= 2 => ~Resolved(videoClock - audioClock, ShownAt - frameTimer)
  PROVE  ~TooFarApart'
<1>1. MsShape /\ Regular /\ OnTime /\ Converging
  BY DEF SyncInv
<1>2. step \in Nat /\ 0 < step /\ calm \in Nat /\ MaxFrame \in Nat /\ SyncMax \in Nat
  BY <1>1, MsTypes, Limits
<1>3. PICK q \in Nat : SettleTime = q + 6 /\ q = (MaxFrame + SyncMax) \div step
  BY <1>2 DEF SettleTime
<1>4. CASE calm < 2
  BY <1>2, <1>3, <1>4
<1>5. CASE calm >= 2
  <2>1. PICK D, G : D = videoClock - audioClock /\ G = ShownAt - frameTimer
    OBVIOUS
  <2>2. Abs(D) < MaxFrame /\ Rank(D, G, step) + calm * step <= MaxFrame + SyncMax + 5 * step
    BY <1>1, <1>5, <2>1 DEF Converging
  <2>3. D \in Int /\ G \in Nat
    <3>1. /\ videoClock \in Int /\ audioClock \in Int /\ ShownAt \in Int /\ frameTimer \in Nat
          /\ frameTimer <= ShownAt
      BY <1>1, <1>5, RegularDelay, MsTypes DEF OnTime, ShownAt
    <3> QED BY <2>1, <3>1
  <2>4. PICK rank \in Nat, used \in Nat : rank = Rank(D, G, step) /\ used = calm * step
    <3>1. calm * step \in Nat
      BY <1>2, OneMoreFrame
    <3>2. Rank(D, G, step) \in Nat
      BY <1>2, <2>2, <2>3, RankIs
    <3> QED BY <3>1, <3>2
  <2>5. used <= MaxFrame + SyncMax + 5 * step
    BY <1>2, <2>2, <2>4
  <2>6. ~(calm >= (MaxFrame + SyncMax) \div step + 6)
    <3> SUFFICES ASSUME calm >= (MaxFrame + SyncMax) \div step + 6 PROVE FALSE
      OBVIOUS
    <3>1. calm * step > MaxFrame + SyncMax + 5 * step
      BY <1>2, SettleTimeIs
    <3> QED BY <1>2, <2>4, <2>5, <3>1
  <2> QED BY <1>2, <1>3, <2>6
<1> QED BY <1>2, <1>4, <1>5

\* What a frame that is shown leaves of types and time stamps.
LEMMA NextFrameIs ==
  ASSUME MsShape, NEW calmer \in Nat, calmer <= calm + 1, NextFrame(calmer), step' = step
  PROVE  /\ shown' = shown + 1 /\ shown' \in 0 .. MaxShown /\ calm' \in 0 .. shown'
         /\ framePts' = framePts + step /\ framePts' \in Nat /\ stamped' \in BOOLEAN
         /\ upsets' \in Nat
         /\ \/ calm' = 0
            \/ /\ calm' = calmer /\ stamped' /\ ~(framePts' - frameLastPts' >= MaxFrame)
               /\ ~(TooFarApart' /\ calm < SettleTime)
<1>1. /\ shown \in Nat /\ calm \in Nat /\ calm <= shown /\ upsets \in Nat /\ MaxShown \in Nat
      /\ framePts \in Nat /\ step \in Nat
  BY MsTypes, Limits
<1>2. shown < MaxShown /\ shown' = shown + 1 /\ framePts' = framePts + step
  BY DEF NextFrame
<1>3. \/ /\ stamped' = TRUE /\ upsets' = upsets
         /\ calm' = IF framePts' - frameLastPts' >= MaxFrame \/ (TooFarApart' /\ calm < SettleTime)
                    THEN 0 ELSE calmer
      \/ stamped' = FALSE /\ upsets' = upsets + 1 /\ calm' = 0
  BY DEF NextFrame, Upset
<1>4. \/ calm' = 0
      \/ /\ calm' = calmer /\ stamped' = TRUE /\ ~(framePts' - frameLastPts' >= MaxFrame)
         /\ ~(TooFarApart' /\ calm < SettleTime)
  BY <1>3
<1>5. stamped' \in BOOLEAN /\ upsets' \in Nat
  <2>1. upsets' = upsets \/ upsets' = upsets + 1
    BY <1>3
  <2>2. stamped' = TRUE \/ stamped' = FALSE
    BY <1>3
  <2>3. upsets' \in Nat
    BY <1>1, <2>1
  <2> QED BY <2>2, <2>3
<1>6. shown' \in 0 .. MaxShown /\ framePts' \in Nat
  BY <1>1, <1>2
<1>7. calm' \in 0 .. shown'
  BY <1>1, <1>2, <1>4
<1> QED BY <1>2, <1>4, <1>5, <1>6, <1>7

LEMMA RoundsKeeps ==
  ASSUME SyncInv, GetVideoDelayRounds PROVE SyncInv'
<1>1. /\ answer = -1 /\ Due - now \in 0 .. Ms - 1
      /\ frameLastDuration' = LastDuration /\ now' \in {now, now + Ms}
      /\ step' = step /\ audioClock' = audioClock /\ videoClock' = videoClock
      /\ audioFrameNextPts' = audioFrameNextPts /\ frameTimer' = frameTimer
      /\ frameLastPts' = frameLastPts /\ answer' = answer
      /\ NextFrame(calm)
  BY DEF GetVideoDelayRounds, clocks
<1>2. MsShape /\ Regular /\ OnTime /\ Converging
  BY DEF SyncInv
<1>3. /\ LastDuration \in 0 .. MaxFrame - 1 /\ Delay \in Nat
      /\ now \in Nat /\ frameTimer \in Nat /\ frameTimer <= now /\ Ms \in Nat /\ Ms <= step
      /\ step \in Nat /\ 0 < step /\ calm \in Nat /\ SyncMax \in Nat /\ Ms <= SyncMax
      /\ MaxFrame \in Nat
  BY <1>2, DelayIs, MsTypes, Limits
<1>4. /\ shown' \in 0 .. MaxShown /\ calm' \in 0 .. shown' /\ framePts' = framePts + step
      /\ framePts' \in Nat /\ stamped' \in BOOLEAN /\ upsets' \in Nat
      /\ calm' = 0 \/ (calm' = calm /\ stamped' /\ ~(framePts' - frameLastPts' >= MaxFrame))
  BY <1>1, <1>2, <1>3, NextFrameIs
<1>5. now' \in Nat /\ now <= now' /\ now' <= now + Ms /\ frameTimer \in 0 .. now'
  BY <1>1, <1>3
<1>6. MsShape'
  BY <1>1, <1>2, <1>3, <1>4, <1>5 DEF MsShape, MsTypeOK
<1>7. CASE calm' = 0
  BY <1>6, <1>7, UpsetKeeps
<1>8. CASE calm' = calm /\ stamped' /\ ~(framePts' - frameLastPts' >= MaxFrame)
  <2>1. Length' = Length + step /\ ShownAt' = ShownAt /\ Length' \in Int /\ Length' < MaxFrame
    BY <1>1, <1>2, <1>3, <1>4, <1>8, MsTypes DEF Length, ShownAt
  <2>2. Regular'
    <3>1. calm >= 2 => videoClock \in Int /\ step <= Length'
      BY <1>2, <1>3, <2>1, MsTypes DEF Regular
    <3> QED BY <1>1, <1>8, <2>1, <3>1 DEF Regular
  <2>3. Converging'
    BY <1>1, <1>2, <1>8, <2>1 DEF Converging
  <2>4. OnTime'
    <3> SUFFICES ASSUME calm >= 2, audioClock # NaN PROVE OnTime'
      BY <1>1, <1>8 DEF OnTime
    <3>1. PICK D \in Int, L \in Nat, at \in Int :
            /\ D = videoClock - audioClock /\ L = Length /\ at = ShownAt /\ step <= L
            /\ Delay = Target(D, L)
      BY <1>2, RegularDelay, MsTypes DEF ShownAt
    <3>2. PICK d \in Nat, c \in Nat, f \in Nat :
            d = Target(D, L) /\ c = Target(D, L + step) /\ f = Target(D, step)
      <4>1. L + step \in Nat
        BY <1>3, <3>1
      <4> QED BY <1>3, <4>1, TargetNat
    <3>3. frameTimer <= at /\ at <= now /\ ((now = at /\ L = step) \/ at <= frameTimer + f)
      BY <1>2, <3>1, <3>2 DEF OnTime
    <3>4. now <= frameTimer + d
      BY <1>1, <1>3, <3>1, <3>2 DEF Due
    <3>5. d <= c \/ d + step <= c + SyncMax
      <4>1. L + step \in Nat /\ 0 < L /\ L <= L + step /\ (L + step) - L = step
        BY <1>3, <3>1
      <4> QED BY <1>3, <3>1, <3>2, <4>1, DelayDrops
    <3>6. now' <= frameTimer + c + SyncMax
      BY <1>3, <1>5, <3>4, <3>5
    <3>7. at <= frameTimer + f
      <4>1. CASE now = at /\ L = step
        BY <3>2, <3>4, <4>1
      <4> QED BY <3>3, <4>1
    <3>8. at <= now'
      BY <1>3, <1>5, <3>3
    <3> QED BY <1>1, <2>1, <3>1, <3>2, <3>3, <3>6, <3>7, <3>8 DEF OnTime
  <2> QED BY <1>6, <2>2, <2>3, <2>4 DEF SyncInv
<1> QED BY <1>4, <1>7, <1>8

\* A regular frame maps the two numbers as Moves says.
LEMMA ShowsMoves ==
  ASSUME SyncInv, GetVideoDelayShows, calm >= 2, audioClock # NaN,
         NEW D, D = videoClock - audioClock, NEW G, G = ShownAt - frameTimer,
         NEW E, E = (framePts - now) - audioClock, NEW H, H = now - NextTimer
  PROVE  /\ D \in Int /\ G \in Nat
         /\ Length \in Nat /\ step <= Length /\ now - ShownAt \in Nat
         /\ Moves(D, G, Length, now - ShownAt, E, H, step)
<1>1. MsShape /\ Regular /\ OnTime
  BY DEF SyncInv
<1>2. PICK L \in Nat : /\ L = Length /\ step <= L /\ framePts = frameLastPts + L
                       /\ videoClock \in Int /\ audioClock \in Int /\ Delay = Target(D, L)
  BY <1>1, RegularDelay, MsTypes DEF Length
<1>3. /\ now \in Nat /\ frameTimer \in Nat /\ frameLastPts \in Nat /\ step \in Nat /\ Delay \in Nat
      /\ SyncMax \in Nat
  BY <1>1, MsTypes, DelayIs, Limits
<1>4. PICK d \in Nat : d = Delay
  BY <1>3
<1>5. PICK at \in Int : at = ShownAt
  BY <1>2, <1>3 DEF ShownAt
<1>6. PICK f \in Nat : f = Target(D, step)
  BY <1>2, <1>3, TargetNat
<1>7. /\ frameTimer <= at /\ at <= now
      /\ now = at \/ now <= frameTimer + d + SyncMax
      /\ (now = at /\ L = step) \/ at <= frameTimer + f
  BY <1>1, <1>2, <1>4, <1>5, <1>6 DEF OnTime
<1>8. now >= frameTimer + d
  BY <1>4 DEF GetVideoDelayShows, Due
<1>9. PICK e \in Nat : e = now - ShownAt
  BY <1>3, <1>5, <1>7
<1>10. D \in Int /\ G \in Nat /\ G = at - frameTimer /\ E = D + L - e
  BY <1>2, <1>3, <1>5, <1>7, <1>9 DEF ShownAt
<1>11. PICK lag \in Int : lag = G + e - d /\ lag = now - (frameTimer + d)
  BY <1>3, <1>5, <1>9, <1>10
<1>12. lag >= 0 /\ (e = 0 \/ lag <= SyncMax)
  BY <1>3, <1>5, <1>7, <1>8, <1>9, <1>11
<1>13. (e = 0 /\ L = step) \/ G <= f
  BY <1>3, <1>5, <1>7, <1>9, <1>10
<1>14. H = IF d > 0 /\ lag > SyncMax THEN 0 ELSE lag
  <2>1. Due = frameTimer + d
    BY <1>4 DEF Due
  <2>2. NextTimer = IF d > 0 /\ lag > SyncMax THEN now ELSE frameTimer + d
    BY <1>4, <1>11, <2>1 DEF NextTimer
  <2> QED BY <1>3, <1>11, <2>2
<1> QED BY <1>2, <1>4, <1>6, <1>9, <1>10, <1>11, <1>12, <1>13, <1>14 DEF Moves

LEMMA ShowsKeeps ==
  ASSUME SyncInv, GetVideoDelayShows PROVE SyncInv'
<1>1. /\ answer = -1 /\ now >= Due
      /\ frameLastDuration' = LastDuration /\ frameTimer' = NextTimer
      /\ now' = now /\ step' = step /\ audioClock' = audioClock
      /\ audioFrameNextPts' = audioFrameNextPts /\ answer' = answer
      /\ ~stamped => videoClock' = videoClock /\ frameLastPts' = frameLastPts
      /\ stamped => videoClock' = framePts - now /\ frameLastPts' = framePts
      /\ NextFrame(calm + 1)
  BY DEF GetVideoDelayShows
<1>2. MsShape /\ Regular /\ OnTime /\ Converging
  BY DEF SyncInv
<1>3. /\ now \in Nat /\ frameTimer \in Nat /\ Delay \in Nat /\ LastDuration \in 0 .. MaxFrame - 1
      /\ frameLastPts \in Nat /\ framePts \in Nat /\ step \in Nat /\ calm \in Nat
      /\ 0 < step /\ step < MaxFrame /\ MaxFrame \in Nat /\ SyncMax \in Nat
      /\ videoClock \in Int \cup {NaN} /\ audioClock \in Int \cup {NaN} /\ NaN \notin Int
  BY <1>2, DelayIs, MsTypes, Limits
<1>4. /\ shown' \in 0 .. MaxShown /\ calm' \in 0 .. shown' /\ framePts' = framePts + step
      /\ framePts' \in Nat /\ stamped' \in BOOLEAN /\ upsets' \in Nat
      /\ \/ calm' = 0
         \/ /\ calm' = calm + 1 /\ stamped' /\ ~(TooFarApart' /\ calm < SettleTime)
  BY <1>1, <1>2, <1>3, NextFrameIs
<1>5. frameTimer' \in 0 .. now
  BY <1>1, <1>3 DEF NextTimer, Due
<1>6. MsShape'
  <2>1. videoClock' \in Int \cup {NaN} /\ frameLastPts' \in Nat
    <3>1. CASE stamped
      BY <1>1, <1>3, <3>1
    <3>2. CASE ~stamped
      BY <1>1, <1>3, <3>2
    <3> QED BY <3>1, <3>2
  <2> QED BY <1>1, <1>2, <1>3, <1>4, <1>5, <2>1 DEF MsShape, MsTypeOK
<1>7. CASE calm' = 0
  BY <1>6, <1>7, UpsetKeeps
<1>8. CASE calm' = calm + 1 /\ stamped' /\ ~(TooFarApart' /\ calm < SettleTime)
  <2>1. calm' >= 2 => calm >= 1 /\ stamped
    BY <1>2, <1>3, <1>8 DEF Regular
  <2>2. calm' >= 2 => /\ videoClock' = framePts - now /\ videoClock' \in Int
                      /\ ShownAt' = now /\ Length' = step
    BY <1>1, <1>3, <1>4, <2>1 DEF ShownAt, Length
  <2>3. Regular'
    <3>1. calm' >= 2 => videoClock' \in Int /\ step' <= Length' /\ Length' < MaxFrame
      BY <1>1, <1>3, <2>2
    <3> QED BY <1>8, <3>1 DEF Regular
  <2>4. OnTime'
    BY <1>1, <1>3, <1>5, <2>2 DEF OnTime
  <2>5. Converging'
    <3> SUFFICES ASSUME calm' >= 2, audioClock # NaN PROVE Converging'
      BY <1>1 DEF Converging
    <3>1. PICK E, H : E = (framePts - now) - audioClock /\ H = now - NextTimer
      OBVIOUS
    <3>2. E \in Int /\ H \in Nat
      <4>1. audioClock \in Int
        BY <1>3
      <4>2. NextTimer \in 0 .. now
        BY <1>1, <1>5
      <4> QED BY <1>3, <3>1, <4>1, <4>2
    <3>3. (videoClock - audioClock)' = E /\ (ShownAt - frameTimer)' = H /\ step' = step
      BY <1>1, <2>2, <3>1
    <3>4. ~TooFarApart' => Abs(E) < MaxFrame
      <4>1. Diff' = E
        BY <1>1, <1>3, <2>2, <3>1 DEF Diff
      <4> QED BY <1>3, <3>2, <4>1 DEF TooFarApart, Abs
    <3>5. PICK used \in Nat : used = calm * step /\ (calm + 1) * step = used + step
      BY <1>3, OneMoreFrame
    <3>6. CASE calm < 2
      <4>1. calm = 1
        BY <1>3, <2>1, <3>6
      <4>2. used = step
        BY <1>3, <3>5, <4>1, OneMoreFrame
      <4>3. Abs(E) < MaxFrame
        BY <1>8, <3>4, <4>1, NotApart
      <4>4. PICK rank \in Nat : rank = Rank(E, H, step) /\ rank <= MaxFrame + SyncMax + 3 * step
        BY <1>3, <3>2, <4>3, RankIs
      <4>5. Rank(E, H, step) + (used + step) <= MaxFrame + SyncMax + 5 * step
        BY <1>3, <4>2, <4>4
      <4> QED BY <1>8, <3>3, <3>5, <4>3, <4>5 DEF Converging
    <3>7. CASE calm >= 2
      <4>1. PICK D, G, e, L : /\ D = videoClock - audioClock /\ G = ShownAt - frameTimer
                              /\ e = now - ShownAt /\ L = Length
        OBVIOUS
      <4>2. /\ D \in Int /\ G \in Nat /\ L \in Nat /\ step <= L /\ e \in Nat
            /\ Moves(D, G, L, e, E, H, step)
        BY <3>1, <3>7, <4>1, ShowsMoves
      <4>3. CASE Resolved(D, G)
        <5>1. Resolved(E, H)
          BY <1>3, <4>2, <4>3, ResolvedStays
        <5> QED BY <3>3, <5>1 DEF Converging
      <4>4. CASE ~Resolved(D, G)
        <5>1. Abs(D) < MaxFrame /\ Rank(D, G, step) + used <= MaxFrame + SyncMax + 5 * step
          BY <1>2, <3>5, <3>7, <4>1, <4>4 DEF Converging
        <5>2. Abs(E) < MaxFrame
          <6>1. ~Resolved(videoClock - audioClock, ShownAt - frameTimer) /\ calm >= 1
            BY <1>3, <3>7, <4>1, <4>4
          <6> QED BY <1>8, <3>4, <6>1, NotApart
        <5>3. PICK rank \in Nat, less \in Nat : rank = Rank(D, G, step) /\ less = Rank(E, H, step)
          BY <1>3, <3>2, <4>2, <5>1, <5>2, RankIs
        <5>4. Resolved(E, H) \/ less <= rank - step
          BY <1>3, <4>2, <4>4, <5>1, <5>2, <5>3, RankFalls
        <5>5. Resolved(E, H) \/ Rank(E, H, step) + (used + step) <= MaxFrame + SyncMax + 5 * step
          BY <1>3, <5>1, <5>3, <5>4
        <5> QED BY <1>8, <3>3, <3>5, <5>2, <5>5 DEF Converging
      <4> QED BY <4>3, <4>4
    <3> QED BY <1>3, <3>6, <3>7
  <2> QED BY <1>6, <2>3, <2>4, <2>5 DEF SyncInv
<1> QED BY <1>4, <1>7, <1>8

LEMMA MsInitInv ==
  ASSUME MsInit PROVE SyncInv
<1>1. MsShape
  <2>1. /\ StartTime \in Nat /\ 0 \in 0 .. StartTime /\ 0 \in 0 .. MaxFrame - 1 /\ -1 \in -1 .. Refresh
        /\ 0 \in 0 .. MaxShown /\ 0 \in 0 .. 0 /\ FirstPts \subseteq Nat
    BY Limits, SyncAssumption
  <2> QED BY <2>1 DEF MsInit, MsShape, MsTypeOK
<1> QED BY <1>1 DEF MsInit, SyncInv, Regular, OnTime, Converging

LEMMA UpsetsKeep ==
  ASSUME SyncInv,
         \/ \E late \in Lates : SleepsTooLong(late)
         \/ \E jump \in Jumps : \E end \in {frameLastPts - jump, frameLastPts + jump} :
              end >= 0 /\ UpdateAuioPts(end)
         \/ UpdateAuioPtsWithout(step)
  PROVE  SyncInv'
<1>1. MsShape
  BY DEF SyncInv
<1>2. /\ now \in Nat /\ frameTimer \in Nat /\ frameTimer <= now /\ frameLastPts \in Nat
      /\ step \in Nat /\ answer \in Int /\ -1 <= answer /\ shown \in Nat /\ upsets \in Nat
      /\ audioFrameNextPts \in Int \cup {NaN} /\ Refresh \in Nat /\ Ms \in Nat /\ 0 \in 0 .. shown
  BY <1>1, MsTypes, Limits DEF MsShape
<1>3. ASSUME NEW late \in Lates, SleepsTooLong(late) PROVE MsShape' /\ calm' = 0
  <2>1. /\ answer # -1 /\ answer' = -1 /\ now' = now + answer * Ms + late /\ late \in Nat
        /\ upsets' = upsets + 1 /\ calm' = 0
        /\ UNCHANGED <<step, audioClock, videoClock, audioFrameNextPts, frameTimer, frameLastPts,
                       frameLastDuration, framePts, stamped, shown>>
    BY <1>3, SyncAssumption DEF SleepsTooLong, Upset, clocks, frame
  <2>2. PICK slept \in Nat : slept = answer * Ms
    <3>1. answer \in Nat
      BY <1>2, <2>1
    <3> QED BY <1>2, <3>1
  <2>3. now' \in Nat /\ frameTimer \in 0 .. now' /\ -1 \in -1 .. Refresh /\ upsets' \in Nat
    BY <1>2, <2>1, <2>2
  <2> QED BY <1>1, <1>2, <2>1, <2>3 DEF MsShape, MsTypeOK
<1>4. ASSUME NEW jump \in Jumps, NEW end \in {frameLastPts - jump, frameLastPts + jump},
             UpdateAuioPts(end)
      PROVE  MsShape' /\ calm' = 0
  <2>1. jump \in Nat
    BY SyncAssumption
  <2>2. end \in Int /\ end - now \in Int
    BY <1>2, <2>1
  <2>3. /\ audioFrameNextPts' = end /\ audioClock' = end - now /\ calm' = 0 /\ upsets' = upsets + 1
        /\ UNCHANGED <<now, step, videoClock, frameTimer, frameLastPts, frameLastDuration, framePts,
                       stamped, answer, shown>>
    BY <1>4 DEF UpdateAuioPts, Upset, frame
  <2> QED BY <1>1, <1>2, <2>2, <2>3 DEF MsShape, MsTypeOK
<1>5. ASSUME UpdateAuioPtsWithout(step) PROVE MsShape' /\ calm' = 0
  <2>1. /\ calm' = 0 /\ upsets' = upsets + 1
        /\ UNCHANGED <<now, step, videoClock, frameTimer, frameLastPts, frameLastDuration, framePts,
                       stamped, answer, shown>>
    BY <1>5 DEF UpdateAuioPtsWithout, Upset, frame
  <2>2. audioFrameNextPts' \in Int \cup {NaN} /\ audioClock' \in Int \cup {NaN}
    <3>1. CASE audioFrameNextPts = NaN
      BY <1>1, <1>2, <1>5, <3>1 DEF UpdateAuioPtsWithout, MsShape, MsTypeOK
    <3>2. CASE audioFrameNextPts # NaN
      <4>1. audioFrameNextPts' = audioFrameNextPts + step /\ audioClock' = audioFrameNextPts' - now
        BY <1>5, <3>2 DEF UpdateAuioPtsWithout
      <4> QED BY <1>2, <3>2, <4>1
    <3> QED BY <3>1, <3>2
  <2> QED BY <1>1, <1>2, <2>1, <2>2 DEF MsShape, MsTypeOK
<1> QED BY <1>3, <1>4, <1>5, UpsetKeeps

\* The invariant of MediaSynchronise.
THEOREM SyncInvariance == MsSpec => []SyncInv
<1>1. ASSUME SyncInv, [MsNext]_msVars PROVE SyncInv'
  <2>1. CASE UNCHANGED msVars
    BY <1>1, <2>1 DEF msVars, clocks, frame, SyncInv, MsShape, MsTypeOK, Regular, OnTime, Converging,
                      ShownAt, Length
  <2>2. CASE MsFinished
    BY <2>1, <2>2 DEF MsFinished
  <2> QED BY <1>1, <2>1, <2>2, WaitsKeeps, RoundsKeeps, ShowsKeeps, SleepKeeps, UpsetsKeep DEF MsNext
<1> QED BY <1>1, MsInitInv, PTL DEF MsSpec

\* MediaSynchronise::GetVideoDelay: whatever put the clocks apart, and however
\* many waits are rounded to nothing, a player that comes on time has them within
\* twice the largest threshold after SettleTime frames that move them, for all
\* thresholds, durations and times between the asks.
THEOREM ClocksConverge == MsSpec => []SettlesInSync
<1>1. SyncInv => SettlesInSync
  <2> SUFFICES ASSUME SyncInv, calm >= SettleTime, Diff # NaN
               PROVE  Abs(Diff) < 2 * SyncMax
    BY DEF SettlesInSync
  <2>1. MsShape /\ Regular /\ OnTime /\ Converging
    BY DEF SyncInv
  <2>2. step \in Nat /\ 0 < step /\ step < MaxFrame /\ calm \in Nat /\ MaxFrame \in Nat /\ SyncMax \in Nat
    BY <2>1, MsTypes, Limits
  <2>3. calm >= (MaxFrame + SyncMax) \div step + 6 /\ (MaxFrame + SyncMax) \div step \in Nat
    BY <2>2 DEF SettleTime
  <2>4. calm >= 2
    <3> HIDE DEF SettleTime
    <3>1. PICK q \in Nat : q = (MaxFrame + SyncMax) \div step
      BY <2>3
    <3> QED BY <2>2, <2>3, <3>1
  <2>5. audioClock # NaN /\ videoClock # NaN
    BY DEF Diff
  <2>6. PICK D \in Int : D = videoClock - audioClock /\ D = Diff
    BY <2>1, <2>4, <2>5, RegularDelay DEF Diff
  <2>7. PICK used \in Nat : used = calm * step /\ used > MaxFrame + SyncMax + 5 * step
    <3>1. calm * step > MaxFrame + SyncMax + 5 * step
      BY <2>2, <2>3, SettleTimeIs
    <3> QED BY <2>2, <3>1, OneMoreFrame
  <2>8. PICK G \in Nat : G = ShownAt - frameTimer
    <3>1. ShownAt \in Int /\ frameTimer \in Nat /\ frameTimer <= ShownAt
      BY <2>1, <2>4, <2>5, RegularDelay, MsTypes DEF OnTime, ShownAt
    <3> QED BY <3>1
  <2>9. \/ Resolved(D, G)
        \/ Abs(D) < MaxFrame /\ Rank(D, G, step) + used <= MaxFrame + SyncMax + 5 * step
    BY <2>1, <2>4, <2>5, <2>6, <2>7, <2>8 DEF Converging
  <2>10. Resolved(D, G)
    <3> SUFFICES ASSUME ~Resolved(D, G) PROVE FALSE
      OBVIOUS
    <3>1. PICK rank \in Nat : rank = Rank(D, G, step)
      BY <2>2, <2>9, RankIs
    <3> QED BY <2>2, <2>7, <2>9, <3>1
  <2> QED BY <2>2, <2>6, <2>10 DEF Resolved, Abs
<1> QED BY <1>1, SyncInvariance, PTL

\* The clocks, times and durations of MediaSynchronise.
THEOREM SyncTypes == MsSpec => []MsTypeOK
<1>1. SyncInv => MsTypeOK
  BY DEF SyncInv, MsShape
<1> QED BY <1>1, SyncInvariance, PTL

-----------------------------------------------------------------------------
(***************************************************************************)
(* The composition that TLC checks.  In it every part keeps to its own     *)
(* specification, so that what is proved of the parts holds of it.         *)
(***************************************************************************)
LEMMA PlayerStep ==
  ASSUME [Next]_mcVars
  PROVE  [AoNext]_aoVars /\ [MsNext]_msVars /\ [VcNext]_vcVars /\ [DsNext]_dsVars
<1>1. CASE UNCHANGED mcVars
  BY <1>1 DEF mcVars
<1>2. CASE Only("output") /\ AoNext
  BY <1>2 DEF Only
<1>3. CASE Only("clocks") /\ MsNext
  BY <1>3 DEF Only
<1>4. CASE Only("converter") /\ VcNext
  BY <1>4 DEF Only
<1>5. CASE Only("session") /\ DsNext
  BY <1>5 DEF Only
<1> QED BY <1>1, <1>2, <1>3, <1>4, <1>5 DEF Next

\* Every behaviour of the composition is, of each part, one of that part.
THEOREM PlayerImplements == Spec => AoSpec /\ MsSpec /\ VcSpec /\ DsSpec
<1>1. Init => AoInit /\ MsInit /\ VcInit /\ DsInit
  BY DEF Init
<1> QED BY <1>1, PlayerStep, PTL DEF Spec, AoSpec, MsSpec, VcSpec, DsSpec

\* Each part keeps to its types in the composition.
THEOREM PlayerTypes == Spec => []PlayerTypeOK
<1>1. AoInv => AoTypeOK
  BY DEF AoInv
<1>2. VcInv => VcTypeOK
  BY DEF VcInv
<1>3. DsInv => DsTypeOK
  BY DEF DsInv
<1> QED BY <1>1, <1>2, <1>3, PlayerImplements, AudioInvariance, ConvertInvariance, SessionInvariance,
           SyncTypes, PTL DEF PlayerTypeOK

\* All that is proved of the parts, of the composition of them.
THEOREM PlayerIsSound ==
  Spec => [](AudioAccounted /\ SettlesInSync /\ ConverterAlive /\ SessionSound)
BY PlayerImplements, EveryByteIsHeard, ClocksConverge, ConverterStaysAlive, DecodersBelongToTheMedium, PTL

=============================================================================
