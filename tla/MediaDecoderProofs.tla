-------------------------- MODULE MediaDecoderProofs --------------------------
(***************************************************************************)
(* Theorems about MediaDecoder, for every set of producers and consumers,  *)
(* every maxLen, length of the file and delay of the codec, and any number *)
(* of seeks and spurious wake-ups.                                         *)
(***************************************************************************)
EXTENDS MediaDecoder, EvoQueueProofs

-----------------------------------------------------------------------------
(***************************************************************************)
(* Types.                                                                  *)
(***************************************************************************)

DecStates == {"idle", "read", "offer", "enqueue", "pushed"}

\* An item is of the session and the queue that it was made for.
LEMMA Items ==
  ASSUME NEW s \in Nat, NEW q \in {Video, Audio, Source}
  PROVE  Item(s, q) \in Nat /\ SessionOf(Item(s, q)) = s /\ QueueOf(Item(s, q)) = q
BY DEF Item, SessionOf, QueueOf, Video, Audio, Source

LEMMA ItemParts ==
  ASSUME NEW f \in Nat
  PROVE  SessionOf(f) \in Nat /\ QueueOf(f) \in {Video, Audio, Source}
BY DEF SessionOf, QueueOf, Video, Audio, Source

LEMMA CheckOnlyLooks ==
  ASSUME CheckIsEnd
  PROVE  UNCHANGED <<queueVars, dec, frame, seek, mutex, demuxer>>
BY DEF CheckIsEnd, CheckReadsIsEnd, CheckCounts

\* Whatever the decoder does, the queue sees calls.
LEMMA DecoderCallsQueue ==
  ASSUME TypeOK, [Next]_vars
  PROVE  [QueueCalls]_queueVars
<1>1. ASSUME NEW p \in Producers, Decode(p)
      PROVE  [QueueCalls]_queueVars
  <2>1. CASE DecodeOffers(p)
    <3>1. frame[p] \in Nat
      BY DEF TypeOK
    <3> QED
      BY <2>1, <3>1 DEF DecodeOffers, QueueCalls
  <2>2. CASE DecodeEnqueues(p)
    BY <2>2 DEF DecodeEnqueues, QueueCalls
  <2> QED
    BY <1>1, <2>1, <2>2
    DEF Decode, DecodeLocks, DecodeReadsNothing, DecodeGetsNoFrame, DecodeGetsFrame,
        DecodeGetsPacket, DecodeEnds
<1>2. CASE SetTimePos
  BY <1>2
  DEF SetTimePos, SeekClears, SeekGoesOnClearing, SeekLocks, SeekMoves, SeekResets,
      SeekClearsAgain, SeekRestarts, QueueCalls
<1>3. ASSUME NEW c \in Consumers, VideoDeQueue(c)
      PROVE  [QueueCalls]_queueVars
  BY <1>3 DEF VideoDeQueue, QueueCalls
<1>4. ASSUME NEW t \in Threads, Wakeup(t)
      PROVE  [QueueCalls]_queueVars
  BY <1>4 DEF Wakeup, QueueCalls
<1>5. CASE CheckIsEnd
  BY <1>5, CheckOnlyLooks
<1> QED
  BY <1>1, <1>2, <1>3, <1>4, <1>5 DEF Next, vars

\* A packet goes into the codec, and a frame comes out when it is full.
LEMMA CodecTypes ==
  ASSUME TypeOK
  PROVE  /\ Append(codec, session) \in Seq(Nat)
         /\ Len(Append(codec, session)) = Len(codec) + 1
         /\ Append(codec, session)[1] \in Nat
         /\ Tail(Append(codec, session)) \in Seq(Nat)
         /\ Len(Tail(Append(codec, session))) = Len(codec)
         /\ \A k \in DOMAIN Append(codec, session) :
              \/ k \in DOMAIN codec /\ Append(codec, session)[k] = codec[k]
              \/ Append(codec, session)[k] = session
         /\ \A k \in DOMAIN Tail(Append(codec, session)) :
              /\ k + 1 \in DOMAIN Append(codec, session)
              /\ Tail(Append(codec, session))[k] = Append(codec, session)[k + 1]
         /\ 1 \in DOMAIN Append(codec, session)
<1>1. codec \in Seq(Nat) /\ session \in Nat
  BY DEF TypeOK
<1> DEFINE s == Append(codec, session)
<1>2. /\ s \in Seq(Nat) /\ Len(s) = Len(codec) + 1 /\ 1 \in DOMAIN s
      /\ \A k \in DOMAIN s : (k \in DOMAIN codec /\ s[k] = codec[k]) \/ s[k] = session
  BY <1>1
<1> HIDE DEF s
<1>3. /\ Tail(s) \in Seq(Nat) /\ Len(Tail(s)) = Len(codec)
      /\ \A k \in DOMAIN Tail(s) : k + 1 \in DOMAIN s /\ Tail(s)[k] = s[k + 1]
  BY <1>1, <1>2
<1>4. s[1] \in Nat
  BY <1>2
<1> QED
  BY <1>2, <1>3, <1>4 DEF s

LEMMA DecoderTypeStep ==
  ASSUME TypeOK, [Next]_vars
  PROVE  TypeOK'
<1>1. QueueTypeOK'
  BY DecoderCallsQueue, QueueTypeCalls DEF TypeOK
<1>2. ASSUME NEW p \in Producers, Decode(p)
      PROVE  TypeOK'
  <2>1. CASE DecodeLocks(p) \/ DecodeReadsNothing(p) \/ DecodeEnds(p)
    <3>1. CASE DecodeLocks(p)
      BY <1>1, <3>1 DEF DecodeLocks, TypeOK, checking, demuxer
    <3>2. CASE DecodeReadsNothing(p)
      BY <1>1, <3>2 DEF DecodeReadsNothing, Unlock, TypeOK, checking, demuxer
    <3>3. CASE DecodeEnds(p)
      <4>1. SessionOf(frame[p]) \in Nat
        BY ItemParts DEF TypeOK
      <4>2. LastVideoPTS' \in Nat
        BY <3>3, <4>1 DEF DecodeEnds, TypeOK
      <4> QED
        BY <1>1, <3>3, <4>2 DEF DecodeEnds, Unlock, TypeOK, checking, demuxer
    <3> QED BY <2>1, <3>1, <3>2, <3>3
  <2>2. CASE DecodeGetsNoFrame(p)
    <3>1. codec' \in Seq(Nat) /\ Len(codec') <= CodecDelay
      <4>1. codec \in Seq(Nat) /\ Len(codec) \in Nat /\ Len(codec) <= CodecDelay
        BY DEF TypeOK
      <4>2. \/ codec' = codec
            \/ codec' = Append(codec, session) /\ Len(codec) < CodecDelay
            \/ codec' = Tail(Append(codec, session))
        BY <2>2 DEF DecodeGetsNoFrame
      <4>3. CASE codec' = codec
        BY <4>1, <4>3
      <4>4. CASE codec' = Append(codec, session) /\ Len(codec) < CodecDelay
        <5>1. Len(codec) + 1 <= CodecDelay
          BY <4>1, <4>4, StreamAssumption
        <5> QED
          BY <4>4, <5>1, CodecTypes
      <4>5. CASE codec' = Tail(Append(codec, session))
        BY <4>1, <4>5, CodecTypes
      <4> QED
        BY <4>2, <4>3, <4>4, <4>5
    <3>2. unread' \in 0 .. StreamLen
      BY <2>2, StreamAssumption DEF DecodeGetsNoFrame, TypeOK
    <3> QED
      BY <1>1, <2>2, <3>1, <3>2 DEF DecodeGetsNoFrame, Unlock, TypeOK, checking
  <2>3. CASE DecodeGetsFrame(p)
    <3>1. codec' \in Seq(Nat) /\ Len(codec') <= CodecDelay
      BY <2>3, CodecTypes, StreamAssumption DEF DecodeGetsFrame, TypeOK
    <3>2. unread' \in 0 .. StreamLen
      BY <2>3, StreamAssumption DEF DecodeGetsFrame, TypeOK
    <3>3. frame' \in [Producers -> Nat]
      <4>1. PICK q \in {Video, Audio} :
              frame' = [frame EXCEPT ![p] = Item(Append(codec, session)[1], q)]
        BY <2>3 DEF DecodeGetsFrame
      <4>2. Item(Append(codec, session)[1], q) \in Nat
        BY CodecTypes, Items
      <4> QED
        BY <4>1, <4>2 DEF TypeOK
    <3> QED
      BY <1>1, <2>3, <3>1, <3>2, <3>3 DEF DecodeGetsFrame, TypeOK, checking
  <2>6. CASE DecodeGetsPacket(p)
    <3>1. unread' \in 0 .. StreamLen
      BY <2>6, StreamAssumption DEF DecodeGetsPacket, TypeOK
    <3>2. frame' \in [Producers -> Nat]
      <4>1. Item(session, Source) \in Nat
        BY Items DEF TypeOK
      <4> QED
        BY <2>6, <4>1 DEF DecodeGetsPacket, TypeOK
    <3> QED
      BY <1>1, <2>6, <3>1, <3>2 DEF DecodeGetsPacket, TypeOK, checking
  <2>4. CASE DecodeOffers(p)
    <3>1. UNCHANGED <<frame, seek, demuxer, checking>>
      BY <2>4 DEF DecodeOffers
    <3>2. /\ dec' \in [Producers -> DecStates]
          /\ mutex' \in Producers \cup {"free", "seek"}
      BY <2>4 DEF DecodeOffers, Unlock, TypeOK, DecStates
    <3> QED
      BY <1>1, <3>1, <3>2 DEF TypeOK, DecStates, demuxer, checking
  <2>5. CASE DecodeEnqueues(p)
    <3>1. UNCHANGED <<frame, seek, mutex, demuxer, checking>>
      BY <2>5 DEF DecodeEnqueues
    <3>2. dec' \in [Producers -> DecStates]
      BY <2>5 DEF DecodeEnqueues, TypeOK, DecStates
    <3> QED
      BY <1>1, <3>1, <3>2 DEF TypeOK, DecStates, demuxer, checking
  <2> QED
    BY <1>2, <2>1, <2>2, <2>3, <2>4, <2>5, <2>6 DEF Decode
<1>3. CASE SetTimePos
  <2>1. CASE SeekMoves
    <3>1. session' \in Nat /\ unread' \in 0 .. StreamLen
      BY <2>1 DEF SeekMoves, TypeOK
    <3> QED
      BY <1>1, <2>1, <3>1 DEF SeekMoves, TypeOK, checking
  <2>3. CASE SeekResets
    <3>1. codec' \in Seq(Nat) /\ Len(codec') <= CodecDelay
      <4>1. <<>> \in Seq(Nat) /\ Len(<<>>) = 0
        OBVIOUS
      <4> QED
        BY <2>3, <4>1, StreamAssumption DEF SeekResets, Flush
    <3> QED
      BY <1>1, <2>3, <3>1 DEF SeekResets, TypeOK, checking
  <2>2. CASE SeekClears \/ SeekGoesOnClearing \/ SeekLocks \/ SeekClearsAgain \/ SeekRestarts
    <3>1. UNCHANGED <<dec, frame, demuxer, checking>>
      BY <2>2
      DEF SeekClears, SeekGoesOnClearing, SeekLocks, SeekClearsAgain, SeekRestarts
    <3>2. /\ seek' \in {"none", "clear", "move", "reset", "moved", "restart"}
          /\ mutex' \in Producers \cup {"free", "seek"}
      BY <2>2
      DEF SeekClears, SeekGoesOnClearing, SeekLocks, SeekClearsAgain, SeekRestarts, TypeOK
    <3> QED
      BY <1>1, <3>1, <3>2 DEF TypeOK, demuxer, checking
  <2> QED
    BY <1>3, <2>1, <2>2, <2>3 DEF SetTimePos
<1>4. CASE \/ \E c \in Consumers : VideoDeQueue(c)
           \/ \E t \in Threads : Wakeup(t)
           \/ UNCHANGED vars
  BY <1>1, <1>4 DEF VideoDeQueue, Wakeup, TypeOK, checking, demuxer, vars
<1>5. CASE CheckIsEnd
  <2>1. UNCHANGED <<dec, frame, seek, mutex, demuxer>>
    BY <1>5, CheckOnlyLooks
  <2>2. check' \in {"idle", "video", "audio", "source", "ended"}
    BY <1>5 DEF CheckIsEnd, CheckReadsIsEnd, CheckCounts
  <2>3. checked' \in Nat
    <3>1. CASE CheckReadsIsEnd
      <4>1. seek = "reset" => session - 1 \in Nat
        BY DEF TypeOK
      <4> QED
        BY <3>1, <4>1 DEF CheckReadsIsEnd, TypeOK
    <3> QED
      BY <1>5, <3>1 DEF CheckIsEnd, CheckCounts, TypeOK
  <2> QED
    BY <1>1, <2>1, <2>2, <2>3 DEF TypeOK, demuxer
<1> QED
  BY <1>2, <1>3, <1>4, <1>5 DEF Next

\* Every variable of the decoder and of its queue keeps to its type.
THEOREM DecoderTyping == Spec => []TypeOK
<1>1. Init => TypeOK
  <2> SUFFICES ASSUME Init PROVE TypeOK
    OBVIOUS
  <2>1. QueueTypeOK
    BY QueueTypeInit DEF Init
  <2>2. codec \in Seq(Nat) /\ Len(codec) <= CodecDelay
    BY StreamAssumption DEF Init
  <2>3. unread \in 0 .. StreamLen
    BY StreamAssumption DEF Init
  <2>4. session \in Nat \ {0} /\ LastVideoPTS \in Nat /\ checked \in Nat
    BY DEF Init
  <2>5. frame \in [Producers -> Nat]
    BY DEF Init
  <2> QED
    BY <2>1, <2>2, <2>3, <2>4, <2>5 DEF Init, TypeOK
<1>2. TypeOK /\ [Next]_vars => TypeOK'
  BY DecoderTypeStep
<1> QED
  BY <1>1, <1>2, PTL DEF Spec

-----------------------------------------------------------------------------
(***************************************************************************)
(* The mutex.                                                              *)
(***************************************************************************)

\* TimePosMutex is held by the Decode that is in a round, or by SetTimePos
\* between its two clears; only that Decode is inside Enqueue, and only SetTimePos
\* clears.
Exclusive ==
  /\ ~forceQuit
  /\ \A p \in Producers : dec[p] # "idle" <=> mutex = p
  /\ mutex = "seek" <=> seek \in {"move", "reset", "moved", "restart"}
  /\ \A p \in Producers : at[p] # "idle" <=> dec[p] = "enqueue"
  /\ ctl # "idle" => seek \in {"clear", "restart"}

\* A step of the player, a spurious wake-up, or the middle of a Clear.
Aside ==
  \/ \E c \in Consumers : VideoDeQueue(c)
  \/ \E t \in Threads : Wakeup(t)
  \/ SeekGoesOnClearing

\* Steps aside wake producers at most, and only take frames out.
LEMMA AsideSteps ==
  ASSUME TypeOK, Aside
  PROVE  /\ UNCHANGED <<dec, frame, seek, mutex, demuxer, checking, offer, flags>>
         /\ \A p \in Producers : at'[p] = "idle" <=> at[p] = "idle"
         /\ list' = list \/ (list # <<>> /\ list' = Tail(list)) \/ list' = <<>>
         /\ ctl' # "idle" => ctl # "idle"
         /\ ctl' = "idle" => ctl = "idle" \/ list' = <<>>
<1> USE QueueAssumption DEF TypeOK, QueueTypeOK, Threads, ProducerStates, ConsumerStates
<1>1. ASSUME NEW c \in Consumers, VideoDeQueue(c)
      PROVE  /\ UNCHANGED <<dec, frame, seek, mutex, demuxer, checking, offer, flags, ctl>>
             /\ \A p \in Producers : at'[p] = "idle" <=> at[p] = "idle"
             /\ list' = list \/ (list # <<>> /\ list' = Tail(list))
  <2>1. CASE DequeueTests(c) \/ DequeueWaits(c) \/ DequeueGivesUp(c)
    BY <1>1, <2>1 DEF VideoDeQueue, DequeueTests, DequeueWaits, DequeueGivesUp
  <2>2. CASE DequeuePops(c)
    <3>1. NotifyOne("full_wait", "full_woken", c, "idle")
      BY <2>2 DEF DequeuePops
    <3>2. \A p \in Producers : at'[p] = at[p] \/ (at[p] = "full_wait" /\ at'[p] = "full_woken")
      BY <3>1, NotifyProducer DEF Waiting
    <3> QED
      BY <1>1, <2>2, <3>2 DEF VideoDeQueue, DequeuePops
  <2> QED
    BY <1>1, <2>1, <2>2 DEF VideoDeQueue, Dequeue
<1>2. ASSUME NEW t \in Threads, Wakeup(t)
      PROVE  /\ UNCHANGED <<dec, frame, seek, mutex, demuxer, checking, offer, flags, ctl, list>>
             /\ \A p \in Producers : at'[p] = "idle" <=> at[p] = "idle"
  BY <1>2 DEF Wakeup, SpuriousWakeup
<1>3. ASSUME SeekGoesOnClearing, ClearNotifies
      PROVE  /\ UNCHANGED <<dec, frame, seek, mutex, demuxer, checking, offer, flags, list>>
             /\ \A p \in Producers : at'[p] = "idle" <=> at[p] = "idle"
             /\ ctl # "idle" /\ ctl' # "idle"
  BY <1>3 DEF SeekGoesOnClearing, ClearNotifies, NotifyAll
<1>4. ASSUME SeekGoesOnClearing, ClearEmpties
      PROVE  /\ UNCHANGED <<dec, frame, seek, mutex, demuxer, checking, offer, flags, at>>
             /\ list' = <<>> /\ ctl' = "idle"
  BY <1>4 DEF SeekGoesOnClearing, ClearEmpties
<1> QED
  BY <1>1, <1>2, <1>3, <1>4 DEF Aside, SeekGoesOnClearing

\* The step of the Decode that holds the mutex inside Enqueue: what becomes of at.
LEMMA EnqueueSteps ==
  ASSUME TypeOK, Exclusive, NEW p \in Producers, DecodeEnqueues(p)
  PROVE  /\ UNCHANGED <<frame, seek, mutex, demuxer, checking, offer, flags, ctl>>
         /\ \A q \in Producers \ {p} : at'[q] = at[q] /\ dec'[q] = dec[q]
         /\ \/ /\ at'[p] = "full_wait" /\ dec' = dec /\ list' = list
            \/ /\ at'[p] = "idle" /\ dec'[p] = "pushed" /\ list' = Append(list, offer[p])
               /\ at[p] = "full_woken" \/ Len(list) < MaxLen
<1> USE QueueAssumption DEF TypeOK, QueueTypeOK, Threads, ProducerStates, ConsumerStates
<1>1. CASE EnqueueWaits(p) /\ UNCHANGED dec
  BY <1>1 DEF DecodeEnqueues, EnqueueWaits
<1>2. CASE EnqueuePushes(p) /\ dec' = [dec EXCEPT ![p] = "pushed"]
  <2>1. /\ list' = Append(list, offer[p])
        /\ NotifyOne("empty_wait", "empty_woken", p, "idle")
        /\ UNCHANGED <<offer, ctl, flags>>
    BY <1>2 DEF EnqueuePushes, Push, Exclusive
  <2>2. at'[p] = "idle" /\ \A q \in Producers \ {p} : at'[q] = at[q]
    BY <2>1, NotifyConsumer
  <2> QED
    BY <1>2, <2>1, <2>2 DEF DecodeEnqueues, EnqueuePushes
<1> QED
  BY <1>1, <1>2 DEF DecodeEnqueues

LEMMA ExclusiveStep ==
  ASSUME TypeOK, Exclusive, [Next]_vars
  PROVE  Exclusive'
<1> USE StreamAssumption DEF Exclusive
<1>1. ASSUME NEW p \in Producers,
             DecodeLocks(p) \/ DecodeReadsNothing(p) \/ DecodeGetsNoFrame(p)
               \/ DecodeGetsFrame(p) \/ DecodeGetsPacket(p) \/ DecodeEnds(p)
      PROVE  Exclusive'
  <2>1. UNCHANGED <<queueVars, seek>>
    BY <1>1
    DEF DecodeLocks, DecodeReadsNothing, DecodeGetsNoFrame, DecodeGetsFrame,
        DecodeGetsPacket, DecodeEnds
  <2>2. /\ \A q \in Producers \ {p} : dec'[q] = dec[q]
        /\ mutex \in {"free", p} /\ (dec'[p] # "idle" <=> mutex' = p) /\ mutex' \in {"free", p}
        /\ dec[p] # "enqueue" /\ dec'[p] # "enqueue"
    BY <1>1
    DEF DecodeLocks, DecodeReadsNothing, DecodeGetsNoFrame, DecodeGetsFrame,
        DecodeGetsPacket, DecodeEnds, Unlock, TypeOK
  <2> QED
    BY <2>1, <2>2 DEF queueVars
<1>2. ASSUME NEW p \in Producers, DecodeOffers(p)
      PROVE  Exclusive'
  <2>1. mutex = p /\ UNCHANGED <<seek, ctl, forceQuit>>
    BY <1>2 DEF DecodeOffers, EnqueueTests, EnqueueRefuses, queueVars, flags
  <2>2. \A q \in Producers \ {p} : dec'[q] = dec[q] /\ at'[q] = at[q]
    BY <1>2 DEF DecodeOffers, EnqueueTests, EnqueueRefuses, queueVars, Unlock, TypeOK,
                QueueTypeOK, Threads
  <2>3. \/ dec'[p] = "enqueue" /\ at'[p] = "enqueue" /\ mutex' = p
        \/ dec'[p] = "idle" /\ at'[p] = "idle" /\ mutex' = "free"
    BY <1>2, <2>1 DEF DecodeOffers, EnqueueTests, EnqueueRefuses, queueVars, Unlock, TypeOK,
                QueueTypeOK, Threads
  <2> QED
    BY <2>1, <2>2, <2>3
<1>3. ASSUME NEW p \in Producers, DecodeEnqueues(p)
      PROVE  Exclusive'
  <2>1. mutex = p /\ dec[p] = "enqueue"
    BY <1>3 DEF DecodeEnqueues
  <2> QED
    BY <2>1, <1>3, EnqueueSteps DEF flags
<1>4. CASE Aside
  BY <1>4, AsideSteps DEF flags
<1>5. CASE SeekClears \/ SeekLocks \/ SeekMoves \/ SeekResets \/ SeekClearsAgain
           \/ SeekRestarts
  <2>1. UNCHANGED <<dec, at>> /\ ~forceQuit'
    BY <1>5
    DEF SeekClears, SeekLocks, SeekMoves, SeekResets, SeekClearsAgain, SeekRestarts,
        ClearSetsStop, Restart, queueVars
  <2>2. \A p \in Producers : mutex' = p <=> mutex = p
    BY <1>5
    DEF SeekClears, SeekLocks, SeekMoves, SeekResets, SeekClearsAgain, SeekRestarts, TypeOK
  <2>3. mutex' = "seek" <=> seek' \in {"move", "reset", "moved", "restart"}
    BY <1>5
    DEF SeekClears, SeekLocks, SeekMoves, SeekResets, SeekClearsAgain, SeekRestarts
  <2>4. ctl' # "idle" => seek' \in {"clear", "restart"}
    BY <1>5
    DEF SeekClears, SeekLocks, SeekMoves, SeekResets, SeekClearsAgain, SeekRestarts,
        ClearSetsStop, Restart, queueVars
  <2> QED
    BY <2>1, <2>2, <2>3, <2>4
<1>6. CASE CheckIsEnd \/ UNCHANGED vars
  BY <1>6, CheckOnlyLooks DEF vars, queueVars
<1> QED
  BY <1>1, <1>2, <1>3, <1>4, <1>5, <1>6 DEF Next, Decode, SetTimePos, Aside

-----------------------------------------------------------------------------
(***************************************************************************)
(* Stale frames.                                                           *)
(***************************************************************************)

\* Frames of an earlier session are only in the codec, until its Flush, and in the
\* queue, until the end of the second clear.
Fresh ==
  /\ seek # "reset" => \A k \in DOMAIN codec : codec[k] = session
  /\ LastVideoPTS \in {0, session}
  /\ \A p \in Producers : dec[p] \notin {"idle", "read"} => SessionOf(frame[p]) = session
  /\ \A p \in Producers : dec[p] = "enqueue" => SessionOf(offer[p]) = session
  /\ seek \notin {"reset", "moved", "restart"} =>
       \A k \in DOMAIN list : SessionOf(list[k]) = session
  /\ seek = "restart" /\ ctl = "idle" => list = <<>>

\* A Decode that has read, or is to read, is alone with the demuxer.
LEMMA DecodeAlone ==
  ASSUME Exclusive, NEW p \in Producers, dec[p] # "idle"
  PROVE  seek \notin {"move", "reset", "moved", "restart"}
BY StreamAssumption DEF Exclusive

\* Items that are all of the session stay so as one is added, or taken, or all
\* are.
LEMMA FreshItems ==
  ASSUME NEW s, s \in Seq(Nat), NEW n \in Nat, NEW f \in Nat, SessionOf(f) = n,
         \A k \in DOMAIN s : SessionOf(s[k]) = n
  PROVE  /\ \A k \in DOMAIN Append(s, f) : SessionOf(Append(s, f)[k]) = n
         /\ s # <<>> => \A k \in DOMAIN Tail(s) : SessionOf(Tail(s)[k]) = n
         /\ \A k \in DOMAIN <<>> : SessionOf(<<>>[k]) = n
<1>1. ASSUME NEW k \in DOMAIN Append(s, f)
      PROVE  SessionOf(Append(s, f)[k]) = n
  <2>1. (k \in DOMAIN s /\ Append(s, f)[k] = s[k]) \/ Append(s, f)[k] = f
    OBVIOUS
  <2> QED
    BY <2>1
<1>2. ASSUME s # <<>>, NEW k \in DOMAIN Tail(s)
      PROVE  SessionOf(Tail(s)[k]) = n
  <2>1. k + 1 \in DOMAIN s /\ Tail(s)[k] = s[k + 1]
    BY <1>2
  <2> QED
    BY <2>1
<1>3. \A k \in DOMAIN <<>> : SessionOf(<<>>[k]) = n
  OBVIOUS
<1> QED
  BY <1>1, <1>2, <1>3

\* Frames that are all of the session stay so as one is added, or taken, or all
\* are.
\* So do the frames in the codec, whether one more goes in or one comes out.
LEMMA FreshCodec ==
  ASSUME TypeOK, \A k \in DOMAIN codec : codec[k] = session
  PROVE  /\ \A k \in DOMAIN Append(codec, session) : Append(codec, session)[k] = session
         /\ \A k \in DOMAIN Tail(Append(codec, session)) :
              Tail(Append(codec, session))[k] = session
         /\ Append(codec, session)[1] = session
<1>1. \A k \in DOMAIN Append(codec, session) : Append(codec, session)[k] = session
  BY CodecTypes
<1>2. \A k \in DOMAIN Tail(Append(codec, session)) :
        Tail(Append(codec, session))[k] = session
  BY <1>1, CodecTypes
<1> QED
  BY <1>1, <1>2, CodecTypes

LEMMA FreshStep ==
  ASSUME TypeOK, Exclusive, Fresh, [Next]_vars
  PROVE  Fresh'
<1> USE StreamAssumption
<1>0. session \in Nat /\ list \in Seq(Nat) /\ codec \in Seq(Nat)
  BY DEF TypeOK, QueueTypeOK
<1>1. ASSUME NEW p \in Producers,
             DecodeLocks(p) \/ DecodeReadsNothing(p) \/ DecodeEnds(p)
      PROVE  Fresh'
  <2>1. UNCHANGED <<queueVars, seek, frame, session, codec>>
    BY <1>1 DEF DecodeLocks, DecodeReadsNothing, DecodeEnds, demuxer
  <2>2. /\ \A q \in Producers \ {p} : dec'[q] = dec[q]
        /\ dec'[p] \in {"idle", "read"}
        /\ LastVideoPTS' \in {LastVideoPTS, session}
    BY <1>1 DEF DecodeLocks, DecodeReadsNothing, DecodeEnds, Unlock, TypeOK, Fresh, demuxer
  <2> QED
    BY <2>1, <2>2 DEF queueVars, Fresh
<1>2. ASSUME NEW p \in Producers,
             DecodeGetsNoFrame(p) \/ DecodeGetsFrame(p) \/ DecodeGetsPacket(p)
      PROVE  Fresh'
  <2>1. UNCHANGED <<queueVars, seek, session, LastVideoPTS>>
    BY <1>2 DEF DecodeGetsNoFrame, DecodeGetsFrame, DecodeGetsPacket
  <2>2. dec[p] = "read" /\ seek # "reset"
    BY <1>2, DecodeAlone DEF DecodeGetsNoFrame, DecodeGetsFrame, DecodeGetsPacket
  <2>3. codec' \in {codec, Append(codec, session), Tail(Append(codec, session))}
    BY <1>2 DEF DecodeGetsNoFrame, DecodeGetsFrame, DecodeGetsPacket
  <2>4. \A k \in DOMAIN codec : codec[k] = session
    BY <2>2 DEF Fresh
  <2>5. \A k \in DOMAIN codec' : codec'[k] = session
    BY <2>3, <2>4, FreshCodec
  <2>6. \A q \in Producers \ {p} : frame'[q] = frame[q]
    BY <1>2 DEF DecodeGetsNoFrame, DecodeGetsFrame, DecodeGetsPacket, TypeOK
  <2>7. /\ \A q \in Producers \ {p} : dec'[q] = dec[q]
        /\ dec'[p] = "idle" \/ (dec'[p] = "offer" /\ SessionOf(frame'[p]) = session)
    <3>1. CASE DecodeGetsNoFrame(p)
      BY <3>1 DEF DecodeGetsNoFrame, Unlock, TypeOK
    <3>2. CASE DecodeGetsFrame(p)
      <4>1. PICK q \in {Video, Audio} : frame' = [frame EXCEPT ![p] = Item(session, q)]
        BY <2>4, <3>2, FreshCodec DEF DecodeGetsFrame
      <4>2. SessionOf(frame'[p]) = session
        BY <1>0, <4>1, Items DEF TypeOK
      <4> QED
        BY <3>2, <4>2 DEF DecodeGetsFrame, TypeOK
    <3>3. CASE DecodeGetsPacket(p)
      <4>1. SessionOf(frame'[p]) = session
        BY <1>0, <3>3, Items DEF DecodeGetsPacket, TypeOK
      <4> QED
        BY <3>3, <4>1 DEF DecodeGetsPacket, TypeOK
    <3> QED
      BY <1>2, <3>1, <3>2, <3>3
  <2> QED
    BY <2>1, <2>5, <2>6, <2>7 DEF queueVars, Fresh
<1>3. ASSUME NEW p \in Producers, DecodeOffers(p)
      PROVE  Fresh'
  <2>1. UNCHANGED <<seek, frame, session, codec, LastVideoPTS, ctl, list>>
    BY <1>3 DEF DecodeOffers, EnqueueTests, EnqueueRefuses, demuxer, queueVars
  <2>2. /\ \A q \in Producers \ {p} : dec'[q] = dec[q] /\ offer'[q] = offer[q]
        /\ dec'[p] = "idle" \/ (dec'[p] = "enqueue" /\ offer'[p] = frame[p])
    BY <1>3 DEF DecodeOffers, EnqueueTests, EnqueueRefuses, Unlock, TypeOK, QueueTypeOK,
       queueVars
  <2>3. SessionOf(frame[p]) = session
    BY <1>3 DEF Fresh, DecodeOffers
  <2> QED
    BY <2>1, <2>2, <2>3 DEF Fresh
<1>4. ASSUME NEW p \in Producers, DecodeEnqueues(p)
      PROVE  Fresh'
  <2>1. /\ UNCHANGED <<frame, seek, session, codec, LastVideoPTS, offer, ctl>>
        /\ \A q \in Producers \ {p} : dec'[q] = dec[q]
        /\ \/ dec' = dec /\ list' = list
           \/ dec'[p] = "pushed" /\ list' = Append(list, offer[p])
    BY <1>4, EnqueueSteps DEF demuxer
  <2>2. dec[p] = "enqueue" /\ seek \notin {"reset", "moved", "restart"}
    BY <1>4, DecodeAlone DEF DecodeEnqueues
  <2>3. \A k \in DOMAIN list : SessionOf(list[k]) = session
    BY <2>2 DEF Fresh
  <2>4. SessionOf(offer[p]) = session /\ SessionOf(frame[p]) = session /\ offer[p] \in Nat
    BY <2>2 DEF Fresh, TypeOK, QueueTypeOK
  <2>5. \A k \in DOMAIN Append(list, offer[p]) : SessionOf(Append(list, offer[p])[k]) = session
    BY <1>0, <2>3, <2>4, FreshItems
  <2>6. \A k \in DOMAIN list' : SessionOf(list'[k]) = session
    BY <2>1, <2>3, <2>5
  <2> QED
    BY <2>1, <2>2, <2>4, <2>6 DEF Fresh
<1>5. CASE Aside
  <2>1. /\ UNCHANGED <<dec, frame, seek, session, codec, LastVideoPTS, offer>>
        /\ list' = list \/ (list # <<>> /\ list' = Tail(list)) \/ list' = <<>>
        /\ ctl' = "idle" => ctl = "idle" \/ list' = <<>>
    BY <1>5, AsideSteps DEF demuxer
  <2>2. ASSUME seek \notin {"reset", "moved", "restart"}
        PROVE  \A k \in DOMAIN list' : SessionOf(list'[k]) = session
    <3>1. \A k \in DOMAIN list : SessionOf(list[k]) = session
      BY <2>2 DEF Fresh
    <3>2. Item(session, Video) \in Nat /\ SessionOf(Item(session, Video)) = session
      BY <1>0, Items
    <3>3. /\ list # <<>> => \A k \in DOMAIN Tail(list) : SessionOf(Tail(list)[k]) = session
          /\ \A k \in DOMAIN <<>> : SessionOf(<<>>[k]) = session
      BY <1>0, <3>1, <3>2, FreshItems
    <3>4. CASE list' = list
      BY <3>1, <3>4
    <3>5. CASE list # <<>> /\ list' = Tail(list)
      BY <3>3, <3>5
    <3>6. CASE list' = <<>>
      BY <3>3, <3>6
    <3> QED
      BY <2>1, <3>4, <3>5, <3>6
  <2>3. seek = "restart" /\ ctl' = "idle" => list' = <<>>
    BY <2>1 DEF Fresh
  <2> QED
    BY <2>1, <2>2, <2>3 DEF Fresh
<1>6. CASE SeekClears \/ SeekLocks \/ SeekRestarts
  <2>1. UNCHANGED <<dec, frame, demuxer, list, offer>>
    BY <1>6 DEF SeekClears, SeekLocks, SeekRestarts, ClearSetsStop, Restart, queueVars
  <2>2. /\ seek' \notin {"reset", "moved", "restart"}
        /\ \/ seek \notin {"reset", "moved", "restart"}
           \/ seek = "restart" /\ ctl = "idle"
        /\ seek # "reset"
    BY <1>6 DEF SeekClears, SeekLocks, SeekRestarts, Restart
  <2>3. list = <<>> => \A k \in DOMAIN list : SessionOf(list[k]) = session
    OBVIOUS
  <2>4. \A k \in DOMAIN list : SessionOf(list[k]) = session
    BY <2>2, <2>3 DEF Fresh
  <2> QED
    BY <2>1, <2>2, <2>4 DEF Fresh, demuxer
<1>7. CASE SeekMoves
  <2>1. /\ seek = "move" /\ seek' \in {"reset", "moved"} /\ LastVideoPTS' = 0
        /\ seek' = "moved" => session' = session
        /\ UNCHANGED <<dec, frame, offer, codec>>
    BY <1>7 DEF SeekMoves, queueVars
  <2>2. \A p \in Producers : dec[p] = "idle"
    BY <2>1, DecodeAlone
  <2> QED
    BY <2>1, <2>2 DEF Fresh
<1>8. CASE SeekResets
  <2>1. /\ seek = "reset" /\ seek' = "moved" /\ codec' = <<>>
        /\ UNCHANGED <<dec, frame, offer, session, LastVideoPTS>>
    BY <1>8 DEF SeekResets, Flush, queueVars
  <2>2. \A p \in Producers : dec[p] = "idle"
    BY <2>1, DecodeAlone
  <2>3. \A k \in DOMAIN codec' : codec'[k] = session'
    BY <2>1
  <2> QED
    BY <2>1, <2>2, <2>3 DEF Fresh
<1>9. CASE SeekClearsAgain
  <2>1. /\ UNCHANGED <<dec, frame, demuxer, list, offer>>
        /\ seek = "moved" /\ seek' = "restart" /\ ctl' = "notify"
    BY <1>9 DEF SeekClearsAgain, ClearSetsStop
  <2> QED
    BY <2>1 DEF Fresh, demuxer
<1>10. CASE CheckIsEnd \/ UNCHANGED vars
  BY <1>10, CheckOnlyLooks DEF vars, queueVars, demuxer, Fresh
<1> QED
  BY <1>1, <1>2, <1>3, <1>4, <1>5, <1>6, <1>7, <1>8, <1>9, <1>10
  DEF Next, Decode, SetTimePos, Aside

-----------------------------------------------------------------------------
(***************************************************************************)
(* The end of the stream.                                                  *)
(***************************************************************************)

\* IsEnd is set by a round that ends there, and as long as it is set no round gets
\* past reading; only a seek that has moved and not yet reset it leaves more to
\* read.  A CheckIsEnd of this session that is past the flag has seen it set, and a
\* queue that it has found empty stays empty.
Ended ==
  /\ IsEnd /\ seek # "reset" => unread = 0
  /\ IsEnd => \A p \in Producers : dec[p] \in {"idle", "read"}
  /\ checked <= session
  /\ check # "idle" /\ checked = session =>
       /\ IsEnd /\ seek # "reset"
       /\ check # "video" => IsEmpty(Video)
       /\ check \in {"source", "ended"} => IsEmpty(Audio)
       /\ check = "ended" => list = <<>>

\* A queue that is empty stays so while frames are only taken out.
LEMMA EmptyStays ==
  ASSUME list \in Seq(Nat), NEW CONSTANT q, IsEmpty(q),
         list' \in {list, <<>>} \/ (list # <<>> /\ list' = Tail(list))
  PROVE  IsEmpty(q)'
<1>1. CASE list' = list
  BY <1>1 DEF IsEmpty
<1>2. CASE list' = <<>>
  BY <1>2 DEF IsEmpty
<1>3. CASE list # <<>> /\ list' = Tail(list)
  <2>1. \A k \in DOMAIN Tail(list) : k + 1 \in DOMAIN list /\ Tail(list)[k] = list[k + 1]
    BY <1>3
  <2> QED
    BY <1>3, <2>1 DEF IsEmpty
<1> QED
  BY <1>1, <1>2, <1>3

\* There is no fourth queue.
LEMMA EmptyQueues ==
  ASSUME list \in Seq(Nat), IsEmpty(Video), IsEmpty(Audio), IsEmpty(Source)
  PROVE  list = <<>>
<1>1. ASSUME list # <<>>
      PROVE  FALSE
  <2>1. 1 \in DOMAIN list /\ list[1] \in Nat
    BY <1>1
  <2> QED
    BY <2>1, ItemParts DEF IsEmpty
<1> QED
  BY <1>1

LEMMA EndedStep ==
  ASSUME TypeOK, Exclusive, Ended, [Next]_vars
  PROVE  Ended'
<1> USE StreamAssumption
<1>0. /\ session \in Nat /\ checked \in Nat /\ unread \in Nat
      /\ list \in Seq(Nat)
  BY DEF TypeOK, QueueTypeOK
<1>1. ASSUME NEW p \in Producers, DecodeLocks(p) \/ DecodeReadsNothing(p)
      PROVE  Ended'
  <2>1. /\ UNCHANGED <<list, session, unread, checking, seek>>
        /\ \A q \in Producers \ {p} : dec'[q] = dec[q]
        /\ dec'[p] \in {"idle", "read"}
    BY <1>1 DEF DecodeLocks, DecodeReadsNothing, Unlock, queueVars, demuxer, TypeOK
  <2>2. /\ IsEnd => IsEnd'
        /\ IsEnd' => IsEnd \/ unread = 0
    BY <1>1 DEF DecodeLocks, DecodeReadsNothing, demuxer
  <2>3. IsEnd' => \A q \in Producers \ {p} : dec[q] \in {"idle", "read"}
    BY <1>1, <2>2 DEF DecodeLocks, DecodeReadsNothing, demuxer, Ended, Exclusive
  <2> QED
    BY <2>1, <2>2, <2>3 DEF Ended, checking, IsEmpty
<1>2. ASSUME NEW p \in Producers,
             DecodeGetsNoFrame(p) \/ DecodeGetsFrame(p) \/ DecodeGetsPacket(p)
      PROVE  Ended'
  <2>1. UNCHANGED <<list, session, IsEnd, checking, seek>> /\ unread > 0 /\ dec[p] = "read"
    BY <1>2 DEF DecodeGetsNoFrame, DecodeGetsFrame, DecodeGetsPacket, queueVars
  <2>2. ~IsEnd
    BY <1>0, <2>1, DecodeAlone DEF Ended
  <2> QED
    BY <2>1, <2>2 DEF Ended, checking
<1>3. ASSUME NEW p \in Producers, DecodeOffers(p) \/ DecodeEnqueues(p) \/ DecodeEnds(p)
      PROVE  Ended'
  <2>1. UNCHANGED <<session, IsEnd, checking>> /\ dec[p] \notin {"idle", "read"}
    BY <1>3 DEF DecodeOffers, DecodeEnqueues, DecodeEnds, demuxer
  <2>2. ~IsEnd
    BY <2>1 DEF Ended
  <2> QED
    BY <2>1, <2>2 DEF Ended, checking
<1>4. CASE Aside
  <2>1. UNCHANGED <<dec, demuxer, checking, seek>>
    BY <1>4, AsideSteps
  <2>2. list' \in {list, <<>>} \/ (list # <<>> /\ list' = Tail(list))
    BY <1>4, AsideSteps
  <2>3. /\ IsEmpty(Video) => IsEmpty(Video)'
        /\ IsEmpty(Audio) => IsEmpty(Audio)'
        /\ list = <<>> => list' = <<>>
    BY <1>0, <2>2, EmptyStays DEF Video, Audio
  <2> QED
    BY <2>1, <2>3 DEF Ended, demuxer, checking
<1>5. CASE SeekClears \/ SeekLocks \/ SeekClearsAgain \/ SeekRestarts
  <2>1. UNCHANGED <<dec, demuxer, checking, list>> /\ seek # "reset" /\ seek' # "reset"
    BY <1>5
    DEF SeekClears, SeekLocks, SeekClearsAgain, SeekRestarts, ClearSetsStop, Restart,
        queueVars
  <2> QED
    BY <2>1 DEF Ended, demuxer, checking, IsEmpty
<1>6. CASE SeekMoves
  <2>1. UNCHANGED <<dec, checking, list, IsEnd>> /\ seek = "move"
    BY <1>6 DEF SeekMoves, queueVars
  <2>2. \/ session' = session + 1 /\ seek' = "reset"
        \/ UNCHANGED <<session, unread>> /\ seek' = "moved"
    BY <1>6 DEF SeekMoves
  <2>3. CASE session' = session + 1 /\ seek' = "reset"
    <3>1. checked < session'
      BY <1>0, <2>3 DEF Ended
    <3> QED
      BY <1>0, <2>1, <2>3, <3>1 DEF Ended, checking
  <2>4. CASE UNCHANGED <<session, unread>> /\ seek' = "moved"
    BY <2>1, <2>4 DEF Ended, checking, IsEmpty
  <2> QED
    BY <2>2, <2>3, <2>4
<1>7. CASE SeekResets
  <2>1. UNCHANGED <<checking, session>> /\ seek = "reset" /\ IsEnd' = FALSE
    BY <1>7 DEF SeekResets
  <2> QED
    BY <2>1 DEF Ended, checking
<1>8. CASE CheckReadsIsEnd
  <2>1. /\ UNCHANGED <<dec, demuxer, seek>>
        /\ checked' = (IF seek = "reset" THEN session - 1 ELSE session)
        /\ check' = (IF IsEnd THEN "video" ELSE "idle")
    BY <1>8 DEF CheckReadsIsEnd
  <2>2. checked' <= session /\ (checked' = session => seek # "reset")
    BY <1>0, <2>1
  <2> QED
    BY <2>1, <2>2 DEF Ended, demuxer
<1>9. ASSUME UNCHANGED <<dec, demuxer, list, checked, seek>>,
             \/ check = "video" /\ check' \in {"idle", "audio"}
                /\ (check' = "audio" => IsEmpty(Video))
             \/ check = "audio" /\ check' \in {"idle", "source"}
                /\ (check' = "source" => IsEmpty(Audio))
             \/ check = "source" /\ check' \in {"idle", "ended"}
                /\ (check' = "ended" => IsEmpty(Source))
      PROVE  Ended'
  <2>1. /\ IsEmpty(Video)' <=> IsEmpty(Video)
        /\ IsEmpty(Audio)' <=> IsEmpty(Audio)
    BY <1>9 DEF IsEmpty
  <2> QED
    BY <1>0, <1>9, <2>1, EmptyQueues DEF Ended, demuxer
<1>10. CASE \/ CheckCounts("video", Video, "audio")
            \/ CheckCounts("audio", Audio, "source")
            \/ CheckCounts("source", Source, "ended")
  BY <1>9, <1>10 DEF CheckCounts, queueVars
<1>11. CASE UNCHANGED vars
  BY <1>11 DEF vars, queueVars, demuxer, checking, Ended, IsEmpty
<1> QED
  BY <1>1, <1>2, <1>3, <1>4, <1>5, <1>6, <1>7, <1>8, <1>10, <1>11
  DEF Next, Decode, SetTimePos, Aside, CheckIsEnd

-----------------------------------------------------------------------------
(***************************************************************************)
(* The length of the list.                                                 *)
(***************************************************************************)

\* 1 if a Decode is about to push without a look at the list: as all of them are
\* inside Enqueue with the mutex, it is never more than one.
Pending == IF \E p \in Producers : at[p] = "full_woken" THEN 1 ELSE 0

\* A Decode in wait is owed the room that a player made, and has it; but for a
\* spurious wake-up, and a Clear that has notified and not yet emptied the list.
OneOver ==
  Len(list) + Pending <= MaxLen + spurious + (IF ctl = "empty" THEN 1 ELSE 0)

LEMMA OwedStep ==
  ASSUME TypeOK, Exclusive, OneOver, [Next]_vars
  PROVE  OneOver'
<1> USE StreamAssumption, QueueAssumption
<1>0. /\ list \in Seq(Nat) /\ Len(list) \in Nat /\ spurious \in Nat
      /\ Pending \in {0, 1} /\ Pending' \in {0, 1}
  BY DEF TypeOK, QueueTypeOK, Pending
<1>1. ASSUME NEW p \in Producers,
             DecodeLocks(p) \/ DecodeReadsNothing(p) \/ DecodeGetsNoFrame(p)
               \/ DecodeGetsFrame(p) \/ DecodeGetsPacket(p) \/ DecodeEnds(p)
      PROVE  OneOver'
  <2>1. UNCHANGED <<at, list, ctl, spurious>>
    BY <1>1
    DEF DecodeLocks, DecodeReadsNothing, DecodeGetsNoFrame, DecodeGetsFrame,
        DecodeGetsPacket, DecodeEnds, queueVars
  <2> QED
    BY <2>1 DEF OneOver, Pending
<1>2. ASSUME NEW p \in Producers, DecodeOffers(p)
      PROVE  OneOver'
  <2>1. /\ UNCHANGED <<list, ctl, spurious>>
        /\ at' = at \/ at' = [at EXCEPT ![p] = "enqueue"]
    BY <1>2 DEF DecodeOffers, EnqueueTests, EnqueueRefuses, queueVars, history
  <2>2. \A q \in Producers : at'[q] = at[q] \/ at'[q] = "enqueue"
    BY <2>1 DEF TypeOK, QueueTypeOK, Threads
  <2>3. Pending' <= Pending
    BY <2>2 DEF Pending
  <2> QED
    BY <1>0, <2>1, <2>3 DEF OneOver
<1>3. ASSUME NEW p \in Producers, DecodeEnqueues(p)
      PROVE  OneOver'
  <2>1. dec[p] = "enqueue" /\ mutex = p
    BY <1>3 DEF DecodeEnqueues, Exclusive
  <2>2. \A q \in Producers \ {p} : at[q] = "idle" /\ at'[q] = "idle"
    BY <1>3, <2>1, EnqueueSteps DEF Exclusive
  <2>3. UNCHANGED <<ctl, spurious>>
    <3>1. spurious' = spurious
      BY <1>3 DEF DecodeEnqueues, EnqueueWaits, EnqueuePushes, Push, history
    <3> QED
      BY <1>3, <3>1, EnqueueSteps
  <2>4. Pending' = 0
    <3>1. at'[p] # "full_woken"
      BY <1>3, EnqueueSteps
    <3> QED
      BY <2>2, <3>1 DEF Pending
  <2>5. \/ list' = list
        \/ Len(list') = Len(list) + 1 /\ (Pending = 1 \/ Len(list) < MaxLen)
    <3>1. CASE list' = list
      BY <3>1
    <3>2. CASE list' = Append(list, offer[p]) /\ (at[p] = "full_woken" \/ Len(list) < MaxLen)
      <4>1. offer[p] \in Nat
        BY DEF TypeOK, QueueTypeOK
      <4> QED
        BY <1>0, <3>2, <4>1 DEF Pending
    <3> QED
      BY <1>3, <3>1, <3>2, EnqueueSteps
  <2> QED
    BY <1>0, <2>3, <2>4, <2>5 DEF OneOver
<1>4. ASSUME NEW c \in Consumers, VideoDeQueue(c)
      PROVE  OneOver'
  <2>1. CASE DequeueTests(c) \/ DequeueWaits(c) \/ DequeueGivesUp(c)
    <3>1. /\ UNCHANGED <<list, ctl, spurious>>
          /\ \A p \in Producers : at'[p] = at[p]
      BY <2>1
      DEF DequeueTests, DequeueWaits, DequeueGivesUp, history, TypeOK, QueueTypeOK, Threads
    <3> QED
      BY <3>1 DEF OneOver, Pending
  <2>2. CASE DequeuePops(c)
    <3>1. UNCHANGED <<ctl, spurious>> /\ list # <<>> /\ list' = Tail(list)
      BY <2>2 DEF DequeuePops
    <3>2. Len(list') = Len(list) - 1
      BY <1>0, <3>1
    <3> QED
      BY <1>0, <3>1, <3>2 DEF OneOver
  <2> QED
    BY <1>4, <2>1, <2>2 DEF VideoDeQueue, Dequeue
<1>5. ASSUME NEW t \in Threads, Wakeup(t)
      PROVE  OneOver'
  <2>1. UNCHANGED <<list, ctl>> /\ spurious' = spurious + 1
    BY <1>5 DEF Wakeup, SpuriousWakeup
  <2> QED
    BY <1>0, <2>1 DEF OneOver
<1>6. CASE SeekGoesOnClearing
  <2>1. CASE ClearNotifies
    <3>1. UNCHANGED <<list, spurious>> /\ ctl = "notify" /\ ctl' = "empty"
      BY <2>1 DEF ClearNotifies
    <3> QED
      BY <1>0, <3>1 DEF OneOver
  <2>2. CASE ClearEmpties
    <3>1. UNCHANGED spurious /\ ctl' = "idle" /\ Len(list') = 0
      <4>1. Len(<<>>) = 0
        OBVIOUS
      <4> QED
        BY <2>2, <4>1 DEF ClearEmpties
    <3>2. PICK n \in {0, 1} : Pending' = n
      BY <1>0
    <3>3. 0 + n <= MaxLen + spurious + 0
      BY <1>0
    <3> QED
      BY <1>0, <3>1, <3>2, <3>3 DEF OneOver
  <2> QED
    BY <1>6, <2>1, <2>2 DEF SeekGoesOnClearing
<1>7. CASE SeekClears \/ SeekLocks \/ SeekMoves \/ SeekResets \/ SeekClearsAgain
           \/ SeekRestarts
  <2>1. /\ UNCHANGED <<at, list, spurious>>
        /\ ctl' = ctl \/ (ctl = "idle" /\ ctl' = "notify")
    BY <1>7
    DEF SeekClears, SeekLocks, SeekMoves, SeekResets, SeekClearsAgain, SeekRestarts,
        ClearSetsStop, Restart, queueVars, history
  <2> QED
    BY <2>1 DEF OneOver, Pending
<1>8. CASE CheckIsEnd \/ UNCHANGED vars
  BY <1>8, CheckOnlyLooks DEF vars, queueVars, OneOver, Pending
<1> QED
  BY <1>1, <1>2, <1>3, <1>4, <1>5, <1>6, <1>7, <1>8 DEF Next, Decode, SetTimePos

-----------------------------------------------------------------------------
DecoderInv == TypeOK /\ Exclusive /\ Fresh /\ Ended /\ OneOver

\* The queue starts empty, with nobody in a call.
LEMMA DecoderInit == Init => Exclusive /\ Fresh /\ Ended /\ OneOver
<1> SUFFICES ASSUME Init
             PROVE  Exclusive /\ Fresh /\ Ended /\ OneOver
  OBVIOUS
<1>1. /\ ~forceQuit /\ ctl = "idle" /\ list = <<>> /\ spurious = 0
      /\ \A p \in Producers : at[p] = "idle" /\ dec[p] = "idle"
      /\ seek = "none" /\ mutex = "free" /\ session = 1 /\ checked = 1
      /\ codec = <<>> /\ ~IsEnd /\ LastVideoPTS = 0 /\ check = "idle"
  BY DEF Init, QueueInit, Threads
<1>2. mutex \notin Producers
  BY <1>1, StreamAssumption
<1>3. Exclusive
  BY <1>1, <1>2 DEF Exclusive
<1>4. Fresh
  BY <1>1 DEF Fresh
<1>5. Ended
  BY <1>1 DEF Ended
<1>6. OneOver
  <2>1. Len(<<>>) = 0
    OBVIOUS
  <2>2. Pending = 0
    BY <1>1 DEF Pending
  <2> QED
    BY <1>1, <2>1, <2>2, QueueAssumption DEF OneOver
<1> QED
  BY <1>3, <1>4, <1>5, <1>6

\* The four hold together, in every reachable state.
THEOREM DecoderInvariance == Spec => []DecoderInv
<1>1. Init => Exclusive /\ Fresh /\ Ended /\ OneOver
  BY DecoderInit
<1>2. TypeOK /\ Exclusive /\ Fresh /\ Ended /\ OneOver /\ [Next]_vars
        => Exclusive' /\ Fresh' /\ Ended' /\ OneOver'
  BY ExclusiveStep, FreshStep, EndedStep, OwedStep
<1>3. Spec => []TypeOK
  BY DecoderTyping
<1> QED
  BY <1>1, <1>2, <1>3, PTL DEF Spec, DecoderInv

\* Outside of SetTimePos every frame, wherever it is, is of the position that the
\* last seek has moved to.
THEOREM SeekLeavesNoFrame == Spec => []NoStaleFrame
<1>1. DecoderInv => NoStaleFrame
  BY DEF DecoderInv, Fresh, NoStaleFrame
<1> QED
  BY <1>1, DecoderInvariance, PTL

\* CheckIsEnd is right, though it takes no lock.
THEOREM EndIsNoticedLate == Spec => []EndIsTheEnd
<1>1. DecoderInv => EndIsTheEnd
  BY DEF DecoderInv, Ended, EndIsTheEnd
<1> QED
  BY <1>1, DecoderInvariance, PTL

\* The list of a decoder's queue is one frame longer than maxLen at most, however
\* many threads decode, where the queue alone has two per producer.
THEOREM DecoderQueueBounded == Spec => []OneExtraFrame
<1>1. DecoderInv => OneExtraFrame
  <2> SUFFICES ASSUME DecoderInv PROVE OneExtraFrame
    OBVIOUS
  <2>1. /\ Len(list) \in Nat /\ spurious \in Nat /\ Pending \in {0, 1}
        /\ Len(list) + Pending <= MaxLen + spurious + (IF ctl = "empty" THEN 1 ELSE 0)
    BY DEF DecoderInv, TypeOK, QueueTypeOK, Pending, OneOver
  <2> QED
    BY <2>1, QueueAssumption DEF OneExtraFrame
<1> QED
  BY <1>1, DecoderInvariance, PTL

=============================================================================
