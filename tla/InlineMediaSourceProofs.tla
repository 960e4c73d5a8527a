----------------------- MODULE InlineMediaSourceProofs -----------------------
(***************************************************************************)
(* Theorems about InlineMediaSource, for every size of the ring, of the    *)
(* chunks and of the reads, and every value of the bounds.                 *)
(***************************************************************************)
EXTENDS InlineMediaSource, SequenceTheorems, TLAPS

-----------------------------------------------------------------------------
(***************************************************************************)
(* The arithmetic of the ring.                                             *)
(***************************************************************************)

\* read_ptr hands out unread bytes only, in a run that does not pass the end
\* of the array, and none only when there are none.
LEMMA ReadPtrBounds ==
  ASSUME NEW b \in Ring
  PROVE  /\ Used(b) \in 0 .. Size
         /\ ReadPtr(b) \in 0 .. Used(b)
         /\ b.r + ReadPtr(b) <= Size
         /\ ReadPtr(b) = 0 => Used(b) = 0
  BY SizeAssumption DEF Ring, Index, Used, ReadPtr

\* write_ptr hands out free bytes only, in a run that does not pass the end
\* of the array, and none only when the ring is full.
LEMMA WritePtrBounds ==
  ASSUME NEW b \in Ring
  PROVE  /\ WritePtr(b) \in 0 .. Size - Used(b)
         /\ b.w + WritePtr(b) <= Size
         /\ WritePtr(b) = 0 => Used(b) = Size
  BY SizeAssumption DEF Ring, Index, Used, WritePtr

\* The slots of the unread bytes are slots.
LEMMA SlotType ==
  ASSUME NEW b \in Ring, NEW k \in 1 .. Size
  PROVE  Slot(b, k) \in Index
  BY SizeAssumption DEF Ring, Index, Slot

\* read removes the first n unread bytes and moves no other.
LEMMA ReadRemoves ==
  ASSUME NEW b \in Ring, NEW n \in 1 .. ReadPtr(b)
  PROVE  /\ Read(b, n) \in Ring
         /\ Used(Read(b, n)) = Used(b) - n
         /\ \A k \in 1 .. n : Slot(b, k) = b.r + k - 1
         /\ \A k \in 1 .. Used(b) - n : Slot(Read(b, n), k) = Slot(b, n + k)
  BY SizeAssumption DEF Ring, Index, Used, ReadPtr, Read, Advance, Slot

\* write adds n unread bytes after the others, in slots that held none.
LEMMA WriteAdds ==
  ASSUME NEW b \in Ring, NEW n \in 1 .. WritePtr(b)
  PROVE  /\ Write(b, n) \in Ring
         /\ Used(Write(b, n)) = Used(b) + n
         /\ \A k \in 1 .. Used(b) : /\ Slot(Write(b, n), k) = Slot(b, k)
                                    /\ Slot(b, k) \notin b.w .. b.w + n - 1
         /\ \A k \in 1 .. n : Slot(Write(b, n), Used(b) + k) = b.w + k - 1
  BY SizeAssumption DEF Ring, Index, Used, WritePtr, Write, Advance, Slot

\* The slots of a run of n bytes that does not pass the end of the array.
LEMMA RunOfSlots ==
  ASSUME NEW i \in Nat, NEW n \in Nat, i + n <= Size, NEW j \in 1 .. n
  PROVE  i + j - 1 \in Index /\ i + j - 1 \in i .. i + n - 1
  BY SizeAssumption DEF Index

\* A ring that was initialised or cleared holds nothing.
LEMMA ClearIsEmpty == Clear \in Ring /\ Used(Clear) = 0
  BY SizeAssumption DEF Ring, Index, Used, Clear

-----------------------------------------------------------------------------
(***************************************************************************)
(* The inductive invariant.  Calling records which threads a caller inside *)
(* Stop or Start has joined or not yet created, and WakePending that a     *)
(* reader that is about to sleep when stop is set will find Stop's post.   *)
(***************************************************************************)

Calling ==
  /\ ctl # "idle" => op # "none"
  /\ ctl \in {"join_inline", "clear", "create_play", "freed"} => play = "none"
  /\ ctl \in {"clear", "create_play", "create_inline", "freed"} => inline = "none"

WakePending ==
  play \in {"copy", "wait_data"} /\ stop => semData > 0 \/ ctl = "post_data"

Inv == TypeOK /\ Calling /\ InOrder /\ NoLostWakeup /\ WakePending

\* The invariant holds of the constructed object.
LEMMA InitInv == Init => Inv
  BY SizeAssumption, BoundsAssumption, ClearIsEmpty
  DEF Init, Inv, TypeOK, Calling, InOrder, NoLostWakeup, WakePending, Index

\* What a call of Fill does with the ring under the lock: it finds nothing, or
\* takes the first n unread bytes.
LEMMA FillCopiesEffect ==
  ASSUME TypeOK, FillCopies
  PROVE  /\ play = "copy" /\ UNCHANGED <<caller, http, shared, data, sent>>
         /\ \/ Used(ring) = 0 /\ play' = "wait_data" /\ UNCHANGED <<ring, got>>
            \/ \E n \in 1 .. ReadPtr(ring) :
                 /\ got' = got \o [k \in 1 .. n |-> data[ring.r + k - 1]]
                 /\ ring' = Read(ring, n)
                 /\ play' = "demux"
<1> USE TypeOK DEF TypeOK
<1>1. PICK bufSize \in 1 .. MaxRead :
        LET nread == ReadPtr(ring)
            copy == IF bufSize < nread THEN bufSize ELSE nread
        IN IF copy = 0
           THEN play' = "wait_data" /\ UNCHANGED <<ring, got>>
           ELSE /\ got' = got \o [k \in 1 .. copy |-> data[ring.r + k - 1]]
                /\ ring' = Read(ring, copy)
                /\ play' = "demux"
  BY FillCopies DEF FillCopies
<1> DEFINE copy == IF bufSize < ReadPtr(ring) THEN bufSize ELSE ReadPtr(ring)
<1>2. bufSize \in Nat \ {0} /\ ReadPtr(ring) \in 0 .. Used(ring)
      /\ (ReadPtr(ring) = 0 => Used(ring) = 0)
  BY ReadPtrBounds, BoundsAssumption
<1>3. CASE copy = 0
  BY <1>1, <1>2, <1>3, FillCopies DEF FillCopies
<1>4. CASE copy # 0
  <2>1. copy \in 1 .. ReadPtr(ring)
    BY <1>2, <1>4, ReadPtrBounds
  <2>2. /\ got' = got \o [k \in 1 .. copy |-> data[ring.r + k - 1]]
        /\ ring' = Read(ring, copy) /\ play' = "demux"
    BY <1>1, <1>4
  <2> HIDE DEF copy
  <2> QED
    BY <2>1, <2>2, FillCopies DEF FillCopies
<1> QED
  BY <1>3, <1>4

\* What DataReceivedEventHandler does with the ring under the lock.
LEMMA HandlerWritesEffect ==
  ASSUME TypeOK, HandlerWrites
  PROVE  /\ inline = "write"
         /\ UNCHANGED <<inline, chunk, gets, caller, play, shared, got>>
         /\ \E n \in 1 .. WritePtr(ring) :
              /\ n <= left /\ left' = left - n
              /\ data' = [i \in Index |->
                           IF i \in ring.w .. ring.w + n - 1
                           THEN sent + 1 + (i - ring.w) ELSE data[i]]
              /\ ring' = Write(ring, n)
              /\ sent' = sent + n
<1> USE TypeOK DEF TypeOK
<1> DEFINE copy == IF WritePtr(ring) < left THEN WritePtr(ring) ELSE left
<1>1. /\ copy \in 1 .. WritePtr(ring) /\ copy <= left
      /\ data' = [i \in Index |->
                   IF i \in ring.w .. ring.w + copy - 1
                   THEN sent + 1 + (i - ring.w) ELSE data[i]]
      /\ ring' = Write(ring, copy)
      /\ sent' = sent + copy /\ left' = left - copy
  BY HandlerWrites, WritePtrBounds, SizeAssumption, BoundsAssumption DEF HandlerWrites
<1> HIDE DEF copy
<1> QED
  BY <1>1, HandlerWrites DEF HandlerWrites

\* Every action of the three threads keeps the variables in their types, and
\* the caller in step with the threads.
LEMMA TypeStep ==
  ASSUME TypeOK, Calling, [Next]_vars
  PROVE  TypeOK' /\ Calling'
<1> USE TypeOK, Calling DEF TypeOK, Calling
<1>1. ASSUME NEW o \in {"start", "stop", "destroy"}, Call(o)
      PROVE  TypeOK' /\ Calling'
  BY <1>1 DEF Call, http, shared, buffer
<1>2. CASE StopSetsFlag
  BY <1>2 DEF StopSetsFlag, http, buffer
<1>3. CASE StopPostsData
  BY <1>3 DEF StopPostsData, http, buffer
<1>4. CASE StopPostsPlay
  BY <1>4 DEF StopPostsPlay, http, buffer
<1>5. CASE JoinPlay
  BY <1>5 DEF JoinPlay, http, shared, buffer
<1>6. CASE JoinInline
  BY <1>6 DEF JoinInline, shared, buffer
<1>7. CASE ClearRing
  BY <1>7, ClearIsEmpty DEF ClearRing, http, shared
<1>8. CASE StartCreatesPlay
  BY <1>8 DEF StartCreatesPlay, http, buffer
<1>9. CASE StartCreatesInline
  BY <1>9 DEF StartCreatesInline, shared, buffer
<1>10. CASE OpenLoop \/ DemuxOK \/ DemuxFails \/ FrameLoop \/ CallFill \/ FillTestsStop
  BY <1>10 DEF OpenLoop, DemuxOK, DemuxFails, FrameLoop, CallFill,
               FillTestsStop, caller, http, shared, buffer
<1>11. CASE WaitPlay \/ WaitData
  BY <1>11 DEF WaitPlay, WaitData, caller, http, buffer
<1>12. CASE FillCopies
  <2>1. CASE Used(ring) = 0 /\ play' = "wait_data" /\ UNCHANGED <<ring, got>>
    BY <1>12, <2>1, FillCopiesEffect DEF caller, http, shared
  <2>2. ASSUME NEW n \in 1 .. ReadPtr(ring),
               got' = got \o [k \in 1 .. n |-> data[ring.r + k - 1]],
               ring' = Read(ring, n), play' = "demux"
        PROVE  TypeOK' /\ Calling'
    <3>1. n \in Nat /\ ring.r + n <= Size /\ ring.r \in 0 .. Size - 1
      BY ReadPtrBounds, SizeAssumption DEF Ring, Index
    <3>2. \A k \in 1 .. n : data[ring.r + k - 1] \in Nat
      BY <3>1, SizeAssumption, SMTT(20) DEF Index
    <3>3. got' \in Seq(Nat) /\ ring' \in Ring
      BY <2>2, <3>1, <3>2, ReadRemoves
    <3> QED
      BY <1>12, <2>2, <3>3, FillCopiesEffect DEF caller, http, shared
  <2> QED
    BY <1>12, <2>1, <2>2, FillCopiesEffect
<1>13. CASE InlineLoop
  BY <1>13 DEF InlineLoop, caller, shared, buffer
<1>14. ASSUME NEW n \in 1 .. MaxChunk, ReceiveChunk(n)
       PROVE  TypeOK' /\ Calling'
  BY <1>14, BoundsAssumption, SizeAssumption DEF ReceiveChunk, caller, shared, buffer
<1>15. CASE HandlerTestsStop
  BY <1>15, BoundsAssumption, SizeAssumption DEF HandlerTestsStop, caller, shared, buffer
<1>16. CASE HandlerWrites
  <2>1. PICK n \in 1 .. WritePtr(ring) :
          /\ n <= left /\ left' = left - n
          /\ data' = [i \in Index |->
                       IF i \in ring.w .. ring.w + n - 1
                       THEN sent + 1 + (i - ring.w) ELSE data[i]]
          /\ ring' = Write(ring, n)
          /\ sent' = sent + n
    BY <1>16, HandlerWritesEffect
  <2>2. n \in Nat /\ ring.w \in 0 .. Size - 1 /\ ring' \in Ring
    BY <2>1, WritePtrBounds, WriteAdds DEF Ring, Index
  <2>3. data' \in [Index -> Nat]
    BY <2>1, <2>2, SizeAssumption, SMTT(20) DEF Index
  <2>4. sent' \in Nat /\ left' \in 0 .. chunk
    BY <2>1, <2>2, BoundsAssumption, SizeAssumption
  <2> QED
    BY <1>16, <2>2, <2>3, <2>4, HandlerWritesEffect DEF caller, shared
<1>17. CASE HandlerPosts
  BY <1>17, BoundsAssumption, SizeAssumption DEF HandlerPosts, caller, buffer
<1>18. CASE RequestEnds \/ InlinePosts
  BY <1>18 DEF RequestEnds, InlinePosts, caller, shared, buffer
<1>19. CASE UNCHANGED vars
  BY <1>19 DEF vars
<1> QED
  BY <1>1, <1>2, <1>3, <1>4, <1>5, <1>6, <1>7, <1>8, <1>9, <1>10, <1>11,
     <1>12, <1>13, <1>14, <1>15, <1>16, <1>17, <1>18, <1>19
  DEF Next, Caller, Play, Inline

-----------------------------------------------------------------------------
(***************************************************************************)
(* Three actions touch the bytes in flight; the others leave them alone.   *)
(***************************************************************************)

LEMMA BufferSteps ==
  ASSUME [Next]_vars
  PROVE  FillCopies \/ HandlerWrites \/ ClearRing \/ UNCHANGED buffer
  BY DEF Next, vars, Caller, Play, Inline, buffer, http, shared, caller,
         Call, StopSetsFlag, StopPostsData, StopPostsPlay, JoinPlay, JoinInline,
         StartCreatesPlay, StartCreatesInline, OpenLoop, DemuxOK, DemuxFails,
         FrameLoop, WaitPlay, CallFill, FillTestsStop, WaitData, InlineLoop,
         ReceiveChunk, HandlerTestsStop, HandlerPosts, RequestEnds, InlinePosts

\* The bytes stay in order.
LEMMA InOrderStep ==
  ASSUME TypeOK, InOrder, [Next]_vars
  PROVE  InOrder'
<1> USE TypeOK, InOrder DEF TypeOK
<1>1. Size \in Nat \ {0} /\ Used(ring) \in 0 .. Size /\ Len(got) \in Nat
  BY ReadPtrBounds, SizeAssumption
<1>2. CASE UNCHANGED buffer
  BY <1>2 DEF InOrder, buffer
<1>3. CASE ClearRing
  BY <1>3, ClearIsEmpty DEF ClearRing, InOrder
<1>4. CASE FillCopies
  <2>1. CASE UNCHANGED <<ring, got>>
    BY <1>4, <2>1, FillCopiesEffect DEF InOrder
  <2>2. ASSUME NEW n \in 1 .. ReadPtr(ring),
               got' = got \o [k \in 1 .. n |-> data[ring.r + k - 1]],
               ring' = Read(ring, n)
        PROVE  InOrder'
    <3>1. n \in Nat /\ n <= Used(ring) /\ data' = data /\ sent' = sent
      BY <1>4, ReadPtrBounds, FillCopiesEffect
    <3>2. /\ Used(ring') = Used(ring) - n
          /\ \A k \in 1 .. Used(ring) - n : Slot(ring', k) = Slot(ring, n + k)
          /\ \A k \in 1 .. n : Slot(ring, k) = ring.r + k - 1
      BY <2>2, ReadRemoves
    <3>3. /\ Len(got') = Len(got) + n
          /\ \A k \in 1 .. Len(got) : got'[k] = got[k]
          /\ \A k \in 1 .. n : got'[Len(got) + k] = data[Slot(ring, k)]
      BY <2>2, <3>1, <3>2
    <3>4. Len(got') + Used(ring') = Len(got) + Used(ring)
      BY <1>1, <3>1, <3>2, <3>3
    <3>5. ASSUME NEW k \in 1 .. Len(got')
          PROVE  got'[k] = sent' - (Len(got') + Used(ring')) + k
      <4>1. CASE k <= Len(got)
        BY <1>1, <3>1, <3>3, <3>4, <4>1 DEF InOrder
      <4>2. CASE k > Len(got)
        <5>1. k - Len(got) \in 1 .. n /\ k - Len(got) \in 1 .. Used(ring)
          BY <1>1, <3>1, <3>3, <4>2
        <5>2. got'[k] = data[Slot(ring, k - Len(got))]
          BY <1>1, <3>1, <3>3, <5>1
        <5>3. data[Slot(ring, k - Len(got))] = sent - Used(ring) + (k - Len(got))
          BY <5>1 DEF InOrder
        <5> QED
          BY <1>1, <3>1, <3>4, <5>2, <5>3
      <4> QED
        BY <1>1, <3>1, <3>3, <4>1, <4>2
    <3>6. ASSUME NEW k \in 1 .. Used(ring')
          PROVE  data'[Slot(ring', k)] = sent' - Used(ring') + k
      <4>1. n + k \in 1 .. Used(ring)
        BY <1>1, <3>1, <3>2
      <4>2. data[Slot(ring, n + k)] = sent - Used(ring) + (n + k)
        BY <4>1 DEF InOrder
      <4> QED
        BY <1>1, <3>1, <3>2, <4>2
    <3> QED
      BY <3>1, <3>4, <3>5, <3>6 DEF InOrder
  <2> QED
    BY <1>4, <2>1, <2>2, FillCopiesEffect
<1>5. CASE HandlerWrites
  <2>1. PICK n \in 1 .. WritePtr(ring) :
          /\ data' = [i \in Index |->
                       IF i \in ring.w .. ring.w + n - 1
                       THEN sent + 1 + (i - ring.w) ELSE data[i]]
          /\ ring' = Write(ring, n)
          /\ sent' = sent + n
          /\ got' = got
    BY <1>5, HandlerWritesEffect
  <2>2. n \in Nat /\ ring.w \in Nat /\ ring.w + n <= Size
    BY WritePtrBounds, SizeAssumption DEF Ring, Index
  <2>3. /\ Used(ring') = Used(ring) + n
        /\ Used(ring) + n <= Size
        /\ \A k \in 1 .. Used(ring) : /\ Slot(ring', k) = Slot(ring, k)
                                      /\ Slot(ring, k) \notin ring.w .. ring.w + n - 1
        /\ \A k \in 1 .. n : Slot(ring', Used(ring) + k) = ring.w + k - 1
    BY <1>1, <2>1, WriteAdds, WritePtrBounds
  <2>4. \A k \in 1 .. Len(got) :
          got'[k] = sent' - (Len(got') + Used(ring')) + k
    BY <1>1, <2>1, <2>2, <2>3 DEF InOrder
  <2>5. ASSUME NEW k \in 1 .. Used(ring')
        PROVE  data'[Slot(ring', k)] = sent' - Used(ring') + k
    <3>1. CASE k <= Used(ring)
      <4>1. k \in 1 .. Used(ring) /\ k \in 1 .. Size
        BY <1>1, <2>3, <3>1
      <4>2. Slot(ring, k) \in Index
        BY <4>1, SlotType
      <4>3. data'[Slot(ring', k)] = data[Slot(ring, k)]
        BY <2>1, <2>3, <4>1, <4>2
      <4>4. data[Slot(ring, k)] = sent - Used(ring) + k
        BY <4>1 DEF InOrder
      <4> QED
        BY <1>1, <2>1, <2>2, <2>3, <4>3, <4>4
    <3>2. CASE k > Used(ring)
      <4>1. PICK j \in 1 .. n : k = Used(ring) + j
        <5>1. k \in Int /\ k <= Used(ring) + n
          BY <1>1, <2>2, <2>3
        <5>2. k - Used(ring) \in 1 .. n /\ k = Used(ring) + (k - Used(ring))
          BY <1>1, <2>2, <3>2, <5>1
        <5> QED
          BY <5>2
      <4>2. Slot(ring', k) = ring.w + j - 1
        BY <2>3, <4>1
      <4>3. PICK i \in Index : i = ring.w + j - 1 /\ i \in ring.w .. ring.w + n - 1
        BY <2>2, <4>1, RunOfSlots
      <4>4. data'[Slot(ring', k)] = sent + j
        <5>1. data'[i] = sent + 1 + (i - ring.w)
          BY <2>1, <4>3
        <5>2. sent + 1 + (i - ring.w) = sent + j
          BY <2>2, <4>1, <4>3, SMTT(20)
        <5> QED
          BY <4>2, <4>3, <5>1, <5>2
      <4>5. sent' - Used(ring') + k = sent + j
        BY <1>1, <2>1, <2>2, <2>3, <4>1
      <4> QED
        BY <4>4, <4>5
    <3> QED
      BY <1>1, <2>2, <2>3, <3>1, <3>2
  <2>6. Len(got') + Used(ring') <= sent'
    BY <1>1, <2>1, <2>2, <2>3 DEF InOrder
  <2> QED
    BY <2>1, <2>4, <2>5, <2>6 DEF InOrder
<1> QED
  BY <1>2, <1>3, <1>4, <1>5, BufferSteps

-----------------------------------------------------------------------------
\* No step loses a wake-up of the reader.
LEMMA WakeStep ==
  ASSUME TypeOK, Calling, NoLostWakeup, WakePending, [Next]_vars
  PROVE  NoLostWakeup' /\ WakePending'
<1> USE TypeOK, NoLostWakeup, WakePending
    DEF TypeOK, NoLostWakeup, WakePending, Written
<1>1. /\ Used(ring) \in 0 .. Size /\ Size \in Nat /\ MaxChunk \in Nat
      /\ chunk \in Nat /\ left \in Nat /\ left <= chunk
  BY ReadPtrBounds, SizeAssumption, BoundsAssumption
<1>2. ASSUME NEW o \in {"start", "stop", "destroy"}, Call(o)
      PROVE  NoLostWakeup' /\ WakePending'
  BY <1>2 DEF Call, http, shared, buffer
<1>3. CASE StopSetsFlag
  BY <1>3 DEF StopSetsFlag, http, buffer
<1>4. CASE StopPostsData
  BY <1>4 DEF StopPostsData, http, buffer
<1>5. CASE StopPostsPlay
  BY <1>5 DEF StopPostsPlay, http, buffer
<1>6. CASE JoinPlay
  BY <1>6 DEF JoinPlay
<1>7. CASE JoinInline
  BY <1>7, Calling DEF JoinInline, shared, buffer, Calling
<1>8. CASE ClearRing
  BY <1>8, Calling DEF ClearRing, http, shared, Calling
<1>9. CASE StartCreatesPlay
  BY <1>9 DEF StartCreatesPlay
<1>10. CASE StartCreatesInline
  BY <1>10, Calling DEF StartCreatesInline, shared, buffer, Calling
<1>11. CASE OpenLoop \/ DemuxOK \/ DemuxFails \/ FrameLoop \/ CallFill \/ FillTestsStop
  BY <1>11 DEF OpenLoop, DemuxOK, DemuxFails, FrameLoop, CallFill,
               FillTestsStop, caller, http, shared, buffer
<1>12. CASE WaitPlay \/ WaitData
  BY <1>12 DEF WaitPlay, WaitData
<1>13. CASE FillCopies
  <2>1. CASE Used(ring) = 0 /\ play' = "wait_data" /\ UNCHANGED <<ring, got>>
    BY <1>1, <1>13, <2>1, FillCopiesEffect DEF caller, http, shared
  <2>2. CASE play' = "demux"
    BY <2>2
  <2> QED
    BY <1>13, <2>1, <2>2, FillCopiesEffect
<1>14. CASE InlineLoop
  BY <1>14 DEF InlineLoop, caller, shared, buffer
<1>15. ASSUME NEW n \in 1 .. MaxChunk, ReceiveChunk(n)
       PROVE  NoLostWakeup' /\ WakePending'
  BY <1>15 DEF ReceiveChunk, caller, shared, buffer
<1>16. CASE HandlerTestsStop
  BY <1>1, <1>16 DEF HandlerTestsStop, caller, shared, buffer
<1>17. CASE HandlerWrites
  <2>1. PICK n \in 1 .. WritePtr(ring) : left' = left - n /\ ring' = Write(ring, n)
    BY <1>17, HandlerWritesEffect
  <2>2. n \in Nat /\ Used(ring') = Used(ring) + n
    BY <1>1, <2>1, WritePtrBounds, WriteAdds
  <2> QED
    BY <1>1, <1>17, <2>1, <2>2, HandlerWritesEffect DEF caller, shared
<1>18. CASE HandlerPosts
  BY <1>18 DEF HandlerPosts, caller
<1>19. CASE RequestEnds \/ InlinePosts
  BY <1>19 DEF RequestEnds, InlinePosts, caller, shared, buffer
<1>20. CASE UNCHANGED vars
  BY <1>20 DEF vars
<1> QED
  BY <1>2, <1>3, <1>4, <1>5, <1>6, <1>7, <1>8, <1>9, <1>10, <1>11, <1>12,
     <1>13, <1>14, <1>15, <1>16, <1>17, <1>18, <1>19, <1>20
  DEF Next, Caller, Play, Inline

-----------------------------------------------------------------------------
\* The inductive invariant holds of every reachable state.
THEOREM Invariance == Spec => []Inv
<1>1. Inv /\ [Next]_vars => Inv'
  BY TypeStep, InOrderStep, WakeStep DEF Inv
<1> QED
  BY InitInv, <1>1, PTL DEF Spec

\* Every variable keeps to its type; in particular both indices of the ring
\* stay inside the array, and no semaphore count goes below zero.
THEOREM Typing == Spec => []TypeOK
  BY Invariance, PTL DEF Inv

\* The demuxer gets the bytes that were received, in order and without loss,
\* repetition or overwriting, for any ring, chunks and reads.
THEOREM ByteOrder == Spec => []InOrder
  BY Invariance, PTL DEF Inv

\* A reader that sleeps on sem_data is always owed a post.
THEOREM Wakeups == Spec => []NoLostWakeup
  BY Invariance, PTL DEF Inv

\* As chunks are no larger than the ring, DataReceivedEventHandler never spins
\* on a full ring for a reader that sleeps until the chunk is stored.
THEOREM MutualWait == Spec => []NoMutualWait
<1>1. Inv => NoMutualWait
  <2> SUFFICES ASSUME Inv, WriterSpins, play = "wait_data", semData = 0
               PROVE  FALSE
    BY DEF NoMutualWait
  <2>1. Used(ring) = Size
    BY WritePtrBounds DEF Inv, TypeOK, WriterSpins
  <2>2. Used(ring) <= chunk - left
    BY DEF Inv, NoLostWakeup, Written, WriterSpins
  <2>3. chunk <= Size /\ left > 0 /\ chunk \in Nat /\ left \in Nat
    BY SizeAssumption, BoundsAssumption DEF Inv, TypeOK, WriterSpins
  <2> QED
    BY <2>1, <2>2, <2>3, SizeAssumption
<1> QED
  BY Invariance, <1>1, PTL

\* The ring is cleared and freed only when no thread can touch it.
THEOREM JoinedThreads == Spec => []ThreadsGone
<1>1. Inv => ThreadsGone
  BY DEF Inv, Calling, ThreadsGone
<1> QED
  BY Invariance, <1>1, PTL

-----------------------------------------------------------------------------
(***************************************************************************)
(* The data path implements ByteChannel.  The unread bytes, in the order   *)
(* of their slots, are the channel's pending ones.                         *)
(***************************************************************************)

\* The unread bytes are a sequence as long as Used says.
LEMMA PendingType ==
  ASSUME NEW b \in Ring, NEW d \in [Index -> Nat]
  PROVE  LET p == [k \in 1 .. Used(b) |-> d[Slot(b, k)]]
         IN p \in Seq(Nat) /\ Len(p) = Used(b)
<1>1. Size \in Nat \ {0} /\ Used(b) \in 0 .. Size
  BY ReadPtrBounds, SizeAssumption
<1>2. \A k \in 1 .. Used(b) : d[Slot(b, k)] \in Nat
  BY <1>1, SlotType
<1> QED
  BY <1>1, <1>2

\* Two runs of consecutive numbers, the second of which starts where the
\* first ends, are one run.
LEMMA JoinRuns ==
  ASSUME NEW c \in Nat, NEW s \in Seq(Nat), NEW t \in Seq(Nat), NEW u \in Seq(Nat),
         Len(u) = Len(s) + Len(t),
         \A k \in 1 .. Len(s) : s[k] = c - Len(s) + k,
         \A k \in 1 .. Len(t) : t[k] = c + k,
         \A k \in 1 .. Len(u) : u[k] = c - Len(s) + k
  PROVE  u = s \o t
<1>1. s \o t \in Seq(Nat) /\ Len(s \o t) = Len(u)
  BY ConcatProperties
<1>2. ASSUME NEW k \in 1 .. Len(u)
      PROVE  (s \o t)[k] = u[k]
  <2>1. CASE k <= Len(s)
    <3>1. (s \o t)[k] = s[k] /\ k \in 1 .. Len(s)
      BY <2>1, ConcatProperties
    <3> QED
      BY <3>1
  <2>2. CASE k > Len(s)
    <3>1. k - Len(s) \in 1 .. Len(t) /\ ~(k <= Len(s)) /\ k \in 1 .. Len(s) + Len(t)
      BY <2>2
    <3>2. (s \o t)[k] = t[k - Len(s)]
      BY <3>1, ConcatProperties, Zenon
    <3>3. t[k - Len(s)] = c + (k - Len(s))
      BY <3>1
    <3> QED
      BY <3>2, <3>3
  <2> QED
    BY <2>1, <2>2
<1> QED
  BY <1>1, <1>2, SeqEqual

\* HandlerWrites is a Put, a Fill that copies a Get, clearing the ring a Reset,
\* and every other step leaves the channel alone.
LEMMA ChannelStep ==
  ASSUME TypeOK, Calling, InOrder, [Next]_vars
  PROVE  [Channel!Next]_(Channel!vars)
<1> USE TypeOK DEF TypeOK
<1> DEFINE pend == [k \in 1 .. Used(ring) |-> data[Slot(ring, k)]]
<1>1. Size \in Nat \ {0} /\ Used(ring) \in 0 .. Size
  BY ReadPtrBounds, SizeAssumption
<1>2. pend \in Seq(Nat) /\ Len(pend) = Used(ring)
  BY PendingType
<1>3. CASE UNCHANGED buffer
  BY <1>3 DEF buffer, Channel!vars
<1>4. CASE ClearRing
  <2>1. pend' = <<>>
    BY <1>4, ClearIsEmpty DEF ClearRing
  <2> QED
    BY <1>4, <2>1 DEF ClearRing, Channel!Next, Channel!Reset
<1>5. CASE FillCopies
  <2>1. CASE UNCHANGED <<ring, got>>
    BY <1>5, <2>1, FillCopiesEffect DEF Channel!vars
  <2>2. ASSUME NEW n \in 1 .. ReadPtr(ring),
               got' = got \o [k \in 1 .. n |-> data[ring.r + k - 1]],
               ring' = Read(ring, n)
        PROVE  Channel!Get
    <3>1. n \in Nat \ {0} /\ n <= Used(ring) /\ data' = data /\ sent' = sent
      BY <1>5, ReadPtrBounds, FillCopiesEffect
    <3>2. /\ Used(ring') = Used(ring) - n
          /\ \A k \in 1 .. Used(ring) - n : Slot(ring', k) = Slot(ring, n + k)
          /\ \A k \in 1 .. n : Slot(ring, k) = ring.r + k - 1
      BY <2>2, ReadRemoves
    <3>3. [k \in 1 .. n |-> data[ring.r + k - 1]] = SubSeq(pend, 1, n)
      BY <1>1, <1>2, <3>1, <3>2
    <3>4. pend' = SubSeq(pend, n + 1, Len(pend))
      BY <1>1, <1>2, <3>1, <3>2, SMTT(20)
    <3>5. n \in 1 .. Len(pend)
      BY <1>1, <1>2, <3>1
    <3>6. got' = got \o SubSeq(pend, 1, n) /\ (sent + 1)' = sent + 1
      BY <2>2, <3>1, <3>3
    <3> QED
      BY <3>4, <3>5, <3>6, Zenon DEF Channel!Get
  <2> QED
    BY <1>5, <2>1, <2>2, FillCopiesEffect DEF Channel!Next
<1>6. CASE HandlerWrites
  <2>1. PICK n \in 1 .. WritePtr(ring) :
          /\ data' = [i \in Index |->
                       IF i \in ring.w .. ring.w + n - 1
                       THEN sent + 1 + (i - ring.w) ELSE data[i]]
          /\ ring' = Write(ring, n)
          /\ sent' = sent + n
          /\ got' = got
    BY <1>6, HandlerWritesEffect
  <2>2. n \in Nat \ {0} /\ ring.w \in Nat /\ ring.w + n <= Size
        /\ n <= Size - Used(ring)
    BY <1>1, WritePtrBounds, SizeAssumption, SMTT(20) DEF Ring, Index
  <2>3. Used(ring') = Used(ring) + n
    BY <2>1, WriteAdds
  <2>4. InOrder'
    BY InOrderStep
  <2> DEFINE new == [i \in 1 .. n |-> sent + 1 + i - 1]
  <2>5. pend' = pend \o new
    <3>1. ring' \in Ring /\ data' \in [Index -> Nat]
      BY TypeStep
    <3>2. pend' \in Seq(Nat) /\ Len(pend') = Used(ring')
      BY <3>1, PendingType
    <3>3. new \in Seq(Nat) /\ Len(new) = n /\ \A i \in 1 .. n : new[i] = sent + i
      BY <2>2
    <3>4. \A k \in 1 .. Used(ring) : pend[k] = sent - Used(ring) + k
      BY DEF InOrder
    <3>5. \A k \in 1 .. Used(ring') : pend'[k] = sent' - Used(ring') + k
      BY <2>4 DEF InOrder
    <3>6. Used(ring') = Used(ring) + n /\ sent' - Used(ring') = sent - Used(ring)
      BY <1>1, <2>1, <2>2, <2>3
    <3>7. PICK s, t, u : s = pend /\ t = new /\ u = pend'
      OBVIOUS
    <3> HIDE DEF new, pend
    <3>8. /\ s \in Seq(Nat) /\ t \in Seq(Nat) /\ u \in Seq(Nat)
          /\ Len(u) = Len(s) + Len(t)
          /\ \A k \in 1 .. Len(s) : s[k] = sent - Len(s) + k
          /\ \A k \in 1 .. Len(t) : t[k] = sent + k
          /\ \A k \in 1 .. Len(u) : u[k] = sent - Len(s) + k
      BY <1>2, <3>2, <3>3, <3>4, <3>5, <3>6, <3>7
    <3>9. u = s \o t
      BY <3>8, JoinRuns
    <3> QED
      BY <3>7, <3>9
  <2>6. n \in 1 .. Size - Len(pend)
    BY <1>1, <1>2, <2>2
  <2>7. (sent + 1)' = sent + 1 + n /\ got' = got
    BY <2>1, <2>2
  <2>8. Channel!Put
    BY <2>5, <2>6, <2>7, Zenon DEF Channel!Put
  <2> QED
    BY <2>8 DEF Channel!Next
<1> QED
  BY <1>3, <1>4, <1>5, <1>6, BufferSteps

\* For any ring, chunks and reads, the data path is a bounded first-in
\* first-out channel of bytes that Stop empties.
THEOREM Refinement == Spec => IsChannel
<1>1. Init => Channel!Init
  BY ClearIsEmpty DEF Init, Channel!Init
<1>2. Inv /\ [Next]_vars => [Channel!Next]_(Channel!vars)
  BY ChannelStep DEF Inv
<1> QED
  BY Invariance, <1>1, <1>2, PTL DEF Spec, IsChannel, Channel!Spec

=============================================================================
