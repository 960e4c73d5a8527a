----------------------------- MODULE PartsProofs -----------------------------
(***************************************************************************)
(* Theorems about the parts that stand alone: the packet pool, the batch   *)
(* consumer of GetMedia, the SDK's Response, the uploaders and the H.264   *)
(* file source, for any number of threads, shapes, bytes, packets, media   *)
(* and calls.                                                              *)
(***************************************************************************)
EXTENDS MCParts, ThreadWinProofs, FiniteSetTheorems, NaturalsInduction, WellFoundedInduction, TLAPS

-----------------------------------------------------------------------------
(***************************************************************************)
(* The Response of the producer SDK.                                       *)
(***************************************************************************)

\* Until closeCurlHandles the pointer and the handle are of one mind; after it has
\* freed the handle the pointer lives on for a step.
HandleOf ==
  /\ respAt \in {"new", "ready", "returned", "close"} =>
       handle = IF curl_ THEN "live" ELSE "none"
  /\ respAt = "forget" => handle = IF curl_ THEN "freed" ELSE "none"
  /\ respAt = "done" => ~curl_ /\ handle # "live"
  /\ respAt \in {"forget", "done"} => ~request_headers_

\* A terminate that has loaded the pointer and finds the handle freed has been
\* seen to overlap; so has one that has crashed.
Overlapping ==
  /\ handle = "freed" => \A t \in Terminators : term[t] = "limit" => overlap
  /\ respCrashed => overlap \/ handle = "none"

\* Whatever a terminate leads to comes after terminated_ was set.
TerminatedFirst ==
  /\ \A t \in Terminators : term[t] # "idle" => terminated_
  /\ hurried => terminated_
  /\ inTime => terminated_
  /\ result = "stopped" => terminated_

\* The status is the server's or that of a forced end, and comes with its result.
StatusTold ==
  /\ respAt \in {"new", "ready", "returned"} => http_status_code_ = 0
  /\ respAt \in {"close", "forget", "done"} =>
       /\ inTime => service_call_result_ = "ok"
       /\ service_call_result_ = "ok" <=> http_status_code_ = 200
       /\ service_call_result_ = "ok" => result = "ok" \/ terminated_
       /\ result = "stopped" => service_call_result_ = "ok"

TermTypeOK == term \in [Terminators -> {"idle", "load", "limit", "over"}]

RespInv ==
  RespTypeOK /\ TermTypeOK /\ HandleOf /\ Overlapping /\ TerminatedFirst /\ StatusTold

LEMMA CompletesStep ==
  ASSUME RespInv, CompletesTerminated \/ CompletesFailed
                    \/ \E status \in Statuses : Completes(status)
  PROVE  RespInv'
<1> USE DEF RespInv
<1>1. /\ respAt = "returned" /\ respAt' = "close" /\ ~respCrashed
      /\ UNCHANGED <<curl_, handle, request_headers_, terminated_, result, body, response_,
                     hurried, term, inTime, overlap>>
  BY DEF CompletesTerminated, CompletesFailed, Completes, RespGoes
<1>2. respCrashed' => handle = "none"
  <2>1. respCrashed' => ~curl_
    BY <1>1 DEF CompletesTerminated, CompletesFailed, Completes
  <2> QED
    BY <1>1, <2>1 DEF HandleOf
<1>3. HandleOf' /\ Overlapping' /\ TerminatedFirst'
  BY <1>1, <1>2 DEF HandleOf, Overlapping, TerminatedFirst
<1>4. /\ StatusTold'
      /\ http_status_code_' \in Statuses \cup {0, 200}
      /\ service_call_result_' \in
           {"ok", "status", "unknown", "invalid", "timeout", "unauthorized"}
  <2>1. CASE CompletesTerminated
    BY <1>1, <2>1 DEF CompletesTerminated, StatusTold
  <2>2. CASE CompletesFailed
    <3>1. ~terminated_ /\ result # "ok" /\ http_status_code_' = 0
      BY <1>1, <2>2 DEF CompletesFailed, StatusTold
    <3>2. service_call_result_' \in {"unknown", "invalid", "timeout", "unauthorized"}
      BY <2>2 DEF CompletesFailed, ServiceCallResultFromCurlStatus
    <3>3. ~inTime /\ result # "stopped"
      BY <3>1 DEF TerminatedFirst
    <3> QED
      BY <1>1, <3>1, <3>2, <3>3 DEF StatusTold
  <2>3. ASSUME NEW status \in Statuses, Completes(status)
        PROVE  /\ StatusTold'
               /\ http_status_code_' \in Statuses \cup {0, 200}
               /\ service_call_result_' \in
                    {"ok", "status", "unknown", "invalid", "timeout", "unauthorized"}
    <3>1. ~terminated_ /\ result = "ok" /\ http_status_code_' = status
      BY <2>3 DEF Completes
    <3>2. service_call_result_' = IF status = 200 THEN "ok" ELSE
                                  IF status \in ServiceCalls THEN "status" ELSE "unknown"
      BY <2>3 DEF Completes, ServiceCallResultFromHttpStatus
    <3>3. ~inTime
      BY <3>1 DEF TerminatedFirst
    <3> QED
      BY <1>1, <3>1, <3>2, <3>3 DEF StatusTold
  <2> QED
    BY <2>1, <2>2, <2>3
<1> QED
  BY <1>1, <1>3, <1>4 DEF RespTypeOK, TermTypeOK

LEMMA RespStep ==
  ASSUME RespInv, [RespNext]_respVars
  PROVE  RespInv'
<1> USE DEF RespInv
<1>1. ASSUME NEW verb \in {"GET", "PUT", "POST"}, NEW streaming \in BOOLEAN,
             NEW inits \in BOOLEAN, Create(verb, streaming, inits)
      PROVE  RespInv'
  <2>1. /\ respAt = "new" /\ respAt' = "ready" /\ ~respCrashed
        /\ curl_' = inits /\ handle' = IF inits THEN "live" ELSE "none"
        /\ UNCHANGED <<terminated_, http_status_code_, service_call_result_, result,
                       hurried, term, inTime, overlap, respCrashed>>
    BY <1>1 DEF Create, RespGoes
  <2> QED
    BY <2>1
    DEF RespTypeOK, TermTypeOK, HandleOf, Overlapping, TerminatedFirst, StatusTold
<1>2. ASSUME NEW outcome \in Outcomes, Performs(outcome)
      PROVE  RespInv'
  <2>1. /\ respAt = "ready" /\ respAt' = "returned" /\ ~respCrashed
        /\ hurried \/ outcome # "stopped"
        /\ result' = outcome /\ inTime' = terminated_
        /\ UNCHANGED <<curl_, handle, request_headers_, terminated_, http_status_code_,
                       service_call_result_, hurried, term, overlap, respCrashed>>
    BY <1>2 DEF Performs, RespGoes
  <2>2. TerminatedFirst'
    BY <2>1 DEF TerminatedFirst
  <2> QED
    BY <2>1, <2>2 DEF RespTypeOK, TermTypeOK, HandleOf, Overlapping, StatusTold
<1>3. CASE CleansUp
  <2>1. /\ respAt = "close" /\ respAt' = "forget" /\ ~respCrashed
        /\ request_headers_' = FALSE
        /\ handle' = IF curl_ THEN "freed" ELSE handle
        /\ overlap' = \E t \in Terminators : term[t] = "limit"
        /\ UNCHANGED <<curl_, terminated_, http_status_code_, service_call_result_, result,
                       hurried, term, inTime, respCrashed>>
    BY <1>3 DEF CleansUp, RespGoes
  <2>2. handle = IF curl_ THEN "live" ELSE "none"
    BY <2>1 DEF HandleOf
  <2>3. HandleOf' /\ handle' \in {"none", "live", "freed"}
    BY <2>1, <2>2 DEF HandleOf
  <2>4. Overlapping'
    BY <2>1 DEF Overlapping
  <2> QED
    BY <2>1, <2>3, <2>4 DEF RespTypeOK, TermTypeOK, TerminatedFirst, StatusTold
<1>4. CASE ForgetsHandle
  <2>1. /\ respAt = "forget" /\ respAt' = "done" /\ ~respCrashed /\ curl_' = FALSE
        /\ UNCHANGED <<handle, request_headers_, terminated_, http_status_code_,
                       service_call_result_, result, hurried, term, inTime, overlap,
                       respCrashed>>
    BY <1>4 DEF ForgetsHandle, RespGoes
  <2>2. handle # "live" /\ ~request_headers_
    BY <2>1 DEF HandleOf
  <2> QED
    BY <2>1, <2>2
    DEF RespTypeOK, TermTypeOK, HandleOf, Overlapping, TerminatedFirst, StatusTold
<1>5. ASSUME NEW t \in Terminators, Terminates(t)
      PROVE  RespInv'
  <2>1. /\ respAt # "new" /\ term[t] = "idle" /\ terminated_' = TRUE
        /\ term' = [term EXCEPT ![t] = "load"]
        /\ UNCHANGED <<respAt, curl_, handle, request_headers_, http_status_code_,
                       service_call_result_, result, hurried, inTime, overlap, respCrashed>>
    BY <1>5 DEF Terminates
  <2>2. \A u \in Terminators : term'[u] = "limit" => term[u] = "limit"
    BY <2>1 DEF TermTypeOK
  <2>3. RespTypeOK' /\ TermTypeOK'
    BY <2>1 DEF RespTypeOK, TermTypeOK
  <2>4. Overlapping'
    BY <2>1, <2>2 DEF Overlapping
  <2> QED
    BY <2>1, <2>3, <2>4 DEF HandleOf, TerminatedFirst, StatusTold
<1>6. ASSUME NEW t \in Terminators, LoadsHandle(t)
      PROVE  RespInv'
  <2>1. /\ term[t] = "load" /\ ~respCrashed
        /\ term' = [term EXCEPT ![t] = IF curl_ THEN "limit" ELSE "over"]
        /\ overlap' = (overlap \/ (curl_ /\ handle = "freed"))
        /\ UNCHANGED <<respAt, curl_, handle, request_headers_, terminated_, http_status_code_,
                       service_call_result_, result, hurried, inTime, respCrashed>>
    BY <1>6 DEF LoadsHandle
  <2>2. /\ term'[t] = "limit" => curl_
        /\ \A u \in Terminators \ {t} : term'[u] = term[u]
    BY <2>1 DEF TermTypeOK
  <2>3. RespTypeOK' /\ TermTypeOK'
    BY <2>1 DEF RespTypeOK, TermTypeOK
  <2>4. Overlapping'
    BY <2>1, <2>2 DEF Overlapping
  <2>5. TerminatedFirst'
    BY <2>1, <2>2 DEF TerminatedFirst
  <2> QED
    BY <2>1, <2>3, <2>4, <2>5 DEF HandleOf, StatusTold
<1>7. ASSUME NEW t \in Terminators, LowersLimit(t)
      PROVE  RespInv'
  <2>1. /\ term[t] = "limit" /\ ~respCrashed
        /\ term' = [term EXCEPT ![t] = "over"]
        /\ hurried' = TRUE /\ respCrashed' = (handle = "freed")
        /\ UNCHANGED <<respAt, curl_, handle, request_headers_, terminated_, http_status_code_,
                       service_call_result_, result, inTime, overlap>>
    BY <1>7 DEF LowersLimit
  <2>2. /\ \A u \in Terminators : term'[u] = "limit" => term[u] = "limit"
        /\ \A u \in Terminators \ {t} : term'[u] = term[u]
    BY <2>1 DEF TermTypeOK
  <2>3. RespTypeOK' /\ TermTypeOK'
    BY <2>1 DEF RespTypeOK, TermTypeOK
  <2>4. Overlapping'
    BY <2>1, <2>2 DEF Overlapping
  <2>5. terminated_
    BY <2>1 DEF TerminatedFirst
  <2>6. TerminatedFirst'
    BY <2>1, <2>2, <2>5 DEF TerminatedFirst
  <2> QED
    BY <2>1, <2>3, <2>4, <2>6 DEF HandleOf, StatusTold
<1>8. CASE UNCHANGED respVars
  BY <1>8
  DEF respVars, RespTypeOK, TermTypeOK, HandleOf, Overlapping, TerminatedFirst, StatusTold
<1> QED
  BY <1>1, <1>2, <1>3, <1>4, <1>5, <1>6, <1>7, <1>8, CompletesStep
  DEF RespNext, closeCurlHandles, RespRests

\* The invariant of the response.
THEOREM ResponseInvariance == RespSpec => []RespInv
<1>1. RespInit => RespInv
  BY DEF RespInit, RespInv, RespTypeOK, TermTypeOK, HandleOf, Overlapping, TerminatedFirst,
         StatusTold
<1>2. RespInv /\ [RespNext]_respVars => RespInv'
  BY RespStep
<1> QED BY <1>1, <1>2, PTL DEF RespSpec

\* With any number of threads that terminate: the handle is freed once, is used
\* freed only by a terminate that overlapped, and the result tells what happened.
THEOREM HandleStaysAlive == RespSpec => []HandleAlive
<1>1. RespInv => HandleAlive
  BY DEF RespInv, HandleOf, Overlapping, StatusTold, HandleAlive
<1> QED
  BY <1>1, ResponseInvariance, PTL

-----------------------------------------------------------------------------
(***************************************************************************)
(* FFMPEGGetMediaDataProcess.  The ring holds the bytes that follow those  *)
(* the demuxer has.  A Fill that has looked at stop before Stop set it, or *)
(* sleeps on an empty ring, has a post coming; and while it sleeps the     *)
(* chunk that is being copied has room.                                    *)
(***************************************************************************)

\* The bytes of the ring, in the order in which they are read.
InCells ==
  /\ cells \in [Index -> Nat] /\ got \in Seq(Nat)
  /\ \A k \in 1 .. Used(ring) : cells[Slot(ring, k)] = Len(got) + k
  /\ got = [i \in 1 .. Len(got) |-> i]
  /\ sent = Len(got) + Used(ring)

\* Stop is for good, and what it waits for has happened.
Stopping ==
  /\ stop <=> main \in {"post", "join", "destroy", "gone"}
  /\ thread = "exited" => phase = "failed" \/ stop
  /\ main \in {"destroy", "gone"} => thread = "exited"

\* A post is on its way to a Fill that sleeps, or is about to.
PostToCome ==
  /\ thread \in {"fill", "wait"} /\ main \in {"join", "destroy", "gone"} => sem > 0
  /\ thread = "wait" /\ sem = 0 =>
       IF main = "copy" THEN Used(ring) + rest <= MaxChunk ELSE Used(ring) = 0

\* The chunk in hand counts among the bytes.
ChunkFits == main = "copy" => sent + rest <= MaxBytes

BatchInv == BatchTypeOK /\ stop \in BOOLEAN /\ InCells /\ Stopping /\ PostToCome /\ ChunkFits

\* What the indices say of the runs that are copied.
LEMMA RingReads ==
  ASSUME NEW b \in Ring, NEW n \in 1 .. ReadPtr(b)
  PROVE  /\ Read(b, n) \in Ring /\ Used(Read(b, n)) = Used(b) - n /\ n <= Used(b)
         /\ \A k \in 1 .. n : Slot(b, k) = b.r + k - 1 /\ b.r + k - 1 \in Index
         /\ \A k \in 1 .. Used(b) - n : Slot(Read(b, n), k) = Slot(b, n + k)
BY SizeAssumption DEF Ring, Index, Used, ReadPtr, Read, Advance, Slot

LEMMA RingWrites ==
  ASSUME NEW b \in Ring, NEW n \in 1 .. WritePtr(b)
  PROVE  /\ Write(b, n) \in Ring /\ Used(Write(b, n)) = Used(b) + n
         /\ \A k \in 1 .. Used(b) : /\ Slot(Write(b, n), k) = Slot(b, k)
                                    /\ Slot(b, k) \notin b.w .. b.w + n - 1
         /\ \A k \in 1 .. n : Slot(Write(b, n), Used(b) + k) = b.w + k - 1
         /\ \A k \in 1 .. n : b.w + k - 1 \in Index
BY SizeAssumption DEF Ring, Index, Used, WritePtr, Write, Advance, Slot

LEMMA RingCounts ==
  ASSUME NEW b \in Ring
  PROVE  /\ Used(b) \in 0 .. Size /\ ReadPtr(b) \in 0 .. Used(b) /\ WritePtr(b) \in Nat
         /\ ReadPtr(b) = 0 => Used(b) = 0
         /\ WritePtr(b) = 0 => Used(b) = Size
         /\ \A k \in 1 .. Used(b) : Slot(b, k) \in Index
BY SizeAssumption DEF Ring, Index, Used, ReadPtr, WritePtr, Slot

\* Counting on from m gives the numbers up to m + n.
LEMMA CountsOn ==
  ASSUME NEW s \in Seq(Nat), s = [i \in 1 .. Len(s) |-> i], NEW n \in Nat,
         NEW t \in Seq(Nat), t = [i \in 1 .. n |-> Len(s) + i]
  PROVE  LET u == s \o t
         IN  u \in Seq(Nat) /\ Len(u) = Len(s) + n /\ u = [i \in 1 .. Len(u) |-> i]
<1> DEFINE u == s \o t
<1>1. Len(s) \in Nat /\ Len(t) = n
  <2>1. DOMAIN t = 1 .. n
    OBVIOUS
  <2> QED BY <2>1
<1>2. u \in Seq(Nat) /\ Len(u) = Len(s) + n
  BY <1>1
<1>3. ASSUME NEW i \in 1 .. Len(u) PROVE u[i] = i
  <2>1. CASE i <= Len(s)
    <3>1. u[i] = s[i]
      BY <1>1, <1>2, <2>1
    <3> QED BY <1>1, <2>1, <3>1
  <2>2. CASE i > Len(s)
    <3>1. u[i] = t[i - Len(s)] /\ i - Len(s) \in 1 .. n
      BY <1>1, <1>2, <2>2
    <3> QED BY <1>1, <1>2, <3>1
  <2> QED BY <1>1, <1>2, <2>1, <2>2
<1>4. u = [i \in 1 .. Len(u) |-> u[i]]
  BY <1>2
<1>5. u = [i \in 1 .. Len(u) |-> i]
  <2> HIDE DEF u
  <2> QED BY <1>3, <1>4
<1> QED BY <1>2, <1>5

LEMMA BatchInitInv ==
  ASSUME BatchInit PROVE BatchInv
<1> USE SizeAssumption, BatchAssumption DEF BatchInit
<1>1. ring \in Ring /\ Used(ring) = 0
  BY DEF Ring, Index, Used, Clear
<1>2. cells \in [Index -> Nat] /\ got \in Seq(Nat)
  OBVIOUS
<1>3. Len(got) = 0
  OBVIOUS
<1>4. InCells
  <2>1. got = [i \in 1 .. 0 |-> i]
    OBVIOUS
  <2> QED BY <1>1, <1>2, <1>3, <2>1 DEF InCells
<1>5. BatchTypeOK
  BY <1>1 DEF BatchTypeOK
<1>6. Stopping /\ PostToCome /\ ChunkFits
  BY DEF Stopping, PostToCome, ChunkFits
<1> QED BY <1>4, <1>5, <1>6 DEF BatchInv

-----------------------------------------------------------------------------
\* A step that leaves the bytes where they are.
LEMMA BytesStay ==
  ASSUME BatchInv, UNCHANGED <<ring, cells, sent, got>> PROVE InCells' /\ ring' \in Ring
BY DEF BatchInv, BatchTypeOK, InCells

LEMMA BatchTypes ==
  ASSUME BatchInv
  PROVE  /\ sem \in Nat /\ rest \in Nat /\ rest <= MaxChunk /\ sent \in Nat /\ sent <= MaxBytes
         /\ MaxChunk \in Nat /\ MaxChunk <= Size /\ Size \in Nat /\ MaxBytes \in Nat
         /\ ring \in Ring /\ Used(ring) \in Nat
BY SizeAssumption, BatchAssumption, RingCounts DEF BatchInv, BatchTypeOK

LEMMA MainKeeps ==
  ASSUME BatchInv,
         Start \/ (\E n \in 1 .. MaxChunk : ReceivesChunk(n)) \/ PostsChunk
         \/ SetsStop \/ PostsStop \/ JoinsThread \/ Destroys
  PROVE  BatchInv'
<1>1. UNCHANGED <<ring, cells, sent, got>> /\ UNCHANGED phase
  BY DEF Start, ReceivesChunk, PostsChunk, SetsStop, PostsStop, JoinsThread, Destroys
<1>2. InCells' /\ ring' \in Ring
  BY <1>1, BytesStay
<1>3. CASE Start
  <2>1. /\ main = "created" /\ main' = "request" /\ thread' = "demux"
        /\ UNCHANGED <<stop, sem, rest>>
    BY <1>3 DEF Start, MainGoes
  <2> QED
    BY <1>1, <1>2, <2>1
    DEF BatchInv, BatchTypeOK, Stopping, PostToCome, ChunkFits
<1>4. ASSUME NEW n \in 1 .. MaxChunk, ReceivesChunk(n) PROVE BatchInv'
  <2>1. /\ main = "request" /\ main' = "copy" /\ rest' = n /\ sent + n <= MaxBytes
        /\ UNCHANGED <<thread, stop, sem>>
    BY <1>4 DEF ReceivesChunk, MainGoes
  <2>2. n \in 0 .. MaxChunk
    BY BatchTypes
  <2>3. thread = "wait" /\ sem = 0 => Used(ring) + n <= MaxChunk
    BY <2>1, BatchTypes DEF BatchInv, PostToCome
  <2>4. PostToCome' /\ ChunkFits'
    BY <1>1, <2>1, <2>3 DEF PostToCome, ChunkFits
  <2> QED
    BY <1>1, <1>2, <2>1, <2>2, <2>4 DEF BatchInv, BatchTypeOK, Stopping
<1>5. CASE PostsChunk
  <2>1. /\ main = "copy" /\ main' = "request" /\ sem' = sem + 1
        /\ UNCHANGED <<thread, stop, rest>>
    BY <1>5 DEF PostsChunk, MainGoes
  <2>2. sem' \in Nat /\ sem' > 0
    BY <2>1, BatchTypes
  <2> QED
    BY <1>1, <1>2, <2>1, <2>2
    DEF BatchInv, BatchTypeOK, Stopping, PostToCome, ChunkFits
<1>6. CASE SetsStop
  <2>1. /\ main = "request" /\ main' = "post" /\ stop' = TRUE
        /\ UNCHANGED <<thread, sem, rest>>
    BY <1>6 DEF SetsStop, MainGoes
  <2> QED
    BY <1>1, <1>2, <2>1
    DEF BatchInv, BatchTypeOK, Stopping, PostToCome, ChunkFits
<1>7. CASE PostsStop
  <2>1. /\ main = "post" /\ main' = "join" /\ sem' = sem + 1
        /\ UNCHANGED <<thread, stop, rest>>
    BY <1>7 DEF PostsStop, MainGoes
  <2>2. sem' \in Nat /\ sem' > 0
    BY <2>1, BatchTypes
  <2> QED
    BY <1>1, <1>2, <2>1, <2>2
    DEF BatchInv, BatchTypeOK, Stopping, PostToCome, ChunkFits
<1>8. CASE JoinsThread
  <2>1. /\ main = "join" /\ main' = "destroy" /\ thread = "exited"
        /\ UNCHANGED <<thread, stop, sem, rest>>
    BY <1>8 DEF JoinsThread, MainGoes
  <2> QED
    BY <1>1, <1>2, <2>1
    DEF BatchInv, BatchTypeOK, Stopping, PostToCome, ChunkFits
<1>9. CASE Destroys
  <2>1. /\ main = "destroy" /\ main' = "gone" /\ sem' = sem + 1
        /\ UNCHANGED <<thread, stop, rest>>
    BY <1>9 DEF Destroys, MainGoes
  <2>2. sem' \in Nat /\ sem' > 0
    BY <2>1, BatchTypes
  <2> QED
    BY <1>1, <1>2, <2>1, <2>2
    DEF BatchInv, BatchTypeOK, Stopping, PostToCome, ChunkFits
<1> QED BY <1>3, <1>4, <1>5, <1>6, <1>7, <1>8, <1>9

LEMMA CopiesChunkKeeps ==
  ASSUME BatchInv, CopiesChunk PROVE BatchInv'
<1> DEFINE n == IF WritePtr(ring) < rest THEN WritePtr(ring) ELSE rest
<1>1. /\ main = "copy" /\ rest > 0 /\ WritePtr(ring) > 0
      /\ cells' = [i \in Index |-> IF i \in ring.w .. ring.w + n - 1
                                   THEN sent + 1 + i - ring.w ELSE cells[i]]
      /\ ring' = Write(ring, n) /\ rest' = rest - n /\ sent' = sent + n
      /\ UNCHANGED <<main, thread, phase, stop, sem, got>>
  BY DEF CopiesChunk
<1>2. /\ ring \in Ring /\ rest \in Nat /\ sent \in Nat /\ Used(ring) \in Nat
      /\ WritePtr(ring) \in Nat /\ rest <= MaxChunk /\ MaxChunk \in Nat /\ MaxBytes \in Nat
  BY BatchTypes, RingCounts
<1>3. n \in 1 .. WritePtr(ring) /\ n <= rest /\ n \in Nat
  BY <1>1, <1>2
<1> HIDE DEF n
<1>4. /\ ring' \in Ring /\ Used(ring') = Used(ring) + n
      /\ \A k \in 1 .. Used(ring) : /\ Slot(ring', k) = Slot(ring, k)
                                    /\ Slot(ring, k) \notin ring.w .. ring.w + n - 1
      /\ \A k \in 1 .. n : Slot(ring', Used(ring) + k) = ring.w + k - 1
      /\ \A k \in 1 .. n : ring.w + k - 1 \in Index
  BY <1>1, <1>2, <1>3, RingWrites
<1>5. /\ cells \in [Index -> Nat] /\ Len(got) \in Nat
      /\ \A k \in 1 .. Used(ring) : cells[Slot(ring, k)] = Len(got) + k
      /\ sent = Len(got) + Used(ring)
  BY DEF BatchInv, InCells
<1>6. ring.w \in Nat
  BY <1>2, SizeAssumption DEF Ring, Index
<1>7. ASSUME NEW k \in 1 .. Used(ring') PROVE cells'[Slot(ring', k)] = Len(got) + k
  <2>1. CASE k <= Used(ring)
    <3>1. k \in 1 .. Used(ring) /\ Slot(ring, k) \in Index
      BY <1>2, <1>4, <2>1, RingCounts
    <3>2. cells'[Slot(ring, k)] = cells[Slot(ring, k)] /\ Slot(ring', k) = Slot(ring, k)
      BY <1>1, <1>4, <3>1
    <3> QED BY <1>5, <3>1, <3>2
  <2>2. CASE k > Used(ring)
    <3>1. PICK j \in 1 .. n : k = Used(ring) + j
      <4>1. k - Used(ring) \in 1 .. n /\ k = Used(ring) + (k - Used(ring))
        BY <1>2, <1>3, <1>4, <2>2
      <4> QED BY <4>1
    <3>2. Slot(ring', k) = ring.w + j - 1 /\ ring.w + j - 1 \in Index
      BY <1>4, <3>1
    <3>3. ring.w + j - 1 \in ring.w .. ring.w + n - 1
      BY <1>3, <1>6
    <3>4. cells'[ring.w + j - 1] = sent + 1 + (ring.w + j - 1) - ring.w
      BY <1>1, <3>2, <3>3
    <3>5. j \in Nat /\ sent + 1 + (ring.w + j - 1) - ring.w = Len(got) + (Used(ring) + j)
      BY <1>2, <1>5, <1>6
    <3> QED BY <3>1, <3>2, <3>4, <3>5
  <2> QED BY <1>2, <1>3, <1>4, <2>1, <2>2
<1>8. cells' \in [Index -> Nat]
  <2>1. ASSUME NEW i \in Index
        PROVE  (IF i \in ring.w .. ring.w + n - 1 THEN sent + 1 + i - ring.w ELSE cells[i]) \in Nat
    <3>1. i \in Int /\ cells[i] \in Nat
      BY <1>5, SizeAssumption DEF Index
    <3> QED BY <1>2, <1>6, <3>1
  <2> QED BY <1>1, <2>1
<1>9. InCells'
  <2>1. got' = got /\ sent' = Len(got) + Used(ring')
    BY <1>1, <1>2, <1>3, <1>4, <1>5
  <2> QED BY <1>7, <1>8, <2>1 DEF BatchInv, InCells
<1>10. rest' \in 0 .. MaxChunk /\ sent' + rest' = sent + rest /\ sent' \in Nat
       /\ Used(ring') + rest' = Used(ring) + rest
  BY <1>1, <1>2, <1>3, <1>4
<1>11. ChunkFits' /\ sent' \in 0 .. MaxBytes
  BY <1>1, <1>2, <1>10 DEF BatchInv, ChunkFits
<1>12. PostToCome'
  BY <1>1, <1>10 DEF BatchInv, PostToCome
<1>13. BatchTypeOK' /\ stop' \in BOOLEAN /\ Stopping'
  BY <1>1, <1>4, <1>10, <1>11 DEF BatchInv, BatchTypeOK, Stopping
<1> QED BY <1>9, <1>11, <1>12, <1>13 DEF BatchInv

-----------------------------------------------------------------------------
LEMMA FillCopiesKeeps ==
  ASSUME BatchInv, NEW n \in 1 .. MaxRead, FillCopies(n) PROVE BatchInv'
<1> DEFINE m == IF n < ReadPtr(ring) THEN n ELSE ReadPtr(ring)
           piece == [i \in 1 .. m |-> cells[ring.r + i - 1]]
<1>1. /\ thread = "fill" /\ thread' = "demux" /\ ReadPtr(ring) > 0
      /\ got' = got \o piece /\ ring' = Read(ring, m)
      /\ UNCHANGED <<main, phase, stop, sem, cells, rest, sent>>
  BY DEF FillCopies, ThreadGoes
<1>2. /\ ring \in Ring /\ Used(ring) \in Nat /\ ReadPtr(ring) \in Nat /\ n \in Nat /\ n > 0
  BY BatchTypes, RingCounts, BatchAssumption
<1>3. m \in 1 .. ReadPtr(ring) /\ m \in Nat
  BY <1>1, <1>2
<1>4. /\ ring' \in Ring /\ Used(ring') = Used(ring) - m /\ m <= Used(ring)
      /\ \A k \in 1 .. m : Slot(ring, k) = ring.r + k - 1 /\ ring.r + k - 1 \in Index
      /\ \A k \in 1 .. Used(ring) - m : Slot(ring', k) = Slot(ring, m + k)
  <2> HIDE DEF m
  <2> QED BY <1>1, <1>2, <1>3, RingReads
<1>5. /\ cells \in [Index -> Nat] /\ got \in Seq(Nat) /\ Len(got) \in Nat
      /\ got = [i \in 1 .. Len(got) |-> i]
      /\ \A k \in 1 .. Used(ring) : cells[Slot(ring, k)] = Len(got) + k
      /\ sent = Len(got) + Used(ring)
  BY DEF BatchInv, InCells
<1> HIDE DEF m
<1>6. ASSUME NEW i \in 1 .. m PROVE cells[ring.r + i - 1] = Len(got) + i
  <2>1. i \in 1 .. Used(ring) /\ Slot(ring, i) = ring.r + i - 1
    BY <1>2, <1>3, <1>4
  <2> QED BY <1>5, <2>1
<1>7. piece = [i \in 1 .. m |-> Len(got) + i]
  BY <1>6
<1>8. piece \in Seq(Nat)
  <2>1. \A i \in 1 .. m : Len(got) + i \in Nat
    BY <1>3, <1>5
  <2> HIDE DEF piece
  <2> QED BY <1>3, <1>7, <2>1
<1>9. got' \in Seq(Nat) /\ Len(got') = Len(got) + m /\ got' = [i \in 1 .. Len(got') |-> i]
  <2> HIDE DEF piece
  <2> QED BY <1>1, <1>3, <1>5, <1>7, <1>8, CountsOn
<1>10. ASSUME NEW k \in 1 .. Used(ring') PROVE cells'[Slot(ring', k)] = Len(got') + k
  <2>1. k \in 1 .. Used(ring) - m /\ m + k \in 1 .. Used(ring)
    BY <1>2, <1>3, <1>4
  <2>2. cells[Slot(ring, m + k)] = Len(got) + (m + k)
    BY <1>5, <2>1
  <2> QED BY <1>1, <1>3, <1>4, <1>5, <1>9, <2>1, <2>2
<1>11. sent' = Len(got') + Used(ring')
  BY <1>1, <1>2, <1>3, <1>4, <1>5, <1>9
<1>12. InCells'
  BY <1>1, <1>5, <1>9, <1>10, <1>11 DEF InCells
<1>13. Stopping' /\ PostToCome' /\ ChunkFits'
  BY <1>1 DEF BatchInv, Stopping, PostToCome, ChunkFits
<1>14. BatchTypeOK'
  BY <1>1, <1>4 DEF BatchInv, BatchTypeOK
<1> QED BY <1>1, <1>12, <1>13, <1>14 DEF BatchInv

LEMMA ThreadKeeps ==
  ASSUME BatchInv,
         FillBegins \/ FillTests \/ FillFindsNothing \/ FillWakes
         \/ OpenSucceeds \/ OpenFailsToo \/ ReadFails \/ ThreadStops
  PROVE  BatchInv'
<1>1. UNCHANGED <<ring, cells, sent, got>> /\ UNCHANGED <<main, stop, rest>>
  BY DEF FillBegins, FillTests, FillFindsNothing, FillWakes, OpenSucceeds, OpenFailsToo,
         ReadFails, ThreadStops
<1>2. InCells' /\ ring' \in Ring
  BY <1>1, BytesStay
<1>3. CASE FillBegins \/ FillTests
  <2>1. /\ thread \in {"demux", "loop"} /\ UNCHANGED <<phase, sem>>
        /\ thread' \in {"demux", "loop", "fill"} /\ (thread' = "fill" => ~stop)
    BY <1>3 DEF FillBegins, FillTests
  <2> QED
    BY <1>1, <1>2, <2>1 DEF BatchInv, BatchTypeOK, Stopping, PostToCome, ChunkFits
<1>4. CASE FillFindsNothing
  <2>1. thread = "fill" /\ thread' = "wait" /\ ReadPtr(ring) = 0 /\ UNCHANGED <<phase, sem>>
    BY <1>4 DEF FillFindsNothing, ThreadGoes
  <2>2. Used(ring) = 0 /\ Used(ring) + rest <= MaxChunk
    BY <2>1, BatchTypes, RingCounts
  <2> QED
    BY <1>1, <1>2, <2>1, <2>2 DEF BatchInv, BatchTypeOK, Stopping, PostToCome, ChunkFits
<1>5. CASE FillWakes
  <2>1. thread = "wait" /\ thread' = "loop" /\ sem > 0 /\ sem' = sem - 1 /\ UNCHANGED phase
    BY <1>5 DEF FillWakes, ThreadGoes
  <2>2. sem' \in Nat
    BY <2>1, BatchTypes
  <2> QED
    BY <1>1, <1>2, <2>1, <2>2 DEF BatchInv, BatchTypeOK, Stopping, PostToCome, ChunkFits
<1>6. CASE OpenSucceeds
  <2>1. thread = "demux" /\ thread' = thread /\ phase' = "read" /\ UNCHANGED sem
    BY <1>6 DEF OpenSucceeds
  <2> QED
    BY <1>1, <1>2, <2>1 DEF BatchInv, BatchTypeOK, Stopping, PostToCome, ChunkFits
<1>7. CASE OpenFailsToo \/ ReadFails \/ ThreadStops
  <2>1. /\ thread = "demux" /\ thread' = "exited" /\ UNCHANGED sem
        /\ phase' = "failed" \/ (phase' = phase /\ stop)
    BY <1>7 DEF OpenFailsToo, ReadFails, ThreadStops, ThreadGoes
  <2> QED
    BY <1>1, <1>2, <2>1 DEF BatchInv, BatchTypeOK, Stopping, PostToCome, ChunkFits
<1> QED BY <1>3, <1>4, <1>5, <1>6, <1>7

\* The ring, the stop flag and the posts of the batch consumer keep to BatchInv.
THEOREM BatchInvariance == BatchSpec => []BatchInv
<1>1. BatchInit => BatchInv
  BY BatchInitInv
<1>2. BatchInv /\ [BatchNext]_batchVars => BatchInv'
  <2> SUFFICES ASSUME BatchInv, [BatchNext]_batchVars PROVE BatchInv'
    OBVIOUS
  <2>1. ASSUME NEW n \in 1 .. MaxRead, FillCopies(n) PROVE BatchInv'
    BY <2>1, FillCopiesKeeps
  <2>2. CASE UNCHANGED batchVars
    <3>1. UNCHANGED <<ring, cells, sent, got>>
          /\ UNCHANGED <<main, thread, phase, stop, sem, rest>>
      BY <2>2 DEF batchVars
    <3>2. InCells' /\ ring' \in Ring
      BY <3>1, BytesStay
    <3> QED
      BY <3>1, <3>2 DEF BatchInv, BatchTypeOK, Stopping, PostToCome, ChunkFits
  <2> QED
    BY <2>1, <2>2, MainKeeps, CopiesChunkKeeps, ThreadKeeps DEF BatchNext, BatchRests
<1> QED BY <1>1, <1>2, PTL DEF BatchSpec

\* For every size of the ring, of the chunks and of the stream: GetMedia's bytes
\* reach the demuxer once and in order, Fill never sleeps on what it could have
\* or after it was told to stop, and nothing is destroyed under the thread.
THEOREM BatchDelivers == BatchSpec => []BatchSound
<1>1. BatchInv => BatchSound
  <2> SUFFICES ASSUME BatchInv PROVE BatchSound
    OBVIOUS
  <2>1. got = [i \in 1 .. Len(got) |-> i] /\ sent = Len(got) + Used(ring)
    BY DEF BatchInv, InCells
  <2>2. ASSUME thread = "wait", sem = 0
        PROVE  /\ Used(ring) > 0 => main = "copy"
               /\ main \notin {"join", "destroy", "gone"}
               /\ ~(main = "copy" /\ rest > 0 /\ WritePtr(ring) = 0)
    <3>1. Used(ring) > 0 => main = "copy"
      BY <2>2 DEF BatchInv, PostToCome
    <3>2. main \notin {"join", "destroy", "gone"}
      BY <2>2 DEF BatchInv, PostToCome
    <3>3. ASSUME main = "copy", rest > 0, WritePtr(ring) = 0 PROVE FALSE
      <4>1. Used(ring) + rest <= MaxChunk
        BY <2>2, <3>3 DEF BatchInv, PostToCome
      <4>2. Used(ring) = Size
        BY <3>3, BatchTypes, RingCounts
      <4> QED BY <3>3, <4>1, <4>2, BatchTypes
    <3> QED BY <3>1, <3>2, <3>3
  <2>3. main = "copy" /\ thread = "exited" => phase = "failed"
    BY DEF BatchInv, Stopping
  <2>4. main \in {"destroy", "gone"} => thread = "exited"
    BY DEF BatchInv, Stopping
  <2> QED BY <2>1, <2>2, <2>3, <2>4 DEF BatchSound
<1> QED BY <1>1, BatchInvariance, PTL

-----------------------------------------------------------------------------
(***************************************************************************)
(* PacketPool.  Ownership is stated of places: the i-th packet of the list *)
(* for a tag in a pool.  That the lists fit MapSize, and how many pools    *)
(* there are, follows from where the threads stand in GetInstance.         *)
(***************************************************************************)

Tags == {"memory", "video", "audio"} \X Nat \X Nat
ListMaps == UNION {[D -> Seq(Nat)] : D \in SUBSET Tags}
Packets == [shape : Tags, room : Nat, set : BOOLEAN]
GetStages == {"idle", "create", "size", "return", "ready", "purge"}

PoolShape ==
  /\ ListMap \in Seq(ListMaps)
  /\ \A q \in 1 .. Len(ListMap) : IsFiniteSet(DOMAIN ListMap[q])
  /\ packets \in [DOMAIN packets -> Packets]
  /\ nextPacket \in Nat \ {0} /\ DOMAIN packets \subseteq 1 .. nextPacket - 1
  /\ hand \in [Threads -> SUBSET Nat]
  /\ at \in [Threads -> GetStages] /\ pool \in [Threads -> Nat]
  /\ Instance \in 0 .. Len(ListMap) /\ MapSize \in 0 .. Limit
  /\ starved \in BOOLEAN /\ purged \in Nat

IsPlace(q, tag, i) ==
  /\ q \in 1 .. Len(ListMap) /\ tag \in DOMAIN ListMap[q] /\ i \in 1 .. Len(ListMap[q][tag])

\* A packet is in one place at most, and alive there, under its own tag.
InPlaces ==
  /\ \A q, tag, i, r, uag, j :
       IsPlace(q, tag, i) /\ IsPlace(r, uag, j) /\ ListMap[q][tag][i] = ListMap[r][uag][j] =>
         q = r /\ tag = uag /\ i = j
  /\ \A q, tag, i : IsPlace(q, tag, i) =>
       /\ ListMap[q][tag][i] \in DOMAIN packets
       /\ packets[ListMap[q][tag][i]].shape = tag
       /\ \A t \in Threads : ListMap[q][tag][i] \notin hand[t]

\* A packet is in one hand at most, and alive there.
InHands ==
  /\ \A t, u \in Threads : \A p \in hand[t] \cap hand[u] : t = u
  /\ \A t \in Threads : hand[t] \subseteq DOMAIN packets

\* No packet is lost.
NoneLost ==
  \A p \in DOMAIN packets :
    \/ \E t \in Threads : p \in hand[t]
    \/ \E q, tag, i : IsPlace(q, tag, i) /\ p = ListMap[q][tag][i]

\* Data that is set has room, unless memory ran out.
HasData ==
  \A p \in DOMAIN packets :
    /\ packets[p].set /\ ~starved => packets[p].room >= Bytes(packets[p].shape)
    /\ ~packets[p].set => packets[p].room = 0

Creating == {t \in Threads : at[t] = "create"}
Sizing == {t \in Threads : at[t] = "size"}

\* One pool for each thread that found none; the first has its size once.
Pools ==
  /\ Instance = 0 <=> Len(ListMap) = 0
  /\ \A t \in Threads : at[t] \in {"size", "return", "purge"} => Instance # 0
  /\ \A t \in Threads : at[t] = "ready" => pool[t] \in 1 .. Len(ListMap)
  /\ \A t \in Threads : pool[t] \in 0 .. Len(ListMap)
  /\ Len(ListMap) + Cardinality(Creating) <= Cardinality(Threads)
  /\ Len(ListMap) = 0 => Sizing = {} /\ MapSize = 0 /\ purged = 0
  /\ Len(ListMap) = 1 =>
       \/ \E t \in Threads : Sizing = {t} /\ MapSize = 0 /\ purged = 0
       \/ Sizing = {} /\ MapSize = Limit - purged

ListsFit == Instance # 0 => Cardinality(DOMAIN ListMap[Instance]) <= MapSize

PoolInv == PoolShape /\ InPlaces /\ InHands /\ NoneLost /\ HasData /\ Pools /\ ListsFit

-----------------------------------------------------------------------------
LEMMA EmptyMap == <<>> \in ListMaps /\ DOMAIN <<>> = {} /\ IsFiniteSet(DOMAIN <<>>)
               /\ Cardinality(DOMAIN <<>>) = 0
<1>1. DOMAIN <<>> = {}
  OBVIOUS
<1>2. <<>> \in [{} -> Seq(Nat)]
  BY <1>1
<1> QED BY <1>1, <1>2, FS_EmptySet DEF ListMaps

LEMMA MapTypes ==
  ASSUME NEW m \in ListMaps
  PROVE  /\ DOMAIN m \subseteq Tags
         /\ \A tag \in DOMAIN m : m[tag] \in Seq(Nat) /\ Len(m[tag]) \in Nat
<1>1. PICK D \in SUBSET Tags : m \in [D -> Seq(Nat)]
  BY DEF ListMaps
<1> QED BY <1>1

\* What the lists are after the list of a tag was set.
LEMMA WithListIsMap ==
  ASSUME NEW m \in ListMaps, NEW tag \in Tags, NEW list \in Seq(Nat)
  PROVE  /\ WithList(m, tag, list) \in ListMaps
         /\ DOMAIN WithList(m, tag, list) = DOMAIN m \cup {tag}
         /\ WithList(m, tag, list)[tag] = list
         /\ \A k \in DOMAIN m : k # tag => WithList(m, tag, list)[k] = m[k]
<1> DEFINE D == DOMAIN m \cup {tag}
           f == [k \in D |-> IF k = tag THEN list ELSE m[k]]
<1>1. WithList(m, tag, list) = f
  BY DEF WithList
<1>2. D \in SUBSET Tags /\ f \in [D -> Seq(Nat)]
  BY MapTypes
<1>3. f \in ListMaps
  <2> HIDE DEF f, D
  <2> QED BY <1>2 DEF ListMaps
<1> QED BY <1>1, <1>3

\* What a list that is set changes in the lists.
ListsMoved(q, tag, list) ==
  /\ ListMap' \in Seq(ListMaps) /\ Len(ListMap') = Len(ListMap)
  /\ \A r \in 1 .. Len(ListMap) : r # q => ListMap'[r] = ListMap[r]
  /\ DOMAIN ListMap'[q] = DOMAIN ListMap[q] \cup {tag}
  /\ ListMap'[q][tag] = list
  /\ \A k \in DOMAIN ListMap[q] : k # tag => ListMap'[q][k] = ListMap[q][k]
  /\ \A r \in 1 .. Len(ListMap') : IsFiniteSet(DOMAIN ListMap'[r])

LEMMA SetsListMoves ==
  ASSUME PoolShape, NEW t \in Threads, NEW q \in 1 .. Len(ListMap), pool[t] = q,
         NEW tag \in Tags, NEW list \in Seq(Nat), SetsList(t, tag, list)
  PROVE  ListsMoved(q, tag, list)
<1>1. ListMap[q] \in ListMaps /\ ListMap \in Seq(ListMaps)
  BY DEF PoolShape
<1>2. ListMap' = [ListMap EXCEPT ![q] = WithList(ListMap[q], tag, list)]
  BY DEF SetsList
<1> DEFINE m == WithList(ListMap[q], tag, list)
<1>6. /\ m \in ListMaps /\ DOMAIN m = DOMAIN ListMap[q] \cup {tag} /\ m[tag] = list
      /\ \A k \in DOMAIN ListMap[q] : k # tag => m[k] = ListMap[q][k]
  <2>1. /\ WithList(ListMap[q], tag, list) \in ListMaps
        /\ DOMAIN WithList(ListMap[q], tag, list) = DOMAIN ListMap[q] \cup {tag}
        /\ WithList(ListMap[q], tag, list)[tag] = list
        /\ \A k \in DOMAIN ListMap[q] :
             k # tag => WithList(ListMap[q], tag, list)[k] = ListMap[q][k]
    <3>1. PICK old \in ListMaps : old = ListMap[q]
      BY <1>1
    <3>2. /\ WithList(old, tag, list) \in ListMaps
          /\ DOMAIN WithList(old, tag, list) = DOMAIN old \cup {tag}
          /\ WithList(old, tag, list)[tag] = list
          /\ \A k \in DOMAIN old : k # tag => WithList(old, tag, list)[k] = old[k]
      BY WithListIsMap
    <3> QED BY <3>1, <3>2
  <2> QED BY <2>1
<1> HIDE DEF m
<1>3. /\ ListMap' \in Seq(ListMaps) /\ Len(ListMap') = Len(ListMap)
      /\ \A r \in 1 .. Len(ListMap) : r # q => ListMap'[r] = ListMap[r]
      /\ ListMap'[q] = m
  BY <1>1, <1>2, <1>6 DEF m
<1>4. /\ DOMAIN ListMap'[q] = DOMAIN ListMap[q] \cup {tag}
      /\ ListMap'[q][tag] = list
      /\ \A k \in DOMAIN ListMap[q] : k # tag => ListMap'[q][k] = ListMap[q][k]
  BY <1>3, <1>6
<1>5. IsFiniteSet(DOMAIN ListMap'[q])
  <2>1. IsFiniteSet(DOMAIN ListMap[q])
    BY DEF PoolShape
  <2> QED BY <1>4, <2>1, FS_AddElement
<1>7. \A r \in 1 .. Len(ListMap') : IsFiniteSet(DOMAIN ListMap'[r])
  BY <1>3, <1>5 DEF PoolShape
<1> QED BY <1>3, <1>4, <1>7 DEF ListsMoved

\* And in the places: the others are what they were.
PlacesMoved(q, tag, list) ==
  /\ \A r, k, i : IsPlace(r, k, i)' =>
       \/ IsPlace(r, k, i) /\ ~(r = q /\ k = tag) /\ ListMap'[r][k][i] = ListMap[r][k][i]
       \/ r = q /\ k = tag /\ i \in 1 .. Len(list) /\ ListMap'[r][k][i] = list[i]
  /\ \A r, k, i : IsPlace(r, k, i) /\ ~(r = q /\ k = tag) =>
       IsPlace(r, k, i)' /\ ListMap'[r][k][i] = ListMap[r][k][i]
  /\ \A i \in 1 .. Len(list) : IsPlace(q, tag, i)' /\ ListMap'[q][tag][i] = list[i]

LEMMA OtherPlaces ==
  ASSUME PoolShape, NEW t \in Threads, NEW q \in 1 .. Len(ListMap), pool[t] = q,
         NEW tag \in Tags, NEW list \in Seq(Nat), SetsList(t, tag, list)
  PROVE  PlacesMoved(q, tag, list)
<1>1. /\ Len(ListMap') = Len(ListMap)
      /\ \A r \in 1 .. Len(ListMap) : r # q => ListMap'[r] = ListMap[r]
      /\ DOMAIN ListMap'[q] = DOMAIN ListMap[q] \cup {tag}
      /\ ListMap'[q][tag] = list
      /\ \A k \in DOMAIN ListMap[q] : k # tag => ListMap'[q][k] = ListMap[q][k]
  <2>1. ListsMoved(q, tag, list)
    BY SetsListMoves
  <2> QED BY <2>1 DEF ListsMoved
<1>2. ASSUME NEW r, NEW k, NEW i, IsPlace(r, k, i)'
      PROVE  \/ IsPlace(r, k, i) /\ ~(r = q /\ k = tag) /\ ListMap'[r][k][i] = ListMap[r][k][i]
             \/ r = q /\ k = tag /\ i \in 1 .. Len(list) /\ ListMap'[r][k][i] = list[i]
  <2>1. r \in 1 .. Len(ListMap) /\ k \in DOMAIN ListMap'[r] /\ i \in 1 .. Len(ListMap'[r][k])
    BY <1>1, <1>2 DEF IsPlace
  <2>2. CASE r # q
    BY <1>1, <2>1, <2>2 DEF IsPlace
  <2>3. CASE r = q /\ k # tag
    BY <1>1, <2>1, <2>3 DEF IsPlace
  <2>4. CASE r = q /\ k = tag
    BY <1>1, <2>1, <2>4
  <2> QED BY <2>2, <2>3, <2>4
<1>3. ASSUME NEW r, NEW k, NEW i, IsPlace(r, k, i), ~(r = q /\ k = tag)
      PROVE  IsPlace(r, k, i)' /\ ListMap'[r][k][i] = ListMap[r][k][i]
  <2>1. r \in 1 .. Len(ListMap) /\ k \in DOMAIN ListMap[r] /\ i \in 1 .. Len(ListMap[r][k])
    BY <1>3 DEF IsPlace
  <2>2. CASE r # q
    BY <1>1, <2>1, <2>2 DEF IsPlace
  <2>3. CASE r = q /\ k # tag
    BY <1>1, <2>1, <2>3 DEF IsPlace
  <2> QED BY <1>3, <2>2, <2>3
<1>4. \A i \in 1 .. Len(list) : IsPlace(q, tag, i)' /\ ListMap'[q][tag][i] = list[i]
  BY <1>1 DEF IsPlace
<1> QED BY <1>2, <1>3, <1>4 DEF PlacesMoved

-----------------------------------------------------------------------------
\* When the places stay, with what is in them, so does who owns what.
LEMMA OwnersStay ==
  ASSUME PoolInv, UNCHANGED <<packets, hand>>, starved => starved',
         \A r, k, i : IsPlace(r, k, i)' <=> IsPlace(r, k, i),
         \A r, k, i : IsPlace(r, k, i) => ListMap'[r][k][i] = ListMap[r][k][i]
  PROVE  InPlaces' /\ InHands' /\ NoneLost' /\ HasData'
<1>1. InPlaces'
  BY DEF PoolInv, InPlaces
<1>2. InHands' /\ HasData'
  BY DEF PoolInv, InHands, HasData, Bytes
<1>3. NoneLost'
  BY DEF PoolInv, NoneLost
<1> QED BY <1>1, <1>2, <1>3

\* The same when the packets and the hands change and the lists do not.
LEMMA PlacesStay ==
  ASSUME UNCHANGED ListMap
  PROVE  /\ \A r, k, i : IsPlace(r, k, i)' <=> IsPlace(r, k, i)
         /\ \A r, k, i : IsPlace(r, k, i) => ListMap'[r][k][i] = ListMap[r][k][i]
BY DEF IsPlace

\* What is in a place is a packet's number.
LEMMA PlaceTypes ==
  ASSUME PoolShape, NEW q, NEW tag, NEW i, IsPlace(q, tag, i)
  PROVE  /\ ListMap[q] \in ListMaps /\ tag \in Tags /\ ListMap[q][tag] \in Seq(Nat)
         /\ ListMap[q][tag][i] \in Nat
<1>1. ListMap[q] \in ListMaps /\ tag \in DOMAIN ListMap[q] /\ i \in 1 .. Len(ListMap[q][tag])
  BY DEF PoolShape, IsPlace
<1> QED BY <1>1, MapTypes

\* Where a thread stands, by its own step.
LEMMA StageGoes ==
  ASSUME PoolShape, NEW t \in Threads, NEW from, NEW to \in GetStages, Goes(t, from, to)
  PROVE  /\ at[t] = from /\ at'[t] = to /\ at' \in [Threads -> GetStages]
         /\ \A u \in Threads \ {t} : at'[u] = at[u]
BY DEF PoolShape, Goes

LEMMA UsesPool ==
  ASSUME PoolInv, NEW t \in Threads, Uses(t),
         UNCHANGED <<Instance, MapSize, purged>>, Len(ListMap') = Len(ListMap)
  PROVE  /\ Pools' /\ at' \in [Threads -> GetStages] /\ pool' \in [Threads -> Nat]
         /\ pool[t] \in 1 .. Len(ListMap)
<1>1. /\ at[t] = "ready" /\ at'[t] = "idle" /\ at' \in [Threads -> GetStages]
      /\ \A u \in Threads \ {t} : at'[u] = at[u]
  BY StageGoes DEF PoolInv, Uses, GetStages
<1>2. pool' = [pool EXCEPT ![t] = 0] /\ pool \in [Threads -> Nat]
  BY DEF Uses, PoolInv, PoolShape
<1>3. pool' \in [Threads -> Nat] /\ pool'[t] = 0 /\ \A u \in Threads \ {t} : pool'[u] = pool[u]
  BY <1>2
<1>4. Creating' = Creating /\ Sizing' = Sizing
  BY <1>1 DEF Creating, Sizing
<1>5. Len(ListMap) \in Nat
  BY DEF PoolInv, PoolShape
<1>6. /\ Instance' = 0 <=> Len(ListMap') = 0
      /\ \A u \in Threads : at'[u] \in {"size", "return", "purge"} => Instance' # 0
  BY <1>1 DEF PoolInv, Pools
<1>7. \A u \in Threads : at'[u] = "ready" => pool'[u] \in 1 .. Len(ListMap')
  BY <1>1, <1>3 DEF PoolInv, Pools
<1>8. \A u \in Threads : pool'[u] \in 0 .. Len(ListMap')
  BY <1>3, <1>5 DEF PoolInv, Pools
<1>9. /\ Len(ListMap') + Cardinality(Creating') <= Cardinality(Threads)
      /\ Len(ListMap') = 0 => Sizing' = {} /\ MapSize' = 0 /\ purged' = 0
      /\ Len(ListMap') = 1 =>
           \/ \E u \in Threads : Sizing' = {u} /\ MapSize' = 0 /\ purged' = 0
           \/ Sizing' = {} /\ MapSize' = Limit - purged'
  BY <1>4 DEF PoolInv, Pools
<1>10. Pools'
  BY <1>6, <1>7, <1>8, <1>9 DEF Pools
<1> QED BY <1>1, <1>3, <1>10 DEF PoolInv, Pools

\* A list that is set is one that was there, or there was room for one more.
LEMMA SetListFits ==
  ASSUME PoolInv, NEW t \in Threads, pool[t] \in 1 .. Len(ListMap),
         NEW tag \in Tags, NEW list \in Seq(Nat), SetsList(t, tag, list),
         tag \in DOMAIN Lists(t) \/ HasRoom(t), UNCHANGED <<Instance, MapSize>>
  PROVE  ListsFit'
<1> DEFINE q == pool[t]
<1>1. /\ Len(ListMap') = Len(ListMap)
      /\ \A r \in 1 .. Len(ListMap) : r # q => ListMap'[r] = ListMap[r]
      /\ DOMAIN ListMap'[q] = DOMAIN ListMap[q] \cup {tag}
  <2>1. PoolShape /\ q = pool[t] /\ q \in 1 .. Len(ListMap)
    BY DEF PoolInv
  <2>2. ListsMoved(q, tag, list)
    BY <2>1, SetsListMoves
  <2> QED BY <2>2 DEF ListsMoved
<1> SUFFICES ASSUME Instance # 0
             PROVE  Cardinality(DOMAIN ListMap'[Instance]) <= MapSize
  BY DEF ListsFit
<1>2. Cardinality(DOMAIN ListMap[Instance]) <= MapSize /\ Instance \in 1 .. Len(ListMap)
  BY DEF PoolInv, ListsFit, PoolShape
<1>3. CASE Instance # q
  BY <1>1, <1>2, <1>3
<1>4. CASE Instance = q /\ tag \in DOMAIN ListMap[q]
  <2>1. DOMAIN ListMap'[q] = DOMAIN ListMap[q]
    BY <1>1, <1>4
  <2> QED BY <1>2, <1>4, <2>1
<1>5. CASE Instance = q /\ tag \notin DOMAIN ListMap[q]
  <2>1. IsFiniteSet(DOMAIN ListMap[q])
    BY DEF PoolInv, PoolShape
  <2>2. Cardinality(DOMAIN ListMap[q]) \in Nat
        /\ Cardinality(DOMAIN ListMap'[q]) = Cardinality(DOMAIN ListMap[q]) + 1
    BY <1>1, <1>5, <2>1, FS_CardinalityType, FS_AddElement
  <2>3. Cardinality(DOMAIN ListMap[q]) < MapSize
    BY <1>5 DEF HasRoom, Lists
  <2>4. MapSize \in Int
    BY PoolAssumption DEF PoolInv, PoolShape
  <2> QED BY <1>5, <2>2, <2>3, <2>4
<1> QED BY <1>3, <1>4, <1>5

\* What WithPacket does to the packets.
LEMMA WithPacketSets ==
  ASSUME PoolShape, NEW p \in Nat, NEW slot \in Packets, WithPacket(p, slot)
  PROVE  /\ DOMAIN packets' = DOMAIN packets \cup {p}
         /\ packets' \in [DOMAIN packets' -> Packets]
         /\ packets'[p] = slot
         /\ \A o \in DOMAIN packets : o # p => packets'[o] = packets[o]
<1> DEFINE D == DOMAIN packets \cup {p}
<1>1. packets' = [k \in D |-> IF k = p THEN slot ELSE packets[k]]
  BY DEF WithPacket, WithList
<1>2. packets \in [DOMAIN packets -> Packets]
  BY DEF PoolShape
<1> QED BY <1>1, <1>2

-----------------------------------------------------------------------------
LEMMA FindsKeeps ==
  ASSUME PoolInv, NEW t \in Threads, NEW s, PoolNewFinds(t, s) PROVE PoolInv'
<1>3. PICK q \in 1 .. Len(ListMap) : q = pool[t]
  <2>1. at[t] = "ready"
    BY DEF PoolNewFinds, Uses, Goes
  <2> QED BY <2>1 DEF PoolInv, Pools
<1> DEFINE list == ListMap[q][s]
           p == Head(list)
<1>1. /\ Uses(t) /\ s \in DOMAIN ListMap[q] /\ list # <<>>
      /\ SetsList(t, s, Tail(list))
      /\ hand' = [hand EXCEPT ![t] = @ \cup {p}]
      /\ UNCHANGED <<Instance, MapSize, nextPacket, purged>>
  BY <1>3 DEF PoolNewFinds, Lists
<1>2. PICK slot \in Validated(p) : /\ WithPacket(p, slot)
                                     /\ starved' = (starved \/ slot.room = 0)
  BY <1>3 DEF PoolNewFinds, Lists
<1>4. /\ ListMap[q] \in ListMaps /\ s \in Tags /\ list \in Seq(Nat) /\ Len(list) \in Nat
  BY <1>1, <1>3, MapTypes DEF PoolInv, PoolShape
<1>5. /\ Tail(list) \in Seq(Nat) /\ Len(Tail(list)) = Len(list) - 1 /\ p \in Nat
      /\ p = list[1] /\ 1 \in 1 .. Len(list)
      /\ \A i \in 1 .. Len(list) - 1 : Tail(list)[i] = list[i + 1]
  BY <1>1, <1>4
<1> HIDE DEF p
<1>6. /\ ListMap' \in Seq(ListMaps) /\ Len(ListMap') = Len(ListMap)
      /\ \A r \in 1 .. Len(ListMap') : IsFiniteSet(DOMAIN ListMap'[r])
  <2>1. PoolShape /\ pool[t] = q
    BY <1>1, <1>3, <1>5 DEF PoolInv
  <2>2. ListsMoved(q, s, Tail(list))
    BY <1>1, <1>3, <1>4, <1>5, <2>1, SetsListMoves
  <2> QED BY <2>2 DEF ListsMoved
<1>6a. /\ \A r, k, i : IsPlace(r, k, i)' =>
              \/ IsPlace(r, k, i) /\ ~(r = q /\ k = s) /\ ListMap'[r][k][i] = ListMap[r][k][i]
              \/ r = q /\ k = s /\ i \in 1 .. Len(Tail(list)) /\ ListMap'[r][k][i] = Tail(list)[i]
       /\ \A r, k, i : IsPlace(r, k, i) /\ ~(r = q /\ k = s) =>
              IsPlace(r, k, i)' /\ ListMap'[r][k][i] = ListMap[r][k][i]
       /\ \A i \in 1 .. Len(Tail(list)) :
              IsPlace(q, s, i)' /\ ListMap'[q][s][i] = Tail(list)[i]
  <2> DEFINE tail == Tail(list)
  <2>1. PoolShape /\ pool[t] = q /\ tail \in Seq(Nat) /\ SetsList(t, s, tail)
    BY <1>1, <1>3, <1>5 DEF PoolInv
  <2> HIDE DEF tail
  <2>2. PlacesMoved(q, s, tail)
    BY <1>3, <1>4, <2>1, OtherPlaces
  <2> QED BY <2>2 DEF tail, PlacesMoved
<1>7. IsPlace(q, s, 1) /\ p = ListMap[q][s][1]
  BY <1>1, <1>3, <1>5 DEF IsPlace
<1>8. p \in DOMAIN packets /\ \A u \in Threads : p \notin hand[u]
  BY <1>7 DEF PoolInv, InPlaces
\* The new places are old ones, but p's.
<1> DEFINE Back(r, k, i) == IF r = q /\ k = s THEN i + 1 ELSE i
<1>9. \A r, k, i : IsPlace(r, k, i)' =>
        /\ IsPlace(r, k, Back(r, k, i)) /\ ListMap'[r][k][i] = ListMap[r][k][Back(r, k, i)]
        /\ ~(r = q /\ k = s /\ Back(r, k, i) = 1)
        /\ i \in Int
  <2> SUFFICES ASSUME NEW r, NEW k, NEW i, IsPlace(r, k, i)'
               PROVE  /\ IsPlace(r, k, Back(r, k, i))
                      /\ ListMap'[r][k][i] = ListMap[r][k][Back(r, k, i)]
                      /\ ~(r = q /\ k = s /\ Back(r, k, i) = 1)
                      /\ i \in Int
    OBVIOUS
  <2>1. \/ IsPlace(r, k, i) /\ ~(r = q /\ k = s) /\ ListMap'[r][k][i] = ListMap[r][k][i]
        \/ r = q /\ k = s /\ i \in 1 .. Len(Tail(list)) /\ ListMap'[r][k][i] = Tail(list)[i]
    BY <1>6a
  <2>2. CASE IsPlace(r, k, i) /\ ~(r = q /\ k = s) /\ ListMap'[r][k][i] = ListMap[r][k][i]
    BY <2>2 DEF IsPlace
  <2>3. CASE r = q /\ k = s /\ i \in 1 .. Len(Tail(list)) /\ ListMap'[r][k][i] = Tail(list)[i]
    <3>1. i + 1 \in 1 .. Len(list) /\ i + 1 # 1 /\ i \in 1 .. Len(list) - 1
      BY <1>4, <1>5, <2>3
    <3>2. ListMap'[r][k][i] = list[i + 1]
      BY <1>5, <2>3, <3>1
    <3>3. IsPlace(q, s, i + 1)
      BY <1>1, <1>3, <3>1 DEF IsPlace
    <3> QED BY <2>3, <3>1, <3>2, <3>3
  <2> QED BY <2>1, <2>2, <2>3
<1>10. \A r, k, i : IsPlace(r, k, i) /\ ~(r = q /\ k = s /\ i = 1) =>
         \E j : IsPlace(r, k, j)' /\ ListMap'[r][k][j] = ListMap[r][k][i]
  <2> SUFFICES ASSUME NEW r, NEW k, NEW i, IsPlace(r, k, i), ~(r = q /\ k = s /\ i = 1)
               PROVE  \E j : IsPlace(r, k, j)' /\ ListMap'[r][k][j] = ListMap[r][k][i]
    OBVIOUS
  <2>1. CASE ~(r = q /\ k = s)
    <3>1. IsPlace(r, k, i)' /\ ListMap'[r][k][i] = ListMap[r][k][i]
      BY <1>6a, <2>1
    <3> QED BY <3>1
  <2>2. CASE r = q /\ k = s
    <3>1. i \in 1 .. Len(list)
      BY <2>2 DEF IsPlace
    <3>2. i - 1 \in 1 .. Len(Tail(list)) /\ (i - 1) + 1 = i
      BY <1>4, <1>5, <2>2, <3>1
    <3>3. IsPlace(q, s, i - 1)' /\ ListMap'[q][s][i - 1] = Tail(list)[i - 1]
      BY <1>6a, <3>2
    <3>4. Tail(list)[i - 1] = list[i]
      BY <1>4, <1>5, <3>2
    <3> QED BY <2>2, <3>3, <3>4
  <2> QED BY <2>1, <2>2
<1>11. \A r, k, i : IsPlace(r, k, i)' => ListMap'[r][k][i] # p
  BY <1>7, <1>9 DEF PoolInv, InPlaces
\* The packet is the one it was, with its data made again.
<1>12. /\ packets[p] \in Packets /\ slot \in Packets /\ slot.shape = packets[p].shape
       /\ ~starved' => slot.room >= Bytes(slot.shape)
       /\ slot.set
          \/ (slot = packets[p] /\ Bytes(packets[p].shape) = 0)
  <2>1. packets[p] \in Packets
    BY <1>8 DEF PoolInv, PoolShape
  <2>2. Bytes(packets[p].shape) \in Nat
    BY <2>1 DEF Packets, Tags, Bytes
  <2>3. packets[p].room \in Nat /\ packets[p].set \in BOOLEAN /\ packets[p].shape \in Tags
    BY <2>1 DEF Packets
  <2>4. CASE slot = packets[p] /\ packets[p].set
    BY <1>2, <1>8, <2>1, <2>4 DEF PoolInv, HasData
  <2>5. CASE slot = packets[p] /\ Bytes(packets[p].shape) = 0
    BY <2>1, <2>2, <2>3, <2>5
  <2>6. CASE slot = [packets[p] EXCEPT !.set = TRUE, !.room = Bytes(packets[p].shape)]
    <3>1. slot = [shape |-> packets[p].shape, room |-> Bytes(packets[p].shape), set |-> TRUE]
      BY <2>1, <2>6 DEF Packets
    <3> QED BY <2>1, <2>2, <2>3, <3>1 DEF Packets
  <2>7. CASE slot = [packets[p] EXCEPT !.set = TRUE] /\ ~packets[p].set
    <3>1. slot = [shape |-> packets[p].shape, room |-> packets[p].room, set |-> TRUE]
      BY <2>1, <2>7 DEF Packets
    <3>2. packets[p].room = 0
      BY <1>8, <2>7 DEF PoolInv, HasData
    <3> QED BY <1>2, <2>1, <2>3, <3>1, <3>2 DEF Packets
  <2>8. IF packets[p].set \/ Bytes(packets[p].shape) = 0 THEN slot = packets[p]
        ELSE \/ slot = [packets[p] EXCEPT !.set = TRUE, !.room = Bytes(packets[p].shape)]
             \/ slot = [packets[p] EXCEPT !.set = TRUE]
    BY <1>2 DEF Validated
  <2> QED BY <2>4, <2>5, <2>6, <2>7, <2>8
<1>13. /\ DOMAIN packets' = DOMAIN packets /\ packets' \in [DOMAIN packets' -> Packets]
       /\ packets'[p] = slot /\ \A o \in DOMAIN packets : o # p => packets'[o] = packets[o]
  BY <1>2, <1>5, <1>8, <1>12, WithPacketSets DEF PoolInv
<1>14. /\ hand' \in [Threads -> SUBSET Nat] /\ hand'[t] = hand[t] \cup {p}
       /\ \A u \in Threads \ {t} : hand'[u] = hand[u]
  BY <1>1, <1>5 DEF PoolInv, PoolShape
<1>15. InPlaces'
  <2>1. ASSUME NEW r, NEW k, NEW i, IsPlace(r, k, i)'
        PROVE  /\ ListMap'[r][k][i] \in DOMAIN packets'
               /\ packets'[ListMap'[r][k][i]].shape = k
               /\ \A u \in Threads : ListMap'[r][k][i] \notin hand'[u]
    <3>1. IsPlace(r, k, Back(r, k, i)) /\ ListMap'[r][k][i] = ListMap[r][k][Back(r, k, i)]
      BY <1>9, <2>1
    <3> HIDE DEF Back
    <3>2. ListMap'[r][k][i] # p
      BY <1>11, <2>1
    <3> QED BY <1>13, <1>14, <3>1, <3>2 DEF PoolInv, InPlaces
  <2>2. ASSUME NEW r, NEW k, NEW i, NEW o, NEW l, NEW j, IsPlace(r, k, i)', IsPlace(o, l, j)',
               ListMap'[r][k][i] = ListMap'[o][l][j]
        PROVE  r = o /\ k = l /\ i = j
    <3>1. /\ IsPlace(r, k, Back(r, k, i)) /\ IsPlace(o, l, Back(o, l, j))
          /\ ListMap[r][k][Back(r, k, i)] = ListMap[o][l][Back(o, l, j)]
          /\ i \in Int /\ j \in Int
      BY <1>9, <2>2
    <3>2. r = o /\ k = l /\ Back(r, k, i) = Back(o, l, j)
      <4> HIDE DEF Back
      <4> QED BY <3>1 DEF PoolInv, InPlaces
    <3> QED BY <3>1, <3>2
  <2> QED BY <2>1, <2>2 DEF InPlaces
<1>16. InHands'
  BY <1>8, <1>13, <1>14 DEF PoolInv, InHands
<1>17. NoneLost'
  <2> SUFFICES ASSUME NEW o \in DOMAIN packets'
               PROVE  \/ \E u \in Threads : o \in hand'[u]
                      \/ \E r, k, i : IsPlace(r, k, i)' /\ o = ListMap'[r][k][i]
    BY DEF NoneLost
  <2>1. CASE o = p
    BY <1>14, <2>1
  <2>2. CASE \E u \in Threads : o \in hand[u]
    BY <1>14, <2>2
  <2>3. ASSUME NEW r, NEW k, NEW i, IsPlace(r, k, i), o = ListMap[r][k][i], o # p
        PROVE  \E j : IsPlace(r, k, j)' /\ ListMap'[r][k][j] = o
    BY <1>7, <1>10, <2>3
  <2> QED BY <1>13, <2>1, <2>2, <2>3 DEF PoolInv, NoneLost
<1>18. HasData'
  <2> SUFFICES ASSUME NEW o \in DOMAIN packets'
               PROVE  /\ packets'[o].set /\ ~starved' =>
                           packets'[o].room >= Bytes(packets'[o].shape)
                      /\ ~packets'[o].set => packets'[o].room = 0
    BY DEF HasData, Bytes
  <2>1. CASE o = p
    BY <1>8, <1>12, <1>13, <2>1 DEF PoolInv, HasData
  <2>2. CASE o # p
    BY <1>2, <1>13, <2>2 DEF PoolInv, HasData
  <2> QED BY <2>1, <2>2
<1>19. Pools' /\ at' \in [Threads -> GetStages] /\ pool' \in [Threads -> Nat]
  BY <1>1, <1>6, UsesPool
<1>20. ListsFit'
  BY <1>1, <1>3, <1>4, <1>5, SetListFits DEF Lists
<1>21. PoolShape'
  <2>1. starved' \in BOOLEAN
    BY <1>2
  <2> QED BY <1>1, <1>6, <1>13, <1>14, <1>19, <2>1 DEF PoolInv, PoolShape
<1> QED BY <1>15, <1>16, <1>17, <1>18, <1>19, <1>20, <1>21 DEF PoolInv


\* A factor that is not larger makes a product that is not.
LEMMA SmallerProduct ==
  ASSUME NEW a \in Nat, NEW b \in Nat, NEW c \in Nat, c <= b PROVE a * c <= a * b
<1>1. PICK d \in Nat : b = c + d
  <2>1. b - c \in Nat /\ b = c + (b - c)
    OBVIOUS
  <2> QED BY <2>1
<1>2. a * b = a * c + a * d /\ a * d \in Nat /\ a * c \in Nat
  BY <1>1
<1> QED BY <1>2

\* What a packet remembers of its shape is a tag, and not more room.
LEMMA KeptFits ==
  ASSUME NEW s \in Shapes
  PROVE  s \in Tags /\ Kept(s) \in Tags /\ Bytes(s) \in Nat /\ Bytes(Kept(s)) <= Bytes(s)
<1>1. /\ s \in Tags /\ s = <<s[1], s[2], s[3]>> /\ s[1] \in {"memory", "video", "audio"}
      /\ s[2] \in Nat /\ s[3] \in Nat /\ Wrap \in Nat \ {0}
  BY PoolAssumption DEF Tags
<1>2. s[3] % Wrap \in Nat /\ s[3] % Wrap <= s[3]
  <2>1. PICK n \in Nat, w \in Nat : n = s[3] /\ w = Wrap /\ w > 0
    BY <1>1
  <2>2. n % w \in Nat /\ n % w <= n
    BY <2>1
  <2> QED BY <2>1, <2>2
<1>3. Bytes(s) \in Nat
  BY <1>1 DEF Bytes
<1>4. CASE s[1] = "audio"
  <2>1. Kept(s) = <<"audio", s[2], s[3] % Wrap>>
    BY <1>4 DEF Kept
  <2>2. Kept(s) \in Tags /\ Bytes(Kept(s)) = s[2] * (s[3] % Wrap)
    BY <1>1, <1>2, <2>1 DEF Tags, Bytes
  <2>3. s[2] * (s[3] % Wrap) <= s[2] * s[3]
    BY <1>1, <1>2, SmallerProduct
  <2> QED BY <1>1, <1>3, <2>2, <2>3 DEF Bytes
<1>5. CASE s[1] # "audio"
  <2>1. Kept(s) = s
    BY <1>5 DEF Kept
  <2> QED BY <1>1, <1>3, <2>1
<1> QED BY <1>4, <1>5

\* CreateNew adds a packet, or none, to the hands, whatever the lists are made of.
LEMMA CreatesKeeps ==
  ASSUME PoolInv, NEW t \in Threads, NEW s \in Shapes, Creates(t, s),
         \A r, k, i : IsPlace(r, k, i)' <=> IsPlace(r, k, i),
         \A r, k, i : IsPlace(r, k, i) => ListMap'[r][k][i] = ListMap[r][k][i]
  PROVE  /\ InPlaces' /\ InHands' /\ NoneLost' /\ HasData'
         /\ packets' \in [DOMAIN packets' -> Packets]
         /\ nextPacket' \in Nat \ {0} /\ DOMAIN packets' \subseteq 1 .. nextPacket' - 1
         /\ hand' \in [Threads -> SUBSET Nat] /\ starved' \in BOOLEAN
<1>1. CASE starved' = TRUE /\ UNCHANGED <<packets, nextPacket, hand>>
  <2>1. InPlaces' /\ InHands' /\ NoneLost' /\ HasData'
    BY <1>1, OwnersStay
  <2> QED BY <1>1, <2>1 DEF PoolInv, PoolShape
<1>2. ASSUME NEW n, n = nextPacket, nextPacket' = n + 1,
             hand' = [hand EXCEPT ![t] = @ \cup {n}],
             NEW room \in IF s[1] = "memory" THEN {Bytes(s)} ELSE {0, Bytes(s)},
             WithPacket(n, [shape |-> Kept(s), room |-> room, set |-> TRUE]),
             starved' = (starved \/ room = 0)
      PROVE  /\ InPlaces' /\ InHands' /\ NoneLost' /\ HasData'
             /\ packets' \in [DOMAIN packets' -> Packets]
             /\ nextPacket' \in Nat \ {0} /\ DOMAIN packets' \subseteq 1 .. nextPacket' - 1
             /\ hand' \in [Threads -> SUBSET Nat] /\ starved' \in BOOLEAN
  <2> DEFINE slot == [shape |-> Kept(s), room |-> room, set |-> TRUE]
  <2>1. n \in Nat \ {0} /\ DOMAIN packets \subseteq 1 .. n - 1 /\ n \notin DOMAIN packets
    BY <1>2 DEF PoolInv, PoolShape
  <2>2. /\ Kept(s) \in Tags /\ Bytes(s) \in Nat /\ Bytes(Kept(s)) <= Bytes(s)
        /\ room \in {0, Bytes(s)} /\ room \in Nat
    BY <1>2, KeptFits
  <2>3. slot \in Packets
    BY <2>2 DEF Packets
  <2>4. slot.shape = Kept(s) /\ slot.room = room /\ slot.set = TRUE
    OBVIOUS
  <2>5. /\ DOMAIN packets' = DOMAIN packets \cup {n} /\ packets' \in [DOMAIN packets' -> Packets]
        /\ packets'[n] = slot /\ \A o \in DOMAIN packets : o # n => packets'[o] = packets[o]
    <3>1. WithPacket(n, slot)
      BY <1>2
    <3> HIDE DEF slot
    <3> QED BY <2>1, <2>3, <3>1, WithPacketSets DEF PoolInv
  <2> HIDE DEF slot
  <2>6. /\ hand' \in [Threads -> SUBSET Nat] /\ hand'[t] = hand[t] \cup {n}
        /\ \A u \in Threads \ {t} : hand'[u] = hand[u]
    BY <1>2, <2>1 DEF PoolInv, PoolShape
  <2>7. InHands'
    BY <2>1, <2>5, <2>6 DEF PoolInv, InHands
  <2>8. InPlaces'
    <3>1. ASSUME NEW r, NEW k, NEW i, IsPlace(r, k, i)
          PROVE  /\ ListMap'[r][k][i] = ListMap[r][k][i]
                 /\ ListMap[r][k][i] \in DOMAIN packets /\ ListMap[r][k][i] # n
                 /\ packets[ListMap[r][k][i]].shape = k
                 /\ \A u \in Threads : ListMap[r][k][i] \notin hand[u]
      BY <2>1, <3>1 DEF PoolInv, InPlaces
    <3>2. ASSUME NEW r, NEW k, NEW i, IsPlace(r, k, i)
          PROVE  /\ ListMap'[r][k][i] \in DOMAIN packets'
                 /\ packets'[ListMap'[r][k][i]].shape = k
                 /\ \A u \in Threads : ListMap'[r][k][i] \notin hand'[u]
      BY <2>5, <2>6, <3>1, <3>2
    <3>3. \A r, k, i, o, l, j :
            IsPlace(r, k, i)' /\ IsPlace(o, l, j)' /\ ListMap'[r][k][i] = ListMap'[o][l][j] =>
              r = o /\ k = l /\ i = j
      BY DEF PoolInv, InPlaces
    <3> QED BY <3>2, <3>3 DEF InPlaces
  <2>9. NoneLost'
    <3> SUFFICES ASSUME NEW o \in DOMAIN packets'
                 PROVE  \/ \E u \in Threads : o \in hand'[u]
                        \/ \E r, k, i : IsPlace(r, k, i)' /\ o = ListMap'[r][k][i]
      BY DEF NoneLost
    <3>1. CASE o = n
      BY <2>6, <3>1
    <3>2. CASE \E u \in Threads : o \in hand[u]
      BY <2>6, <3>2
    <3>3. CASE \E r, k, i : IsPlace(r, k, i) /\ o = ListMap[r][k][i]
      BY <3>3
    <3> QED BY <2>5, <3>1, <3>2, <3>3 DEF PoolInv, NoneLost
  <2>10. HasData'
    <3> SUFFICES ASSUME NEW o \in DOMAIN packets'
                 PROVE  /\ packets'[o].set /\ ~starved' =>
                             packets'[o].room >= Bytes(packets'[o].shape)
                        /\ ~packets'[o].set => packets'[o].room = 0
      BY DEF HasData, Bytes
    <3>1. CASE o = n
      BY <1>2, <2>2, <2>4, <2>5, <3>1
    <3>2. CASE o # n
      BY <1>2, <2>5, <3>2 DEF PoolInv, HasData
    <3> QED BY <3>1, <3>2
  <2>11. nextPacket' \in Nat \ {0} /\ DOMAIN packets' \subseteq 1 .. nextPacket' - 1
    BY <1>2, <2>1, <2>5
  <2>12. starved' \in BOOLEAN
    BY <1>2
  <2> QED BY <2>5, <2>6, <2>7, <2>8, <2>9, <2>10, <2>11, <2>12
<1> QED BY <1>1, <1>2 DEF Creates

LEMMA PoolCreatesKeeps ==
  ASSUME PoolInv, NEW t \in Threads, NEW s \in Shapes, PoolNewCreates(t, s) PROVE PoolInv'
<1>1. PICK q \in 1 .. Len(ListMap) : q = pool[t]
  <2>1. at[t] = "ready"
    BY DEF PoolNewCreates, Uses, Goes
  <2> QED BY <2>1 DEF PoolInv, Pools
<1>2. Uses(t) /\ Creates(t, s) /\ UNCHANGED <<Instance, MapSize, purged>>
  BY DEF PoolNewCreates
<1>3. s \in Tags
  BY KeptFits
<1>4. \/ UNCHANGED ListMap
      \/ s \notin DOMAIN ListMap[q] /\ HasRoom(t) /\ SetsList(t, s, <<>>)
  BY <1>1 DEF PoolNewCreates, Lists
<1>5. /\ ListMap' \in Seq(ListMaps) /\ Len(ListMap') = Len(ListMap)
      /\ \A r \in 1 .. Len(ListMap') : IsFiniteSet(DOMAIN ListMap'[r])
      /\ \A r, k, i : IsPlace(r, k, i)' <=> IsPlace(r, k, i)
      /\ \A r, k, i : IsPlace(r, k, i) => ListMap'[r][k][i] = ListMap[r][k][i]
      /\ ListsFit'
  <2>1. CASE UNCHANGED ListMap
    <3>1. ListsFit'
      BY <1>2, <2>1 DEF PoolInv, ListsFit
    <3>2. /\ ListMap' \in Seq(ListMaps) /\ Len(ListMap') = Len(ListMap)
          /\ \A r \in 1 .. Len(ListMap') : IsFiniteSet(DOMAIN ListMap'[r])
      BY <2>1 DEF PoolInv, PoolShape
    <3> QED BY <2>1, <3>1, <3>2, PlacesStay
  <2>2. CASE s \notin DOMAIN ListMap[q] /\ HasRoom(t) /\ SetsList(t, s, <<>>)
    <3>1. PICK list \in Seq(Nat) : list = <<>>
      <4>1. <<>> \in Seq(Nat)
        OBVIOUS
      <4> QED BY <4>1
    <3>2. PoolShape /\ pool[t] = q /\ SetsList(t, s, list) /\ Len(list) = 0
      BY <1>1, <2>2, <3>1 DEF PoolInv
    <3>3. /\ ListMap' \in Seq(ListMaps) /\ Len(ListMap') = Len(ListMap)
          /\ \A r \in 1 .. Len(ListMap') : IsFiniteSet(DOMAIN ListMap'[r])
      <4>1. ListsMoved(q, s, list)
        BY <1>1, <1>3, <3>2, SetsListMoves
      <4> QED BY <4>1 DEF ListsMoved
    <3>4. /\ \A r, k, i : IsPlace(r, k, i)' =>
               \/ IsPlace(r, k, i) /\ ~(r = q /\ k = s) /\ ListMap'[r][k][i] = ListMap[r][k][i]
               \/ r = q /\ k = s /\ i \in 1 .. Len(list) /\ ListMap'[r][k][i] = list[i]
          /\ \A r, k, i : IsPlace(r, k, i) /\ ~(r = q /\ k = s) =>
               IsPlace(r, k, i)' /\ ListMap'[r][k][i] = ListMap[r][k][i]
          /\ \A i \in 1 .. Len(list) : IsPlace(q, s, i)' /\ ListMap'[q][s][i] = list[i]
      <4>1. PlacesMoved(q, s, list)
        BY <1>1, <1>3, <3>2, OtherPlaces
      <4> QED BY <4>1 DEF PlacesMoved
    <3>5. 1 .. Len(list) = {}
      BY <3>2
    <3>6. \A r, k, i : IsPlace(r, k, i) => ~(r = q /\ k = s)
      BY <2>2 DEF IsPlace
    <3>7. ListsFit'
      BY <1>1, <1>2, <1>3, <2>2, <3>2, SetListFits
    <3> QED BY <3>3, <3>4, <3>5, <3>6, <3>7
  <2> QED BY <1>4, <2>1, <2>2
<1>6. /\ InPlaces' /\ InHands' /\ NoneLost' /\ HasData'
      /\ packets' \in [DOMAIN packets' -> Packets]
      /\ nextPacket' \in Nat \ {0} /\ DOMAIN packets' \subseteq 1 .. nextPacket' - 1
      /\ hand' \in [Threads -> SUBSET Nat] /\ starved' \in BOOLEAN
  BY <1>2, <1>5, CreatesKeeps
<1>7. Pools' /\ at' \in [Threads -> GetStages] /\ pool' \in [Threads -> Nat]
  BY <1>2, <1>5, UsesPool
<1>8. PoolShape'
  BY <1>2, <1>5, <1>6, <1>7 DEF PoolInv, PoolShape
<1> QED BY <1>5, <1>6, <1>7, <1>8 DEF PoolInv


-----------------------------------------------------------------------------
LEMMA PoolsStay ==
  ASSUME PoolInv, UNCHANGED <<Instance, MapSize, at, pool, purged>>, UNCHANGED ListMap
  PROVE  Pools' /\ ListsFit'
<1>1. Creating' = Creating /\ Sizing' = Sizing
  BY DEF Creating, Sizing
<1> QED BY <1>1 DEF PoolInv, Pools, ListsFit

LEMMA DeletesLeaves ==
  ASSUME PoolShape, NEW ps, Deletes(ps)
  PROVE  /\ DOMAIN packets' = DOMAIN packets \ ps /\ packets' \in [DOMAIN packets' -> Packets]
         /\ \A o \in DOMAIN packets : o \notin ps => packets'[o] = packets[o]
<1> DEFINE D == DOMAIN packets \ ps
<1>1. packets' = [o \in D |-> packets[o]]
  BY DEF Deletes, Restrict
<1>2. packets \in [DOMAIN packets -> Packets]
  BY DEF PoolShape
<1> QED BY <1>1, <1>2

\* A packet in a thread's hand is deleted.
LEMMA DropKeeps ==
  ASSUME PoolInv, NEW t \in Threads, NEW p \in hand[t], Deletes({p}),
         hand' = [hand EXCEPT ![t] = @ \ {p}], UNCHANGED <<ListMap, starved>>, UNCHANGED nextPacket
  PROVE  /\ InPlaces' /\ InHands' /\ NoneLost' /\ HasData'
         /\ packets' \in [DOMAIN packets' -> Packets]
         /\ nextPacket' \in Nat \ {0} /\ DOMAIN packets' \subseteq 1 .. nextPacket' - 1
         /\ hand' \in [Threads -> SUBSET Nat]
<1>1. /\ DOMAIN packets' = DOMAIN packets \ {p} /\ packets' \in [DOMAIN packets' -> Packets]
      /\ \A o \in DOMAIN packets : o # p => packets'[o] = packets[o]
  <2>1. PICK ps : ps = {p}
    OBVIOUS
  <2>2. PoolShape /\ Deletes(ps)
    BY <2>1 DEF PoolInv
  <2>3. /\ DOMAIN packets' = DOMAIN packets \ ps /\ packets' \in [DOMAIN packets' -> Packets]
        /\ \A o \in DOMAIN packets : o \notin ps => packets'[o] = packets[o]
    BY <2>2, DeletesLeaves
  <2> QED BY <2>1, <2>3
<1>2. /\ hand' \in [Threads -> SUBSET Nat] /\ hand'[t] = hand[t] \ {p}
      /\ \A u \in Threads \ {t} : hand'[u] = hand[u]
  BY DEF PoolInv, PoolShape
<1>3. \A u \in Threads \ {t} : p \notin hand[u]
  BY DEF PoolInv, InHands
<1>4. InHands'
  BY <1>1, <1>2, <1>3 DEF PoolInv, InHands
<1>5. InPlaces'
  <2>1. ASSUME NEW r, NEW k, NEW i, IsPlace(r, k, i)
        PROVE  /\ ListMap[r][k][i] \in DOMAIN packets /\ ListMap[r][k][i] # p
               /\ packets[ListMap[r][k][i]].shape = k
               /\ \A u \in Threads : ListMap[r][k][i] \notin hand[u]
    BY <2>1 DEF PoolInv, InPlaces
  <2>2. ASSUME NEW r, NEW k, NEW i, IsPlace(r, k, i)
        PROVE  /\ ListMap[r][k][i] \in DOMAIN packets'
               /\ packets'[ListMap[r][k][i]].shape = k
               /\ \A u \in Threads : ListMap[r][k][i] \notin hand'[u]
    BY <1>1, <1>2, <2>1, <2>2
  <2>3. \A r, k, i, o, l, j :
          IsPlace(r, k, i) /\ IsPlace(o, l, j) /\ ListMap[r][k][i] = ListMap[o][l][j] =>
            r = o /\ k = l /\ i = j
    BY DEF PoolInv, InPlaces
  <2> QED BY <2>2, <2>3, PlacesStay DEF InPlaces
<1>6. NoneLost'
  <2> SUFFICES ASSUME NEW o \in DOMAIN packets'
               PROVE  \/ \E u \in Threads : o \in hand'[u]
                      \/ \E r, k, i : IsPlace(r, k, i)' /\ o = ListMap'[r][k][i]
    BY DEF NoneLost
  <2>1. CASE \E u \in Threads : o \in hand[u]
    BY <1>1, <1>2, <2>1
  <2>2. CASE \E r, k, i : IsPlace(r, k, i) /\ o = ListMap[r][k][i]
    BY <2>2, PlacesStay
  <2> QED BY <1>1, <2>1, <2>2 DEF PoolInv, NoneLost
<1>7. HasData'
  BY <1>1 DEF PoolInv, HasData, Bytes
<1> QED BY <1>1, <1>2, <1>4, <1>5, <1>6, <1>7 DEF PoolInv, PoolShape

LEMMA AppendIs ==
  ASSUME NEW old \in Seq(Nat), NEW e \in Nat
  PROVE  /\ Len(Append(old, e)) = Len(old) + 1 /\ Append(old, e)[Len(old) + 1] = e
         /\ \A i \in 1 .. Len(old) : Append(old, e)[i] = old[i]
OBVIOUS

\* A packet in a thread's hand is put at the end of its list.
LEMMA PutKeeps ==
  ASSUME PoolInv, NEW t \in Threads, NEW p \in hand[t], NEW q \in 1 .. Len(ListMap), q = pool[t],
         NEW tag, tag = packets[p].shape, NEW list,
         list = IF tag \in DOMAIN ListMap[q] THEN ListMap[q][tag] ELSE <<>>,
         SetsList(t, tag, Append(list, p)), hand' = [hand EXCEPT ![t] = @ \ {p}],
         UNCHANGED <<packets, nextPacket, starved>>
  PROVE  /\ InPlaces' /\ InHands' /\ NoneLost' /\ HasData' /\ hand' \in [Threads -> SUBSET Nat]
         /\ ListMap' \in Seq(ListMaps) /\ Len(ListMap') = Len(ListMap)
         /\ \A r \in 1 .. Len(ListMap') : IsFiniteSet(DOMAIN ListMap'[r])
         /\ tag \in Tags /\ Append(list, p) \in Seq(Nat)
<1>1. p \in DOMAIN packets /\ p \in Nat /\ packets[p] \in Packets /\ tag \in Tags
  BY DEF PoolInv, InHands, PoolShape, Packets
<1>2. list \in Seq(Nat) /\ Len(list) \in Nat
  <2>1. ListMap[q] \in ListMaps
    BY DEF PoolInv, PoolShape
  <2>2. tag \in DOMAIN ListMap[q] => ListMap[q][tag] \in Seq(Nat)
    BY <2>1, MapTypes
  <2> QED BY <2>2
<1>3. PICK longer \in Seq(Nat) : longer = Append(list, p)
  <2>1. Append(list, p) \in Seq(Nat)
    BY <1>1, <1>2
  <2> QED BY <2>1
<1>4. /\ Len(longer) = Len(list) + 1 /\ longer[Len(list) + 1] = p
      /\ \A i \in 1 .. Len(list) : longer[i] = list[i]
  <2>1. p \in Nat /\ list \in Seq(Nat)
    BY <1>1, <1>2
  <2>2. /\ Len(Append(list, p)) = Len(list) + 1 /\ Append(list, p)[Len(list) + 1] = p
        /\ \A i \in 1 .. Len(list) : Append(list, p)[i] = list[i]
    BY <2>1, AppendIs
  <2> QED BY <1>3, <2>2
<1>5. PoolShape /\ pool[t] = q /\ SetsList(t, tag, longer)
  BY <1>3 DEF PoolInv
<1>6. /\ ListMap' \in Seq(ListMaps) /\ Len(ListMap') = Len(ListMap)
      /\ \A r \in 1 .. Len(ListMap') : IsFiniteSet(DOMAIN ListMap'[r])
  <2>1. ListsMoved(q, tag, longer)
    BY <1>1, <1>5, SetsListMoves
  <2> QED BY <2>1 DEF ListsMoved
<1>7. /\ \A r, k, i : IsPlace(r, k, i)' =>
           \/ IsPlace(r, k, i) /\ ~(r = q /\ k = tag) /\ ListMap'[r][k][i] = ListMap[r][k][i]
           \/ r = q /\ k = tag /\ i \in 1 .. Len(longer) /\ ListMap'[r][k][i] = longer[i]
      /\ \A r, k, i : IsPlace(r, k, i) /\ ~(r = q /\ k = tag) =>
           IsPlace(r, k, i)' /\ ListMap'[r][k][i] = ListMap[r][k][i]
      /\ \A i \in 1 .. Len(longer) : IsPlace(q, tag, i)' /\ ListMap'[q][tag][i] = longer[i]
  <2>1. PlacesMoved(q, tag, longer)
    BY <1>1, <1>5, OtherPlaces
  <2> QED BY <2>1 DEF PlacesMoved
\* A place is an old one, with what was there, or the new one, with p.
<1>8. \A r, k, i : IsPlace(r, k, i)' =>
        \/ IsPlace(r, k, i) /\ ListMap'[r][k][i] = ListMap[r][k][i]
        \/ r = q /\ k = tag /\ i = Len(list) + 1 /\ ListMap'[r][k][i] = p
  <2> SUFFICES ASSUME NEW r, NEW k, NEW i, IsPlace(r, k, i)'
               PROVE  \/ IsPlace(r, k, i) /\ ListMap'[r][k][i] = ListMap[r][k][i]
                      \/ r = q /\ k = tag /\ i = Len(list) + 1 /\ ListMap'[r][k][i] = p
    OBVIOUS
  <2>1. CASE r = q /\ k = tag /\ i \in 1 .. Len(longer) /\ ListMap'[r][k][i] = longer[i]
    <3>1. CASE i = Len(list) + 1
      BY <1>4, <2>1, <3>1
    <3>2. CASE i # Len(list) + 1
      <4>1. i \in 1 .. Len(list)
        <5>1. PICK n \in Nat : n = Len(list)
          BY <1>2
        <5>2. i \in 1 .. n + 1 /\ i # n + 1
          BY <1>4, <2>1, <3>2, <5>1
        <5>3. i \in 1 .. n
          BY <5>2
        <5> QED BY <5>1, <5>3
      <4>2. tag \in DOMAIN ListMap[q] /\ list = ListMap[q][tag]
        BY <4>1
      <4> QED BY <1>4, <2>1, <4>1, <4>2 DEF IsPlace
    <3> QED BY <3>1, <3>2
  <2> QED BY <1>7, <2>1
<1>9. \A r, k, i : IsPlace(r, k, i) => IsPlace(r, k, i)' /\ ListMap'[r][k][i] = ListMap[r][k][i]
  <2> SUFFICES ASSUME NEW r, NEW k, NEW i, IsPlace(r, k, i)
               PROVE  IsPlace(r, k, i)' /\ ListMap'[r][k][i] = ListMap[r][k][i]
    OBVIOUS
  <2>1. CASE r = q /\ k = tag
    <3>1. list = ListMap[q][tag] /\ i \in 1 .. Len(list)
      BY <2>1 DEF IsPlace
    <3>2. i \in 1 .. Len(longer)
      BY <1>2, <1>4, <3>1
    <3> QED BY <1>4, <1>7, <2>1, <3>1, <3>2
  <2> QED BY <1>7, <2>1
<1>10. IsPlace(q, tag, Len(list) + 1)' /\ ListMap'[q][tag][Len(list) + 1] = p
  <2>1. Len(list) + 1 \in 1 .. Len(longer)
    BY <1>2, <1>4
  <2> QED BY <1>4, <1>7, <2>1
<1>11. /\ hand' \in [Threads -> SUBSET Nat] /\ hand'[t] = hand[t] \ {p}
       /\ \A u \in Threads \ {t} : hand'[u] = hand[u] /\ p \notin hand[u]
  BY DEF PoolInv, PoolShape, InHands
<1>12. InHands'
  BY <1>11 DEF PoolInv, InHands
<1>13. InPlaces'
  <2>1. ASSUME NEW r, NEW k, NEW i, IsPlace(r, k, i)
        PROVE  /\ ListMap[r][k][i] \in DOMAIN packets /\ ListMap[r][k][i] # p
               /\ packets[ListMap[r][k][i]].shape = k
               /\ \A u \in Threads : ListMap[r][k][i] \notin hand'[u]
    BY <1>11, <2>1 DEF PoolInv, InPlaces
  <2>2. ASSUME NEW r, NEW k, NEW i, IsPlace(r, k, i)'
        PROVE  /\ ListMap'[r][k][i] \in DOMAIN packets'
               /\ packets'[ListMap'[r][k][i]].shape = k
               /\ \A u \in Threads : ListMap'[r][k][i] \notin hand'[u]
    BY <1>1, <1>8, <1>11, <2>1, <2>2
  <2>3. ASSUME NEW r, NEW k, NEW i, NEW o, NEW l, NEW j, IsPlace(r, k, i)', IsPlace(o, l, j)',
               ListMap'[r][k][i] = ListMap'[o][l][j]
        PROVE  r = o /\ k = l /\ i = j
    <3>1. CASE ListMap'[r][k][i] = p
      <4>1. r = q /\ k = tag /\ i = Len(list) + 1
        BY <1>8, <2>1, <2>3, <3>1
      <4>2. o = q /\ l = tag /\ j = Len(list) + 1
        <5>1. ListMap'[o][l][j] = p /\ IsPlace(o, l, j)'
          BY <2>3, <3>1
        <5>2. \/ IsPlace(o, l, j) /\ ListMap'[o][l][j] = ListMap[o][l][j]
              \/ o = q /\ l = tag /\ j = Len(list) + 1
          BY <1>8, <5>1
        <5> QED BY <2>1, <5>1, <5>2
      <4> QED BY <4>1, <4>2
    <3>2. CASE ListMap'[r][k][i] # p
      <4>1. /\ IsPlace(r, k, i) /\ ListMap'[r][k][i] = ListMap[r][k][i]
            /\ IsPlace(o, l, j) /\ ListMap'[o][l][j] = ListMap[o][l][j]
        BY <1>8, <2>3, <3>2
      <4>2. ListMap[r][k][i] = ListMap[o][l][j]
        BY <2>3, <4>1
      <4>3. InPlaces
        BY DEF PoolInv
      <4> QED BY <4>1, <4>2, <4>3 DEF InPlaces
    <3> QED BY <3>1, <3>2
  <2> QED BY <2>2, <2>3 DEF InPlaces
<1>14. NoneLost'
  <2> SUFFICES ASSUME NEW o \in DOMAIN packets'
               PROVE  \/ \E u \in Threads : o \in hand'[u]
                      \/ \E r, k, i : IsPlace(r, k, i)' /\ o = ListMap'[r][k][i]
    BY DEF NoneLost
  <2>1. CASE o = p
    BY <1>10, <2>1
  <2>2. CASE o # p /\ \E u \in Threads : o \in hand[u]
    BY <1>11, <2>2
  <2>3. CASE \E r, k, i : IsPlace(r, k, i) /\ o = ListMap[r][k][i]
    BY <1>9, <2>3
  <2> QED BY <2>1, <2>2, <2>3 DEF PoolInv, NoneLost
<1>15. HasData'
  BY DEF PoolInv, HasData, Bytes
<1> QED BY <1>1, <1>3, <1>6, <1>11, <1>12, <1>13, <1>14, <1>15

LEMMA PoolDeleteMaintains ==
  ASSUME PoolInv, NEW t \in Threads, NEW p \in DOMAIN packets, PoolDelete(t, p) PROVE PoolInv'
<1>1. PICK q \in 1 .. Len(ListMap) : q = pool[t]
  <2>1. at[t] = "ready"
    BY DEF PoolDelete, Uses, Goes
  <2> QED BY <2>1 DEF PoolInv, Pools
<1>2. PICK tag : tag = packets[p].shape
  OBVIOUS
<1>3. PICK list : list = IF tag \in DOMAIN ListMap[q] THEN ListMap[q][tag] ELSE <<>>
  OBVIOUS
<1>4. /\ Uses(t) /\ p \in hand[t] /\ hand' = [hand EXCEPT ![t] = @ \ {p}]
      /\ UNCHANGED <<Instance, MapSize, purged>> /\ UNCHANGED <<nextPacket, starved>>
  BY DEF PoolDelete
<1>5. \/ /\ SetsList(t, tag, Append(list, p)) /\ UNCHANGED packets
         /\ tag \in DOMAIN ListMap[q] \/ HasRoom(t)
      \/ Deletes({p}) /\ UNCHANGED ListMap
  BY <1>1, <1>2, <1>3 DEF PoolDelete, Lists
<1>6. CASE /\ SetsList(t, tag, Append(list, p)) /\ UNCHANGED packets
           /\ tag \in DOMAIN ListMap[q] \/ HasRoom(t)
  <2>1. /\ InPlaces' /\ InHands' /\ NoneLost' /\ HasData' /\ hand' \in [Threads -> SUBSET Nat]
        /\ ListMap' \in Seq(ListMaps) /\ Len(ListMap') = Len(ListMap)
        /\ \A r \in 1 .. Len(ListMap') : IsFiniteSet(DOMAIN ListMap'[r])
        /\ tag \in Tags /\ Append(list, p) \in Seq(Nat)
    BY <1>1, <1>2, <1>3, <1>4, <1>6, PutKeeps
  <2>2. Pools' /\ at' \in [Threads -> GetStages] /\ pool' \in [Threads -> Nat]
    BY <1>4, <2>1, UsesPool
  <2>3. ListsFit'
    <3>1. pool[t] \in 1 .. Len(ListMap) /\ (tag \in DOMAIN Lists(t) \/ HasRoom(t))
      BY <1>1, <1>6 DEF Lists
    <3> QED BY <1>4, <1>6, <2>1, <3>1, SetListFits
  <2>4. PoolShape'
    BY <1>4, <1>6, <2>1, <2>2 DEF PoolInv, PoolShape
  <2> QED BY <2>1, <2>2, <2>3, <2>4 DEF PoolInv
<1>7. CASE Deletes({p}) /\ UNCHANGED ListMap
  <2>1. /\ InPlaces' /\ InHands' /\ NoneLost' /\ HasData'
        /\ packets' \in [DOMAIN packets' -> Packets]
        /\ nextPacket' \in Nat \ {0} /\ DOMAIN packets' \subseteq 1 .. nextPacket' - 1
        /\ hand' \in [Threads -> SUBSET Nat]
    BY <1>4, <1>7, DropKeeps
  <2>2. Pools' /\ at' \in [Threads -> GetStages] /\ pool' \in [Threads -> Nat]
    BY <1>4, <1>7, UsesPool
  <2>3. ListsFit'
    BY <1>4, <1>7 DEF PoolInv, ListsFit
  <2>4. PoolShape'
    BY <1>4, <1>7, <2>1, <2>2 DEF PoolInv, PoolShape
  <2> QED BY <2>1, <2>2, <2>3, <2>4 DEF PoolInv
<1> QED BY <1>5, <1>6, <1>7

LEMMA DeleteKeeps ==
  ASSUME PoolInv, NEW t \in Threads, NEW p \in DOMAIN packets, Delete(t, p) PROVE PoolInv'
<1>1. /\ p \in hand[t] /\ hand' = [hand EXCEPT ![t] = @ \ {p}] /\ Deletes({p})
      /\ UNCHANGED <<Instance, MapSize, at, pool, purged>> /\ UNCHANGED ListMap
      /\ UNCHANGED <<ListMap, starved>> /\ UNCHANGED nextPacket
  BY DEF Delete
<1>2. /\ InPlaces' /\ InHands' /\ NoneLost' /\ HasData'
      /\ packets' \in [DOMAIN packets' -> Packets]
      /\ nextPacket' \in Nat \ {0} /\ DOMAIN packets' \subseteq 1 .. nextPacket' - 1
      /\ hand' \in [Threads -> SUBSET Nat]
  BY <1>1, DropKeeps
<1>3. Pools' /\ ListsFit'
  BY <1>1, PoolsStay
<1>4. PoolShape'
  BY <1>1, <1>2 DEF PoolInv, PoolShape
<1> QED BY <1>2, <1>3, <1>4 DEF PoolInv

LEMMA Emptied ==
  ASSUME NEW r \in Packets, NEW e, e = [r EXCEPT !.set = FALSE, !.room = 0]
  PROVE  e \in Packets /\ e.shape = r.shape /\ e.room = 0 /\ ~e.set
<1>1. PICK d : d = [r EXCEPT !.set = FALSE]
  OBVIOUS
<1>2. d \in Packets /\ d.shape = r.shape /\ ~d.set
  BY <1>1 DEF Packets
<1>3. e = [d EXCEPT !.room = 0]
  BY <1>1
<1>4. e \in Packets /\ e.room = 0
  BY <1>2, <1>3 DEF Packets
<1>5. e.shape = d.shape /\ e.set = d.set
  BY <1>2, <1>3 DEF Packets
<1> QED BY <1>2, <1>4, <1>5

LEMMA NullKeeps ==
  ASSUME PoolInv, NEW t \in Threads, NEW p \in DOMAIN packets, NullPacket(t, p) PROVE PoolInv'
<1> DEFINE slot == [packets[p] EXCEPT !.set = FALSE, !.room = 0]
<1>1. /\ WithPacket(p, slot)
      /\ UNCHANGED <<Instance, MapSize, at, pool, purged>> /\ UNCHANGED ListMap
      /\ UNCHANGED <<nextPacket, hand, starved>>
  BY DEF NullPacket
<1>2. p \in Nat /\ packets[p] \in Packets
  BY DEF PoolInv, PoolShape
<1>4. slot \in Packets /\ slot.shape = packets[p].shape /\ slot.room = 0 /\ ~slot.set
  BY <1>2, Emptied
<1> HIDE DEF slot
<1>5. /\ DOMAIN packets' = DOMAIN packets /\ packets' \in [DOMAIN packets' -> Packets]
      /\ packets'[p] = slot /\ \A o \in DOMAIN packets : o # p => packets'[o] = packets[o]
  BY <1>1, <1>2, <1>4, WithPacketSets DEF PoolInv
<1>6. \A o \in DOMAIN packets : packets'[o].shape = packets[o].shape
  BY <1>4, <1>5
<1>7. /\ \A r, k, i : IsPlace(r, k, i)' <=> IsPlace(r, k, i)
      /\ \A r, k, i : IsPlace(r, k, i) => ListMap'[r][k][i] = ListMap[r][k][i]
  BY <1>1, PlacesStay
<1>8. InPlaces'
  BY <1>1, <1>5, <1>6, <1>7 DEF PoolInv, InPlaces
<1>9. InHands' /\ NoneLost'
  BY <1>1, <1>5, <1>7 DEF PoolInv, InHands, NoneLost
<1>10. HasData'
  <2> SUFFICES ASSUME NEW o \in DOMAIN packets'
               PROVE  /\ packets'[o].set /\ ~starved' =>
                           packets'[o].room >= Bytes(packets'[o].shape)
                      /\ ~packets'[o].set => packets'[o].room = 0
    BY DEF HasData, Bytes
  <2>1. CASE o = p
    BY <1>4, <1>5, <2>1
  <2>2. CASE o # p
    BY <1>1, <1>5, <2>2 DEF PoolInv, HasData
  <2> QED BY <2>1, <2>2
<1>11. Pools' /\ ListsFit'
  BY <1>1, PoolsStay
<1>12. PoolShape'
  BY <1>1, <1>5 DEF PoolInv, PoolShape
<1> QED BY <1>8, <1>9, <1>10, <1>11, <1>12 DEF PoolInv


\* DeleteInstance empties the lists of the pool there is: the places of the
\* others stay.
LEMMA PurgesKeeps ==
  ASSUME PoolInv, NEW t \in Threads, DeleteInstancePurges(t) PROVE PoolInv'
<1>1. PICK q \in 1 .. Len(ListMap) : q = Instance
  BY DEF DeleteInstancePurges, Goes, PoolInv, PoolShape, Pools
<1>2. PICK lists \in ListMaps : lists = ListMap[q] /\ IsFiniteSet(DOMAIN lists)
  BY <1>1 DEF PoolInv, PoolShape
<1>3. PICK ps : ps = UNION {{lists[tag][i] : i \in DOMAIN lists[tag]} : tag \in DOMAIN lists}
  OBVIOUS
<1>4. PICK n : n = Cardinality(DOMAIN lists)
  OBVIOUS
<1>5. /\ Deletes(ps) /\ ListMap' = [ListMap EXCEPT ![q] = <<>>]
      /\ MapSize' = MapSize - n /\ purged' = purged + n
      /\ UNCHANGED <<Instance, nextPacket, pool, hand, starved>>
      /\ Goes(t, "purge", "idle")
  BY <1>1, <1>2, <1>3, <1>4 DEF DeleteInstancePurges
<1>21. /\ at[t] = "purge" /\ at'[t] = "idle"
       /\ at' \in [Threads -> GetStages] /\ \A u \in Threads \ {t} : at'[u] = at[u]
  BY <1>5, StageGoes DEF PoolInv, GetStages
<1>6. n \in Nat /\ n <= MapSize /\ MapSize \in 0 .. Limit /\ Limit \in Nat /\ purged \in Nat
  BY <1>1, <1>2, <1>4, FS_CardinalityType, PoolAssumption DEF PoolInv, PoolShape, ListsFit
<1>7. /\ ListMap' \in Seq(ListMaps) /\ Len(ListMap') = Len(ListMap) /\ ListMap'[q] = <<>>
      /\ \A r \in 1 .. Len(ListMap) : r # q => ListMap'[r] = ListMap[r]
  BY <1>1, <1>5, EmptyMap DEF PoolInv, PoolShape
<1>8. \A r \in 1 .. Len(ListMap') : IsFiniteSet(DOMAIN ListMap'[r])
  BY <1>7, EmptyMap DEF PoolInv, PoolShape
<1>9. \A x : x \in ps <=> \E tag, i : IsPlace(q, tag, i) /\ x = ListMap[q][tag][i]
  <2>1. \A tag \in DOMAIN lists : DOMAIN lists[tag] = 1 .. Len(lists[tag])
    BY <1>2, MapTypes
  <2>2. \A x : x \in ps <=> \E tag \in DOMAIN lists : \E i \in DOMAIN lists[tag] : x = lists[tag][i]
    BY <1>3
  <2> QED BY <1>1, <1>2, <2>1, <2>2 DEF IsPlace
<1>10. \A r, k, i : IsPlace(r, k, i)' =>
         IsPlace(r, k, i) /\ r # q /\ ListMap'[r][k][i] = ListMap[r][k][i]
  <2> SUFFICES ASSUME NEW r, NEW k, NEW i, IsPlace(r, k, i)'
               PROVE  IsPlace(r, k, i) /\ r # q /\ ListMap'[r][k][i] = ListMap[r][k][i]
    OBVIOUS
  <2>1. r \in 1 .. Len(ListMap) /\ k \in DOMAIN ListMap'[r] /\ i \in 1 .. Len(ListMap'[r][k])
    BY <1>7 DEF IsPlace
  <2>2. r # q
    BY <1>7, <2>1, EmptyMap
  <2> QED BY <1>7, <2>1, <2>2 DEF IsPlace
<1>11. \A r, k, i : IsPlace(r, k, i) /\ r # q =>
         IsPlace(r, k, i)' /\ ListMap'[r][k][i] = ListMap[r][k][i]
  BY <1>7 DEF IsPlace
<1>12. /\ DOMAIN packets' = DOMAIN packets \ ps /\ packets' \in [DOMAIN packets' -> Packets]
       /\ \A o \in DOMAIN packets : o \notin ps => packets'[o] = packets[o]
  BY <1>5, DeletesLeaves DEF PoolInv
<1>13. \A u \in Threads : hand[u] \cap ps = {}
  BY <1>9 DEF PoolInv, InPlaces
<1>14. InHands'
  BY <1>5, <1>12, <1>13 DEF PoolInv, InHands
<1>15. InPlaces'
  <2>1. ASSUME NEW r, NEW k, NEW i, IsPlace(r, k, i)'
        PROVE  /\ ListMap'[r][k][i] \in DOMAIN packets'
               /\ packets'[ListMap'[r][k][i]].shape = k
               /\ \A u \in Threads : ListMap'[r][k][i] \notin hand'[u]
    <3>1. IsPlace(r, k, i) /\ r # q /\ ListMap'[r][k][i] = ListMap[r][k][i]
      BY <1>10, <2>1
    <3>2. ListMap[r][k][i] \notin ps
      BY <1>9, <3>1 DEF PoolInv, InPlaces
    <3>3. /\ ListMap[r][k][i] \in DOMAIN packets
          /\ packets[ListMap[r][k][i]].shape = k
          /\ \A u \in Threads : ListMap[r][k][i] \notin hand[u]
      BY <3>1 DEF PoolInv, InPlaces
    <3> QED BY <1>5, <1>12, <3>1, <3>2, <3>3
  <2>2. ASSUME NEW r, NEW k, NEW i, NEW o, NEW l, NEW j, IsPlace(r, k, i)', IsPlace(o, l, j)',
               ListMap'[r][k][i] = ListMap'[o][l][j]
        PROVE  r = o /\ k = l /\ i = j
    <3>1. /\ IsPlace(r, k, i) /\ IsPlace(o, l, j)
          /\ ListMap[r][k][i] = ListMap[o][l][j]
      BY <1>10, <2>2
    <3> QED BY <3>1 DEF PoolInv, InPlaces
  <2> QED BY <2>1, <2>2 DEF InPlaces
<1>16. NoneLost'
  <2> SUFFICES ASSUME NEW o \in DOMAIN packets'
               PROVE  \/ \E u \in Threads : o \in hand'[u]
                      \/ \E r, k, i : IsPlace(r, k, i)' /\ o = ListMap'[r][k][i]
    BY DEF NoneLost
  <2>1. o \in DOMAIN packets /\ o \notin ps
    BY <1>12
  <2>2. CASE \E u \in Threads : o \in hand[u]
    BY <1>5, <2>2
  <2>3. ASSUME NEW r, NEW k, NEW i, IsPlace(r, k, i), o = ListMap[r][k][i]
        PROVE  IsPlace(r, k, i)' /\ o = ListMap'[r][k][i]
    BY <1>9, <1>11, <2>1, <2>3
  <2> QED BY <2>1, <2>2, <2>3 DEF PoolInv, NoneLost
<1>17. HasData'
  BY <1>5, <1>12 DEF PoolInv, HasData, Bytes
<1>18. ListsFit'
  <2>1. Cardinality(DOMAIN ListMap'[Instance']) = 0
    BY <1>1, <1>5, <1>7, EmptyMap
  <2>2. MapSize' \in Nat
    BY <1>5, <1>6
  <2> QED BY <2>1, <2>2 DEF ListsFit
<1>19. Pools'
  <2>1. Creating' = Creating /\ Sizing' = Sizing
    BY <1>21 DEF Creating, Sizing
  <2>2. Len(ListMap) # 0
    BY <1>1
  <2>3. Len(ListMap) = 1 =>
          \/ \E u \in Threads : Sizing = {u} /\ MapSize' = 0 /\ purged' = 0
          \/ Sizing = {} /\ MapSize' = Limit - purged'
    <3>1. Len(ListMap) = 1 =>
            \/ \E u \in Threads : Sizing = {u} /\ MapSize = 0 /\ purged = 0
            \/ Sizing = {} /\ MapSize = Limit - purged
      BY DEF PoolInv, Pools
    <3>2. MapSize = 0 /\ purged = 0 => MapSize' = 0 /\ purged' = 0
      BY <1>5, <1>6
    <3>3. MapSize = Limit - purged => MapSize' = Limit - purged'
      BY <1>5, <1>6
    <3> QED BY <3>1, <3>2, <3>3
  <2>4. \A u \in Threads : at'[u] = at[u] \/ at'[u] = "idle"
    BY <1>21
  <2>5. /\ \A u \in Threads : at'[u] \in {"size", "return", "purge"} => Instance' # 0
        /\ \A u \in Threads : at'[u] = "ready" => pool'[u] \in 1 .. Len(ListMap')
    BY <1>5, <1>7, <2>4 DEF PoolInv, Pools
  <2> QED BY <1>5, <1>7, <2>1, <2>2, <2>3, <2>5 DEF PoolInv, Pools
<1>20. PoolShape'
  <2>1. MapSize' \in 0 .. Limit /\ purged' \in Nat
    BY <1>5, <1>6
  <2> QED BY <1>5, <1>7, <1>8, <1>12, <1>21, <2>1 DEF PoolInv, PoolShape
<1> QED BY <1>14, <1>15, <1>16, <1>17, <1>18, <1>19, <1>20 DEF PoolInv

LEMMA PurgeTestsKeeps ==
  ASSUME PoolInv, NEW t \in Threads, DeleteInstanceTests(t) PROVE PoolInv'
<1>1. /\ Goes(t, "idle", "purge") /\ Instance # 0
      /\ UNCHANGED <<Instance, MapSize, nextPacket, pool, purged>> /\ UNCHANGED ListMap
      /\ UNCHANGED <<packets, hand>> /\ UNCHANGED starved
  BY DEF DeleteInstanceTests
<1>2. /\ at[t] = "idle" /\ at'[t] = "purge"
      /\ at' \in [Threads -> GetStages] /\ \A u \in Threads \ {t} : at'[u] = at[u]
  BY <1>1, StageGoes DEF PoolInv, GetStages
<1>3. InPlaces' /\ InHands' /\ NoneLost' /\ HasData'
  BY <1>1, PlacesStay, OwnersStay
<1>4. Creating' = Creating /\ Sizing' = Sizing
  BY <1>2 DEF Creating, Sizing
<1>5. Pools'
  <2>1. \A u \in Threads : at'[u] = "ready" => pool'[u] \in 1 .. Len(ListMap')
    BY <1>1, <1>2 DEF PoolInv, Pools
  <2> QED BY <1>1, <1>4, <2>1 DEF PoolInv, Pools
<1>6. ListsFit' /\ PoolShape'
  BY <1>1, <1>2 DEF PoolInv, ListsFit, PoolShape
<1> QED BY <1>3, <1>5, <1>6 DEF PoolInv

-----------------------------------------------------------------------------
LEMMA TestsKeeps ==
  ASSUME PoolInv, NEW t \in Threads, GetInstanceTests(t) PROVE PoolInv'
<1>1. /\ Goes(t, "idle", IF Instance = 0 THEN "create" ELSE "return")
      /\ UNCHANGED <<Instance, MapSize, nextPacket, pool, purged>> /\ UNCHANGED ListMap
      /\ UNCHANGED <<packets, hand>> /\ UNCHANGED starved
  BY DEF GetInstanceTests
<1>2. /\ at[t] = "idle" /\ at'[t] = (IF Instance = 0 THEN "create" ELSE "return")
      /\ at' \in [Threads -> GetStages] /\ \A u \in Threads \ {t} : at'[u] = at[u]
  BY <1>1, StageGoes DEF PoolInv, GetStages
<1>3. InPlaces' /\ InHands' /\ NoneLost' /\ HasData'
  BY <1>1, PlacesStay, OwnersStay
<1>4. Sizing' = Sizing
  BY <1>2 DEF Sizing
<1>5. Len(ListMap) + Cardinality(Creating') <= Cardinality(Threads)
  <2>1. CASE Instance = 0
    <3>1. Creating' \subseteq Threads
      BY DEF Creating
    <3>2. Cardinality(Creating') <= Cardinality(Threads) /\ Cardinality(Creating') \in Nat
      BY <3>1, PoolAssumption, FS_Subset, FS_CardinalityType
    <3>3. Len(ListMap) = 0
      BY <2>1 DEF PoolInv, Pools
    <3> QED BY <3>2, <3>3
  <2>2. CASE Instance # 0
    <3>1. Creating' = Creating
      BY <1>2, <2>2 DEF Creating
    <3> QED BY <3>1 DEF PoolInv, Pools
  <2> QED BY <2>1, <2>2
<1>6. Pools'
  <2>1. \A u \in Threads : at'[u] \in {"size", "return", "purge"} => Instance' # 0
    BY <1>1, <1>2 DEF PoolInv, Pools
  <2>2. \A u \in Threads : at'[u] = "ready" => pool'[u] \in 1 .. Len(ListMap')
    BY <1>1, <1>2 DEF PoolInv, Pools
  <2> QED BY <1>1, <1>4, <1>5, <2>1, <2>2 DEF PoolInv, Pools
<1>7. ListsFit' /\ PoolShape'
  BY <1>1, <1>2 DEF PoolInv, ListsFit, PoolShape
<1> QED BY <1>3, <1>6, <1>7 DEF PoolInv

LEMMA CreatesPoolKeeps ==
  ASSUME PoolInv, NEW t \in Threads, GetInstanceCreates(t) PROVE PoolInv'
<1>1. /\ Goes(t, "create", "size") /\ ListMap' = Append(ListMap, <<>>)
      /\ Instance' = Len(ListMap')
      /\ UNCHANGED <<MapSize, nextPacket, pool, purged>>
      /\ UNCHANGED <<packets, hand>> /\ UNCHANGED starved
  BY DEF GetInstanceCreates
<1>2. /\ at[t] = "create" /\ at'[t] = "size"
      /\ at' \in [Threads -> GetStages] /\ \A u \in Threads \ {t} : at'[u] = at[u]
  BY <1>1, StageGoes DEF PoolInv, GetStages
<1>3. PICK n \in Nat : n = Len(ListMap)
  BY DEF PoolInv, PoolShape
<1>4. /\ ListMap' \in Seq(ListMaps) /\ Len(ListMap') = n + 1 /\ ListMap'[n + 1] = <<>>
      /\ \A r \in 1 .. n : ListMap'[r] = ListMap[r]
  BY <1>1, <1>3, EmptyMap DEF PoolInv, PoolShape
<1>5. \A r \in 1 .. n + 1 : r = n + 1 \/ r \in 1 .. n
  OBVIOUS
<1>6. \A r \in 1 .. Len(ListMap') : IsFiniteSet(DOMAIN ListMap'[r])
  BY <1>3, <1>4, <1>5, EmptyMap DEF PoolInv, PoolShape
<1>7. /\ \A r, k, i : IsPlace(r, k, i)' <=> IsPlace(r, k, i)
      /\ \A r, k, i : IsPlace(r, k, i) => ListMap'[r][k][i] = ListMap[r][k][i]
  <2>1. ASSUME NEW r, NEW k, NEW i, IsPlace(r, k, i)'
        PROVE  IsPlace(r, k, i)
    <3>1. r \in 1 .. n + 1 /\ k \in DOMAIN ListMap'[r] /\ i \in 1 .. Len(ListMap'[r][k])
      BY <1>4, <2>1 DEF IsPlace
    <3>2. r # n + 1
      BY <1>4, <3>1, EmptyMap
    <3> QED BY <1>3, <1>4, <1>5, <3>1, <3>2 DEF IsPlace
  <2>2. ASSUME NEW r, NEW k, NEW i, IsPlace(r, k, i)
        PROVE  IsPlace(r, k, i)' /\ ListMap'[r][k][i] = ListMap[r][k][i]
    <3>1. r \in 1 .. n /\ r \in 1 .. n + 1
      BY <1>3, <2>2 DEF IsPlace
    <3> QED BY <1>4, <2>2, <3>1 DEF IsPlace
  <2> QED BY <2>1, <2>2
<1>8. InPlaces' /\ InHands' /\ NoneLost' /\ HasData'
  BY <1>1, <1>7, OwnersStay
<1>9. Cardinality(Creating') = Cardinality(Creating) - 1 /\ Cardinality(Creating) \in Nat
  <2>1. Creating' = Creating \ {t} /\ t \in Creating
    BY <1>2 DEF Creating
  <2>2. IsFiniteSet(Creating)
    BY PoolAssumption, FS_Subset DEF Creating
  <2> QED BY <2>1, <2>2, FS_RemoveElement, FS_CardinalityType
<1>10. Sizing' = Sizing \cup {t}
  BY <1>2 DEF Sizing
<1>11. Pools'
  <2>1. Instance' # 0 /\ Instance' = n + 1 /\ Len(ListMap') # 0
    BY <1>1, <1>3, <1>4
  <2>2. \A u \in Threads : at'[u] = "ready" => pool'[u] \in 1 .. Len(ListMap')
    <3>1. \A u \in Threads : at[u] = "ready" => pool[u] \in 1 .. n
      BY <1>3 DEF PoolInv, Pools
    <3>2. \A u \in Threads : at'[u] = "ready" => pool[u] \in 1 .. n
      BY <1>2, <3>1
    <3>3. \A u \in Threads : at'[u] = "ready" => pool[u] \in 1 .. n + 1
      BY <3>2
    <3> QED BY <1>1, <1>4, <3>3
  <2>3. \A u \in Threads : pool'[u] \in 0 .. Len(ListMap')
    <3>1. \A u \in Threads : pool[u] \in 0 .. n
      BY <1>3 DEF PoolInv, Pools
    <3>2. \A u \in Threads : pool[u] \in 0 .. n + 1
      BY <3>1
    <3> QED BY <1>1, <1>4, <3>2
  <2>4. Len(ListMap') + Cardinality(Creating') <= Cardinality(Threads)
    <3>1. n + Cardinality(Creating) <= Cardinality(Threads) /\ Cardinality(Threads) \in Nat
      BY <1>3, PoolAssumption, FS_CardinalityType DEF PoolInv, Pools
    <3> QED BY <1>4, <1>9, <3>1
  <2>5. Len(ListMap') = 1 => Sizing' = {t} /\ MapSize' = 0 /\ purged' = 0
    <3>1. Len(ListMap') = 1 => n = 0
      <4>1. Len(ListMap') = n + 1
        BY <1>4
      <4> QED BY <1>3, <4>1
    <3> QED BY <1>1, <1>3, <1>10, <3>1 DEF PoolInv, Pools
  <2> QED BY <2>1, <2>2, <2>3, <2>4, <2>5 DEF Pools
<1>12. ListsFit'
  <2>1. Instance' = n + 1
    BY <1>1, <1>4
  <2>2. Cardinality(DOMAIN ListMap'[Instance']) = 0
    BY <1>4, <2>1, EmptyMap
  <2>3. MapSize' \in Nat
    BY <1>1, PoolAssumption DEF PoolInv, PoolShape
  <2> QED BY <2>2, <2>3 DEF ListsFit
<1>13. PoolShape'
  <2>1. Instance' \in 0 .. Len(ListMap')
    BY <1>1, <1>4
  <2> QED BY <1>1, <1>2, <1>4, <1>6, <2>1 DEF PoolInv, PoolShape
<1> QED BY <1>8, <1>11, <1>12, <1>13 DEF PoolInv

LEMMA SizesKeeps ==
  ASSUME PoolInv, NEW t \in Threads, GetInstanceSizes(t) PROVE PoolInv'
<1>1. /\ Goes(t, "size", "return") /\ MapSize' = Limit
      /\ UNCHANGED <<Instance, nextPacket, pool, purged>> /\ UNCHANGED ListMap
      /\ UNCHANGED <<packets, hand>> /\ UNCHANGED starved
  BY DEF GetInstanceSizes
<1>2. /\ at[t] = "size" /\ at'[t] = "return"
      /\ at' \in [Threads -> GetStages] /\ \A u \in Threads \ {t} : at'[u] = at[u]
  BY <1>1, StageGoes DEF PoolInv, GetStages
<1>3. InPlaces' /\ InHands' /\ NoneLost' /\ HasData'
  BY <1>1, PlacesStay, OwnersStay
<1>4. Creating' = Creating /\ Sizing' = Sizing \ {t} /\ t \in Sizing
  BY <1>2 DEF Creating, Sizing
<1>5. Instance # 0 /\ Len(ListMap) # 0
  BY <1>2 DEF PoolInv, Pools
<1>6. Limit \in Nat /\ MapSize \in 0 .. Limit
  BY PoolAssumption DEF PoolInv, PoolShape
<1>7. Pools'
  <2>1. Len(ListMap) = 1 => Sizing' = {} /\ MapSize' = Limit - purged'
    <3>1. Len(ListMap) = 1 => \E u \in Threads : Sizing = {u} /\ purged = 0
      BY <1>4 DEF PoolInv, Pools
    <3>2. Limit = Limit - 0
      BY <1>6
    <3> QED BY <1>1, <1>4, <3>1, <3>2
  <2>2. \A u \in Threads : at'[u] = "ready" => pool'[u] \in 1 .. Len(ListMap')
    BY <1>1, <1>2 DEF PoolInv, Pools
  <2> QED BY <1>1, <1>4, <1>5, <2>1, <2>2 DEF PoolInv, Pools
<1>8. ListsFit'
  <2>1. Cardinality(DOMAIN ListMap[Instance]) <= MapSize
    BY <1>5 DEF PoolInv, ListsFit
  <2>2. Cardinality(DOMAIN ListMap[Instance]) \in Nat
    BY <1>5, FS_CardinalityType DEF PoolInv, PoolShape
  <2>3. Cardinality(DOMAIN ListMap[Instance]) <= Limit
    BY <1>6, <2>1, <2>2
  <2> QED BY <1>1, <2>3 DEF ListsFit
<1>9. PoolShape'
  BY <1>1, <1>2, <1>6 DEF PoolInv, PoolShape
<1> QED BY <1>3, <1>7, <1>8, <1>9 DEF PoolInv

LEMMA ReturnsKeeps ==
  ASSUME PoolInv, NEW t \in Threads, GetInstanceReturns(t) PROVE PoolInv'
<1>1. /\ Goes(t, "return", "ready") /\ pool' = [pool EXCEPT ![t] = Instance]
      /\ UNCHANGED <<Instance, MapSize, nextPacket, purged>> /\ UNCHANGED ListMap
      /\ UNCHANGED <<packets, hand>> /\ UNCHANGED starved
  BY DEF GetInstanceReturns
<1>2. /\ at[t] = "return" /\ at'[t] = "ready"
      /\ at' \in [Threads -> GetStages] /\ \A u \in Threads \ {t} : at'[u] = at[u]
  BY <1>1, StageGoes DEF PoolInv, GetStages
<1>3. InPlaces' /\ InHands' /\ NoneLost' /\ HasData'
  BY <1>1, PlacesStay, OwnersStay
<1>4. Creating' = Creating /\ Sizing' = Sizing
  BY <1>2 DEF Creating, Sizing
<1>5. Instance \in 1 .. Len(ListMap) /\ Instance \in Nat
  BY <1>2 DEF PoolInv, Pools, PoolShape
<1>6. /\ pool' \in [Threads -> Nat] /\ pool'[t] = Instance
      /\ \A u \in Threads \ {t} : pool'[u] = pool[u]
  BY <1>1, <1>5 DEF PoolInv, PoolShape
<1>7. Pools'
  <2>1. \A u \in Threads : at'[u] = "ready" => pool'[u] \in 1 .. Len(ListMap')
    BY <1>1, <1>2, <1>5, <1>6 DEF PoolInv, Pools
  <2>2. \A u \in Threads : pool'[u] \in 0 .. Len(ListMap')
    <3>1. Instance \in 0 .. Len(ListMap)
      BY DEF PoolInv, PoolShape
    <3> QED BY <1>1, <1>6, <3>1 DEF PoolInv, Pools
  <2>3. \A u \in Threads : at'[u] \in {"size", "return", "purge"} => Instance' # 0
    BY <1>1, <1>5
  <2> QED BY <1>1, <1>4, <2>1, <2>2, <2>3 DEF PoolInv, Pools
<1>8. ListsFit' /\ PoolShape'
  BY <1>1, <1>2, <1>6 DEF PoolInv, ListsFit, PoolShape
<1> QED BY <1>3, <1>7, <1>8 DEF PoolInv

LEMMA PoolInitInv == PpInit => PoolInv
<1> SUFFICES ASSUME PpInit PROVE PoolInv
  OBVIOUS
<1>1. Len(ListMap) = 0 /\ ListMap \in Seq(ListMaps)
  BY DEF PpInit
<1>2. \A r, k, i : ~IsPlace(r, k, i)
  BY <1>1 DEF IsPlace
<1>3. DOMAIN packets = {} /\ packets \in [DOMAIN packets -> Packets]
  BY EmptyMap DEF PpInit
<1>4. Creating = {} /\ Sizing = {}
  BY DEF PpInit, Creating, Sizing
<1>5. Cardinality(Creating) = 0 /\ Cardinality(Threads) \in Nat
  BY <1>4, FS_EmptySet, FS_CardinalityType, PoolAssumption
<1>6. PoolShape
  <2>1. MapSize \in 0 .. Limit
    BY PoolAssumption DEF PpInit
  <2>2. /\ \A q \in 1 .. Len(ListMap) : IsFiniteSet(DOMAIN ListMap[q])
        /\ nextPacket \in Nat \ {0} /\ DOMAIN packets \subseteq 1 .. nextPacket - 1
        /\ Instance \in 0 .. Len(ListMap)
    BY <1>1, <1>3 DEF PpInit
  <2>3. /\ hand \in [Threads -> SUBSET Nat] /\ at \in [Threads -> GetStages]
        /\ pool \in [Threads -> Nat] /\ starved \in BOOLEAN /\ purged \in Nat
    BY DEF PpInit, GetStages
  <2> QED BY <1>1, <1>3, <2>1, <2>2, <2>3 DEF PoolShape
<1>7. InPlaces /\ InHands /\ NoneLost /\ HasData
  BY <1>2, <1>3 DEF PpInit, InPlaces, InHands, NoneLost, HasData
<1>8. Pools /\ ListsFit
  BY <1>1, <1>4, <1>5 DEF PpInit, Pools, ListsFit
<1> QED BY <1>6, <1>7, <1>8 DEF PoolInv

\* The packets, the lists and the pools keep to PoolInv.
THEOREM PoolInvariance == PpSpec => []PoolInv
<1>1. PpInit => PoolInv
  BY PoolInitInv
<1>2. PoolInv /\ [PpNext]_poolVars => PoolInv'
  <2> SUFFICES ASSUME PoolInv, [PpNext]_poolVars PROVE PoolInv'
    OBVIOUS
  <2>1. CASE UNCHANGED poolVars
    <3>1. /\ UNCHANGED <<Instance, MapSize, at, pool, purged>> /\ UNCHANGED ListMap
          /\ UNCHANGED <<packets, hand>> /\ UNCHANGED starved /\ UNCHANGED nextPacket
      BY <2>1 DEF poolVars
    <3>2. InPlaces' /\ InHands' /\ NoneLost' /\ HasData'
      BY <3>1, PlacesStay, OwnersStay
    <3>3. Pools' /\ ListsFit'
      BY <3>1, PoolsStay
    <3>4. PoolShape'
      BY <3>1 DEF PoolInv, PoolShape
    <3> QED BY <3>2, <3>3, <3>4 DEF PoolInv
  <2>2. ASSUME NEW t \in Threads, GetInstance(t) PROVE PoolInv'
    BY <2>2, TestsKeeps, CreatesPoolKeeps, SizesKeeps, ReturnsKeeps DEF GetInstance
  <2>3. ASSUME NEW t \in Threads, DeleteInstance(t) PROVE PoolInv'
    BY <2>3, PurgeTestsKeeps, PurgesKeeps DEF DeleteInstance
  <2>4. ASSUME NEW t \in Threads, NEW s \in Shapes, PoolNewFinds(t, s) \/ PoolNewCreates(t, s)
        PROVE  PoolInv'
    BY <2>4, FindsKeeps, PoolCreatesKeeps
  <2>5. ASSUME NEW t \in Threads, NEW p \in DOMAIN packets,
               PoolDelete(t, p) \/ Delete(t, p) \/ NullPacket(t, p)
        PROVE  PoolInv'
    BY <2>5, PoolDeleteMaintains, DeleteKeeps, NullKeeps
  <2> QED BY <2>1, <2>2, <2>3, <2>4, <2>5 DEF PpNext
<1> QED BY <1>1, <1>2, PTL DEF PpSpec

\* What is pooled is what is in a place.
LEMMA PooledArePlaces ==
  ASSUME PoolShape
  PROVE  \A x : x \in Pooled <=> \E q, tag, i : IsPlace(q, tag, i) /\ x = <<q, tag, i>>
<1>1. DOMAIN ListMap = 1 .. Len(ListMap)
  BY DEF PoolShape
<1>2. \A q \in DOMAIN ListMap : \A tag \in DOMAIN ListMap[q] :
        DOMAIN ListMap[q][tag] = 1 .. Len(ListMap[q][tag])
  <2> SUFFICES ASSUME NEW q \in DOMAIN ListMap, NEW tag \in DOMAIN ListMap[q]
               PROVE  DOMAIN ListMap[q][tag] = 1 .. Len(ListMap[q][tag])
    OBVIOUS
  <2>1. ListMap[q] \in ListMaps
    BY DEF PoolShape
  <2> QED BY <2>1, MapTypes
<1>3. \A x : x \in Pooled <=>
        \E q \in DOMAIN ListMap : \E tag \in DOMAIN ListMap[q] :
          \E i \in DOMAIN ListMap[q][tag] : x = <<q, tag, i>>
  BY DEF Pooled, Places
<1> QED BY <1>1, <1>2, <1>3 DEF IsPlace

\* For any number of threads and shapes: a packet is in one hand or in one list,
\* alive and under its tag, has the room its tag promises, and the lists and
\* pools are as many as PoolMutex and the race for the first pool allow.
THEOREM PacketsHaveOneOwner == PpSpec => []PoolSound
<1>1. PoolInv => PoolSound
  <2> SUFFICES ASSUME PoolInv PROVE PoolSound
    OBVIOUS
  <2>1. \A x : x \in Pooled <=> \E q, tag, i : IsPlace(q, tag, i) /\ x = <<q, tag, i>>
    BY PooledArePlaces DEF PoolInv
  <2>2. ASSUME NEW x \in Pooled, NEW y \in Pooled, TagAt(x) = TagAt(y) PROVE x = y
    <3>1. PICK q, tag, i : IsPlace(q, tag, i) /\ x = <<q, tag, i>>
      BY <2>1
    <3>2. PICK r, uag, j : IsPlace(r, uag, j) /\ y = <<r, uag, j>>
      BY <2>1
    <3>3. ListMap[q][tag][i] = ListMap[r][uag][j]
      BY <2>2, <3>1, <3>2 DEF TagAt
    <3> QED BY <3>1, <3>2, <3>3 DEF PoolInv, InPlaces
  <2>3. ASSUME NEW x \in Pooled
        PROVE  /\ TagAt(x) \in DOMAIN packets /\ packets[TagAt(x)].shape = x[2]
               /\ \A t \in Threads : TagAt(x) \notin hand[t]
    <3>1. PICK q, tag, i : IsPlace(q, tag, i) /\ x = <<q, tag, i>>
      BY <2>1
    <3>2. TagAt(x) = ListMap[q][tag][i] /\ x[2] = tag
      BY <3>1 DEF TagAt
    <3> QED BY <3>1, <3>2 DEF PoolInv, InPlaces
  <2>4. ASSUME NEW p \in DOMAIN packets
        PROVE  (\E t \in Threads : p \in hand[t]) \/ (\E x \in Pooled : p = TagAt(x))
    <3>1. ASSUME NEW q, NEW tag, NEW i, IsPlace(q, tag, i), p = ListMap[q][tag][i]
          PROVE  \E x \in Pooled : p = TagAt(x)
      <4>1. <<q, tag, i>> \in Pooled /\ TagAt(<<q, tag, i>>) = p
        BY <2>1, <3>1 DEF TagAt
      <4> QED BY <4>1
    <3> QED BY <3>1 DEF PoolInv, NoneLost
  <2>5. DOMAIN packets = (UNION {hand[t] : t \in Threads}) \cup {TagAt(x) : x \in Pooled}
    BY <2>3, <2>4 DEF PoolInv, InHands
  <2>6. \A t, u \in Threads : t # u => hand[t] \cap hand[u] = {}
    BY DEF PoolInv, InHands
  <2>7. \A t \in Threads : hand[t] \cap {TagAt(x) : x \in Pooled} = {}
    BY <2>3
  <2>8. \A p \in DOMAIN packets :
          packets[p].set /\ ~starved => packets[p].room >= Bytes(packets[p].shape)
    BY DEF PoolInv, HasData
  <2>9. Instance # 0 => Cardinality(DOMAIN ListMap[Instance]) <= MapSize
    BY DEF PoolInv, ListsFit
  <2>10. Len(ListMap) <= Cardinality(Threads)
    <3>1. IsFiniteSet(Creating)
      BY PoolAssumption, FS_Subset DEF Creating
    <3>2. Cardinality(Creating) \in Nat /\ Cardinality(Threads) \in Nat /\ Len(ListMap) \in Nat
      BY <3>1, PoolAssumption, FS_CardinalityType DEF PoolInv, PoolShape
    <3> QED BY <3>2 DEF PoolInv, Pools
  <2>11. Len(ListMap) = 1 => MapSize \in {0, Limit - purged}
    BY DEF PoolInv, Pools
  <2> QED BY <2>2, <2>3, <2>5, <2>6, <2>7, <2>8, <2>9, <2>10, <2>11 DEF PoolSound
<1> QED BY <1>1, PoolInvariance, PTL

\* The variables of PacketPool keep to their types.
THEOREM PoolTypes == PpSpec => []PpTypeOK
<1>1. PoolInv => PpTypeOK
  <2> SUFFICES ASSUME PoolInv PROVE PpTypeOK
    OBVIOUS
  <2>1. \A p \in DOMAIN packets :
          packets[p].room \in Nat /\ packets[p].set \in BOOLEAN /\ packets[p].shape[2] \in Nat
    <3>1. \A p \in DOMAIN packets : packets[p] \in Packets
      BY DEF PoolInv, PoolShape
    <3> QED BY <3>1 DEF Packets, Tags
  <2> QED BY <2>1 DEF PoolInv, PoolShape, Pools, PpTypeOK, GetStages
<1> QED BY <1>1, PoolInvariance, PTL

-----------------------------------------------------------------------------
(***************************************************************************)
(* KinesisPut.  The invariant says of every place of the loop how many     *)
(* tries the packets so far have cost, and how much of the time lost while *)
(* reading and failing has already been made up for.                       *)
(***************************************************************************)
Times == Nat \cup {NoTime}

PutShape ==
  /\ kind \in {"video", "audio"} /\ format \in Formats
  /\ upAt \in {"open", "wait", "spin", "init", "packet", "sample", "put", "read", "done"}
  /\ packet \in [reads : Nat, n : Nat, time : Times, known : Nat, size : Nat]
  /\ now \in Nat /\ now >= Epoch
  /\ lastPts \in Times /\ lastTime \in Times /\ timeBegin \in Nat
  /\ frameIndex \in Nat /\ attempts \in 0 .. Attempts
  /\ accepted \in Seq([n : Nat, index : Nat, stamp : Times])
  /\ first \in [pts : Times, time : Nat]
  /\ free \in Nat /\ delays \in Nat /\ stalled \in BOOLEAN /\ untimed \in BOOLEAN

\* Packets the loop is done with, tries of the one in hand, packets paced.
Done == IF upAt \in {"sample", "put"} THEN packet.n - 1 ELSE packet.n
Tried == IF upAt = "put" THEN Attempts - attempts ELSE 0
Paced == IF upAt = "sample" THEN packet.n - 1 ELSE packet.n

Counted ==
  /\ packet.n <= packet.reads /\ packet.reads <= MaxReads
  /\ upAt \in {"open", "wait"} => packet.reads = 0
  /\ upAt \in {"init", "packet"} => packet.n < packet.reads
  /\ upAt \in {"sample", "put"} => packet.n > 0
  /\ IF upAt = "put" THEN attempts > 0 ELSE attempts = 0
  /\ frameIndex <= Done * Attempts + Tried

LastAccepted == IF accepted = <<>> THEN [n |-> 0, index |-> -1] ELSE accepted[Len(accepted)]

Indexed ==
  /\ LastAccepted.n <= Done
  /\ frameIndex = LastAccepted.index + 1 + (Done - LastAccepted.n) * Attempts + Tried
  /\ IndexTells

\* What the stamps of the frames are taken from.
StampClock == IF kind = "video" THEN packet.known ELSE now

Stamped ==
  /\ packet.time \in {NoTime, packet.known}
  /\ \A i \in 1 .. Len(accepted) : accepted[i].stamp <= StampClock
  /\ \A i, j \in 1 .. Len(accepted) :
       i < j /\ NoTime \notin {accepted[i].stamp, accepted[j].stamp}
         => accepted[i].stamp <= accepted[j].stamp

Causes ==
  \/ delays > 0 \/ Steps \cap 1 .. VideoSlack - 1 # {}
  \/ packet.known - first.pts > SleepWrap

Timely ==
  /\ first.time = 0 =>
       first.pts = NoTime /\ timeBegin = 0 /\ ~stalled /\ (kind = "audio" => lastTime = NoTime)
  /\ first.time # 0 /\ ~untimed =>
       /\ NoTime \notin {first.pts, lastPts, lastTime}
       /\ first.pts <= lastPts /\ lastPts <= packet.known
       /\ lastTime <= now /\ now - lastTime <= delays
       /\ lastPts < packet.known => \E s \in Steps : s > 0 /\ s <= packet.known - lastPts
       /\ stalled \/ Lead \in (now - lastTime) - delays .. Pause * Paced + free
       /\ stalled => Causes

Headed ==
  header = <<>> \/ (upAt \in {"sample", "put"} /\ header = WriteADTSHeader(packet.size, format))

PutInv == PutShape /\ Counted /\ Indexed /\ Stamped /\ Timely /\ Headed


LEMMA PutConstants ==
  /\ VideoSlack \in Nat /\ VideoSlack > 0 /\ SleepWrap \in Nat /\ SleepWrap > 0
  /\ Attempts \in Nat /\ Attempts > 0 /\ Epoch \in Nat /\ Epoch > 0
  /\ MaxReads \in Nat /\ MaxReads > 0
  /\ Steps \subseteq Nat /\ Delays \subseteq Nat /\ Overflows \subseteq Nat /\ Sizes \subseteq Nat
BY PutAssumption

LEMMA TimesAre == Times \subseteq Int /\ Nat \subseteq Times /\ \A t \in Times : t # NoTime => t \in Nat
BY DEF Times, NoTime

LEMMA SleptIs ==
  ASSUME NEW x \in Int
  PROVE  Slept(x) \in Nat /\ (x \in 0 .. SleepWrap - 1 => Slept(x) = x)
<1>1. SleepWrap \in Nat /\ SleepWrap > 0
  BY PutConstants
<1> QED BY <1>1 DEF Slept

\* One more packet means as many tries more.
LEMMA OneMore ==
  ASSUME NEW k \in Int PROVE (k + 1) * Attempts = k * Attempts + Attempts /\ k * Attempts \in Int
<1>1. Attempts \in Int
  BY PutConstants
<1> QED BY <1>1

LEMMA MoreTries ==
  ASSUME NEW k \in Int, NEW m \in Int, k <= m PROVE k * Attempts <= m * Attempts
<1>1. Attempts \in Nat
  BY PutConstants
<1> QED BY <1>1

LEMMA PausedOnce ==
  ASSUME kind \in {"video", "audio"}, NEW k \in Int
  PROVE  Pause \in Nat /\ Pause > 0 /\ Pause * (k + 1) = Pause * k + Pause /\ Pause * k \in Int
<1>1. Pause \in Nat /\ Pause > 0
  BY PutConstants DEF Pause
<1> HIDE DEF Pause
<1> QED BY <1>1

HeaderBytes(h) == \A i \in 1 .. Len(h) : h[i] \in 0 .. 255

\* Every field of a header fits, and is read as it was written.
LEMMA HeaderIs ==
  ASSUME NEW size \in Nat, NEW f \in [profile : Int, rate : Int, channels : Int]
  PROVE  /\ HeaderBytes(WriteADTSHeader(size, f))
         /\ WriteADTSHeader(size, f) # <<>>
         /\ LET p == Parsed(WriteADTSHeader(size, f))
            IN  /\ f.profile \in 0 .. 3 => p.profile = f.profile
                /\ f.channels \in 1 .. 6 => p.channels = f.channels
                /\ size + ADTS_HEADER_SIZE < 8192 => p.length = size + ADTS_HEADER_SIZE
<1>1. PICK a \in 0 .. 15 : a = SampleIndex(f.rate)
  <2>1. Len(SampleRates) = 13
    BY DEF SampleRates
  <2>2. SampleIndex(f.rate) \in 0 .. 15
    <3>1. CASE \E i \in 1 .. Len(SampleRates) : SampleRates[i] = f.rate
      <4>1. PICK i \in 1 .. 13 : i = CHOOSE j \in 1 .. Len(SampleRates) : SampleRates[j] = f.rate
        BY <2>1, <3>1
      <4>2. SampleIndex(f.rate) = i - 1
        BY <3>1, <4>1 DEF SampleIndex
      <4> QED BY <4>2
    <3>2. CASE ~ \E i \in 1 .. Len(SampleRates) : SampleRates[i] = f.rate
      BY <3>2 DEF SampleIndex
    <3> QED BY <3>1, <3>2
  <2> QED BY <2>2
<1>2. PICK o \in Nat : o = ProfileOf(f.profile) /\ (f.profile \in 0 .. 3 => o = f.profile)
  <2>1. ProfileOf(f.profile) \in Nat /\ (f.profile \in 0 .. 3 => ProfileOf(f.profile) = f.profile)
    BY DEF ProfileOf
  <2> QED BY <2>1
<1>3. PICK c \in Int : c = Channel(f.channels) /\ (f.channels \in 1 .. 6 => c = f.channels)
  <2>1. f.channels \in Int
    OBVIOUS
  <2>2. Channel(f.channels) \in Int /\ (f.channels \in 1 .. 6 => Channel(f.channels) = f.channels)
    BY <2>1 DEF Channel
  <2> QED BY <2>2
<1>4. PICK l \in Int : /\ l = AdtsLength(size) /\ 0 <= l /\ l < 8192
                       /\ size + 7 < 8192 => l = size + 7
  <2>1. PICK k \in Int : k = 7 + size
    OBVIOUS
  <2>0. k >= 7
    BY <2>1
  <2>2. k % 8192 \in Int /\ 0 <= k % 8192 /\ k % 8192 < 8192 /\ (k < 8192 => k % 8192 = k)
    BY <2>0
  <2>3. AdtsLength(size) = k % 8192
    BY <2>1 DEF AdtsLength, ADTS_HEADER_SIZE
  <2> QED BY <2>0, <2>1, <2>2, <2>3
<1> DEFINE h == <<255, 241, (o % 4) * 64 + a * 4 + ((c \div 4) % 2), (c % 4) * 64 + (l \div 2048),
                  (l \div 8) % 256, (l % 8) * 32 + 31, 252>>
<1>5. WriteADTSHeader(size, f) = h
  BY <1>1, <1>2, <1>3, <1>4 DEF WriteADTSHeader
<1>6a. PICK o4 \in 0 .. 3 : o4 = o % 4
  OBVIOUS
<1>6b. PICK c4 \in 0 .. 3 : c4 = c % 4
  OBVIOUS
<1>6c. PICK d \in 0 .. 1 : d = (c \div 4) % 2
  OBVIOUS
<1>6d. PICK lh \in 0 .. 3 : lh = l \div 2048
  BY <1>4
<1>6e. PICK lm \in 0 .. 255 : lm = (l \div 8) % 256
  <2>1. PICK k \in Int : k = l \div 8
    OBVIOUS
  <2>2. PICK j \in 0 .. 255 : j = k % 256
    OBVIOUS
  <2> QED BY <2>1, <2>2
<1>6f. PICK ll \in 0 .. 7 : ll = l % 8
  OBVIOUS
<1>6. /\ o4 = o % 4 /\ c4 = c % 4 /\ d = (c \div 4) % 2
      /\ lh = l \div 2048 /\ lm = (l \div 8) % 256 /\ ll = l % 8
  BY <1>6a, <1>6b, <1>6c, <1>6d, <1>6e, <1>6f
<1>7. h = <<255, 241, o4 * 64 + a * 4 + d, c4 * 64 + lh, lm, ll * 32 + 31, 252>>
  BY <1>6
<1> HIDE DEF h
<1>8. /\ Len(h) = 7 /\ h # <<>> /\ h[1] = 255 /\ h[2] = 241 /\ h[3] = o4 * 64 + a * 4 + d
      /\ h[4] = c4 * 64 + lh /\ h[5] = lm /\ h[6] = ll * 32 + 31 /\ h[7] = 252
  BY <1>7
<1>9. \A i \in 1 .. Len(h) : h[i] \in 0 .. 255
  <2>1. o4 * 64 + a * 4 + d \in 0 .. 255 /\ c4 * 64 + lh \in 0 .. 255 /\ ll * 32 + 31 \in 0 .. 255
    OBVIOUS
  <2> DEFINE bytes == 0 .. 255
  <2>2. /\ lm \in bytes /\ 255 \in bytes /\ 241 \in bytes /\ 252 \in bytes
        /\ o4 * 64 + a * 4 + d \in bytes /\ c4 * 64 + lh \in bytes /\ ll * 32 + 31 \in bytes
    BY <2>1
  <2>3. \A i \in 1 .. 7 : i = 1 \/ i = 2 \/ i = 3 \/ i = 4 \/ i = 5 \/ i = 6 \/ i = 7
    OBVIOUS
  <2> HIDE DEF bytes
  <2>4. /\ h[1] \in bytes /\ h[2] \in bytes /\ h[3] \in bytes /\ h[4] \in bytes
        /\ h[5] \in bytes /\ h[6] \in bytes /\ h[7] \in bytes
    <3>1. h[1] \in bytes /\ h[2] \in bytes /\ h[7] \in bytes
      BY <1>8, <2>2, Zenon
    <3>2. h[3] \in bytes
      <4>1. h[3] = o4 * 64 + a * 4 + d
        BY <1>8
      <4>2. o4 * 64 + a * 4 + d \in bytes
        BY <2>2
      <4> QED BY <4>1, <4>2
    <3>3. h[4] \in bytes
      <4>1. h[4] = c4 * 64 + lh
        BY <1>8
      <4>2. c4 * 64 + lh \in bytes
        BY <2>2
      <4> QED BY <4>1, <4>2
    <3>4. h[5] \in bytes
      BY <1>8, <2>2, Zenon
    <3>5. h[6] \in bytes
      <4>1. h[6] = ll * 32 + 31
        BY <1>8
      <4>2. ll * 32 + 31 \in bytes
        BY <2>2
      <4> QED BY <4>1, <4>2
    <3> QED BY <3>1, <3>2, <3>3, <3>4, <3>5
  <2>5. \A i \in 1 .. 7 : h[i] \in bytes
    BY <2>3, <2>4, Zenon
  <2>6. 1 .. Len(h) = 1 .. 7
    <3>1. Len(h) = 7
      BY <1>8
    <3> QED BY <3>1
  <2>7. \A i \in 1 .. Len(h) : h[i] \in bytes
    BY <2>5, <2>6
  <2> QED BY <2>7 DEF bytes
<1>10. /\ Parsed(h).profile = (o4 * 64 + a * 4 + d) \div 64
       /\ Parsed(h).channels = ((o4 * 64 + a * 4 + d) % 2) * 4 + ((c4 * 64 + lh) \div 64)
       /\ Parsed(h).length = ((c4 * 64 + lh) % 4) * 2048 + lm * 8 + ((ll * 32 + 31) \div 32)
  BY <1>8 DEF Parsed
<1>11. (o4 * 64 + a * 4 + d) \div 64 = o4 /\ (c4 * 64 + lh) \div 64 = c4 /\ (ll * 32 + 31) \div 32 = ll
  OBVIOUS
<1>12. (o4 * 64 + a * 4 + d) % 2 = d /\ (c4 * 64 + lh) % 4 = lh
  OBVIOUS
<1>13. f.profile \in 0 .. 3 => Parsed(h).profile = f.profile
  <2>1. o \in 0 .. 3 => o4 = o
    BY <1>6
  <2> QED BY <1>2, <1>10, <1>11, <2>1
<1>14. f.channels \in 1 .. 6 => Parsed(h).channels = f.channels
  <2>1. c \in 1 .. 6 => d * 4 + c4 = c
    BY <1>6
  <2> QED BY <1>3, <1>10, <1>11, <1>12, <2>1
<1>15. size + ADTS_HEADER_SIZE < 8192 => Parsed(h).length = size + ADTS_HEADER_SIZE
  <2>1. lh * 2048 + lm * 8 + ll = l
    BY <1>6
  <2> QED BY <1>4, <1>10, <1>11, <1>12, <2>1 DEF ADTS_HEADER_SIZE
<1>16. HeaderBytes(WriteADTSHeader(size, f))
  BY <1>5, <1>9 DEF HeaderBytes
<1> QED BY <1>5, <1>8, <1>13, <1>14, <1>15, <1>16


-----------------------------------------------------------------------------
LEMMA PutInitInv == PutInit => PutInv
<1> SUFFICES ASSUME PutInit PROVE PutInv
  OBVIOUS
<1>1. /\ Epoch \in Nat /\ Attempts \in Nat /\ Attempts > 0 /\ MaxReads \in Nat
  BY PutConstants
<1>2. PutShape
  <2>1. NoPacket \in [reads : Nat, n : Nat, time : Times, known : Nat, size : Nat]
    BY TimesAre DEF NoPacket
  <2>2. first \in [pts : Times, time : Nat]
    BY TimesAre DEF PutInit, Times
  <2>3. lastPts \in Times /\ lastTime \in Times
    BY TimesAre DEF PutInit, Times
  <2>4. accepted \in Seq([n : Nat, index : Nat, stamp : Times])
    BY DEF PutInit
  <2>5. now = Epoch /\ now \in Nat /\ now >= Epoch
    BY <1>1 DEF PutInit
  <2>6. attempts \in 0 .. Attempts
    BY <1>1 DEF PutInit
  <2> QED BY <2>1, <2>2, <2>3, <2>4, <2>5, <2>6 DEF PutInit, PutShape
<1>3. Counted
  <2>1. Done = 0 /\ Tried = 0 /\ 0 * Attempts = 0
    BY <1>1 DEF PutInit, Done, Tried, NoPacket
  <2> QED BY <1>1, <2>1 DEF PutInit, Counted, NoPacket
<1>4. Len(accepted) = 0 /\ 1 .. 0 = {} /\ accepted = <<>>
  BY DEF PutInit
<1>5. Indexed
  <2>1. Done = 0 /\ Tried = 0 /\ (0 - 0) * Attempts = 0
    BY <1>1 DEF PutInit, Done, Tried, NoPacket
  <2>2. LastAccepted.n = 0 /\ LastAccepted.index = -1 /\ frameIndex = 0
    BY DEF PutInit, LastAccepted
  <2>3. IndexTells
    BY <1>4 DEF IndexTells
  <2> QED BY <2>1, <2>2, <2>3 DEF Indexed
<1>6. Stamped
  BY <1>4 DEF PutInit, NoPacket, Stamped
<1>7. Timely
  BY DEF PutInit, Timely
<1>8. Headed
  BY DEF PutInit, Headed
<1> QED BY <1>2, <1>3, <1>5, <1>6, <1>7, <1>8 DEF PutInv

LEMMA AcceptedTypes ==
  ASSUME PutShape
  PROVE  /\ accepted \in Seq([n : Nat, index : Nat, stamp : Times]) /\ Len(accepted) \in Nat
         /\ \A i \in 1 .. Len(accepted) :
              accepted[i].n \in Nat /\ accepted[i].index \in Nat /\ accepted[i].stamp \in Int
<1>1. accepted \in Seq([n : Nat, index : Nat, stamp : Times])
  BY DEF PutShape
<1>2. ASSUME NEW i \in 1 .. Len(accepted)
      PROVE  accepted[i].n \in Nat /\ accepted[i].index \in Nat /\ accepted[i].stamp \in Int
  <2> DEFINE acceptable == [n : Nat, index : Nat, stamp : Times]
  <2>0. accepted[i] \in acceptable
    <3> HIDE DEF acceptable
    <3>1. accepted \in Seq(acceptable)
      BY <1>1 DEF acceptable
    <3> QED BY <3>1
  <2>1. PICK r \in [n : Nat, index : Nat, stamp : Times] : r = accepted[i]
    BY <2>0
  <2>2. r.n \in Nat /\ r.index \in Nat /\ r.stamp \in Times
    OBVIOUS
  <2> QED BY <2>1, <2>2, TimesAre
<1> QED BY <1>1, <1>2

\* Steps that leave the frames put so far, and what they tell, as they are.
LEMMA IndexStays ==
  ASSUME Indexed, UNCHANGED <<accepted, frameIndex>>, Done' = Done, Tried' = Tried
  PROVE  Indexed'
<1>1. LastAccepted' = LastAccepted
  BY DEF LastAccepted
<1>2. IndexTells'
  BY DEF Indexed, IndexTells
<1> QED BY <1>1, <1>2 DEF Indexed

\* Steps between two packets, or before the first.
LEMMA MovesKeep ==
  ASSUME PutInv,
         upAt \in {"open", "wait", "init", "packet", "read"},
         upAt' \in {"wait", "spin", "packet", "read", "done"},
         upAt' = "wait" => upAt = "open", upAt' = "packet" => upAt = "init",
         UNCHANGED <<kind, format, paceVars, header, packet, now, frameIndex, attempts, accepted, delays>>
  PROVE  PutInv'
<1>1. /\ UNCHANGED <<lastPts, lastTime, timeBegin, first, free, stalled, untimed>>
      /\ UNCHANGED <<kind, format, header, packet, now, frameIndex, attempts, accepted, delays>>
  BY DEF paceVars
<1>2. Done' = Done /\ Tried' = Tried /\ Paced' = Paced
  BY <1>1 DEF Done, Tried, Paced
<1>3. PutShape'
  BY <1>1 DEF PutInv, PutShape
<1>4. Counted'
  <2>1. (Done * Attempts + Tried)' = Done * Attempts + Tried
    BY <1>2
  <2>2. (frameIndex <= Done * Attempts + Tried)'
    BY <1>1, <2>1 DEF PutInv, Counted
  <2> QED BY <1>1, <2>2 DEF PutInv, Counted
<1>5. Indexed'
  BY <1>1, <1>2, IndexStays DEF PutInv
<1>6. Stamped'
  BY <1>1 DEF PutInv, Stamped, StampClock
<1>7. Timely'
  <2>1. Lead' = Lead /\ Pause' = Pause /\ Causes' = Causes
    BY <1>1 DEF Lead, Pause, Causes
  <2> QED BY <1>1, <1>2, <2>1 DEF PutInv, Timely
<1>8. Headed'
  BY <1>1 DEF PutInv, Headed
<1> QED BY <1>3, <1>4, <1>5, <1>6, <1>7, <1>8 DEF PutInv

\* A packet of the stream arrives, after a while.
LEMMA ArrivesKeep ==
  ASSUME PutInv, NEW size \in Nat, NEW time \in NextTimes, NEW d \in Nat,
         \/ upAt = "wait" /\ upAt' = "init"
         \/ upAt = "read" /\ upAt' = "packet" /\ packet.reads < MaxReads,
         Arrives(size, time), now' = now + d, delays' = delays + d,
         UNCHANGED <<kind, format, paceVars, header, frameIndex, attempts, accepted>>
  PROVE  PutInv'
<1>1. /\ UNCHANGED <<lastPts, lastTime, timeBegin, first, free, stalled, untimed>>
      /\ UNCHANGED <<kind, format, header, frameIndex, attempts, accepted>>
  BY DEF paceVars
<1>2. PICK s \in Nat : /\ time # NoTime => s \in Steps /\ time = packet.known + s
                       /\ time = NoTime => s = 0
  <2>1. CASE time = NoTime
    BY <2>1
  <2>2. CASE time # NoTime
    BY <2>2, PutConstants DEF NextTimes
  <2> QED BY <2>1, <2>2
<1>3. /\ packet \in [reads : Nat, n : Nat, time : Times, known : Nat, size : Nat]
      /\ packet.reads \in Nat /\ packet.n \in Nat /\ packet.known \in Nat
      /\ now \in Nat /\ delays \in Nat /\ lastPts \in Int /\ lastTime \in Int
      /\ Epoch \in Nat /\ now >= Epoch /\ first.pts \in Int /\ first.time \in Int
  BY PutConstants, TimesAre DEF PutInv, PutShape
<1>4. /\ packet'.reads = packet.reads + 1 /\ packet'.n = packet.n
      /\ packet'.time = time /\ packet'.size = size
      /\ packet'.known = packet.known + s
      /\ packet'.time \in {NoTime, packet'.known}
      /\ packet' \in [reads : Nat, n : Nat, time : Times, known : Nat, size : Nat]
  <2>1. packet'.known = packet.known + s
    BY <1>2, <1>3 DEF Arrives
  <2>2. packet.known + s \in Nat /\ packet.reads + 1 \in Nat
    BY <1>3
  <2>3. time \in Times /\ time \in {NoTime, packet.known + s}
    BY <1>2, <2>2 DEF Times
  <2>4. /\ packet'.reads = packet.reads + 1 /\ packet'.n = packet.n
        /\ packet'.time = time /\ packet'.size = size
    BY <1>3 DEF Arrives
  <2>5. packet' = [reads |-> packet'.reads, n |-> packet'.n, time |-> packet'.time,
                   known |-> packet'.known, size |-> packet'.size]
    BY <1>3 DEF Arrives
  <2> QED BY <1>3, <2>1, <2>2, <2>3, <2>4, <2>5
<1>5. Done' = Done /\ Tried' = Tried /\ Paced' = Paced
  BY <1>1, <1>4 DEF Done, Tried, Paced
<1>6. PutShape'
  <2>1. now' \in Nat /\ now' >= Epoch /\ delays' \in Nat
    BY <1>3
  <2> QED BY <1>1, <1>4, <2>1 DEF PutInv, PutShape
<1>7. Counted'
  <2>1. (Done * Attempts + Tried)' = Done * Attempts + Tried
    BY <1>5
  <2>2. (frameIndex <= Done * Attempts + Tried)'
    BY <1>1, <2>1 DEF PutInv, Counted
  <2>3. packet.n <= packet.reads /\ packet.reads <= MaxReads /\ (upAt = "wait" => packet.reads = 0)
    BY DEF PutInv, Counted
  <2>4. packet'.n < packet'.reads /\ packet'.reads <= MaxReads
    BY <1>3, <1>4, <2>3, PutConstants
  <2>5. packet'.n <= packet'.reads
    BY <1>3, <1>4, <2>4
  <2> QED BY <1>1, <2>2, <2>4, <2>5 DEF PutInv, Counted
<1>8. Indexed'
  BY <1>1, <1>5, IndexStays DEF PutInv
<1>9. Stamped'
  <2>1. StampClock \in Int /\ StampClock <= StampClock' /\ StampClock' \in Int
    <3>1. packet.known <= packet'.known /\ now <= now' /\ packet'.known \in Int /\ now' \in Int
      BY <1>3, <1>4
    <3>2. CASE kind = "video"
      BY <1>1, <1>3, <3>1, <3>2 DEF StampClock
    <3>3. CASE kind # "video"
      BY <1>1, <1>3, <3>1, <3>3 DEF StampClock
    <3> QED BY <3>2, <3>3
  <2>2. \A i \in 1 .. Len(accepted) : accepted[i].stamp \in Int
    BY AcceptedTypes DEF PutInv
  <2>3. \A i \in 1 .. Len(accepted) : accepted[i].stamp <= StampClock'
    BY <2>1, <2>2 DEF PutInv, Stamped
  <2> QED BY <1>1, <1>4, <2>3 DEF PutInv, Stamped
<1>10. Timely'
  <2>1. Lead' = Lead /\ Pause' = Pause
    BY <1>1 DEF Lead, Pause
  <2>2. Causes => Causes'
    <3>1. delays > 0 => delays' > 0
      BY <1>3
    <3>2. packet.known - first.pts > SleepWrap => packet'.known - first.pts > SleepWrap
      BY <1>3, <1>4, PutConstants
    <3> QED BY <1>1, <3>1, <3>2 DEF Causes
  <2>3. ASSUME first.time # 0, ~untimed
        PROVE  /\ lastPts <= packet'.known /\ lastTime <= now' /\ now' - lastTime <= delays'
               /\ (now' - lastTime) - delays' = (now - lastTime) - delays
    <3>1. lastPts <= packet.known /\ lastTime <= now /\ now - lastTime <= delays
      BY <2>3 DEF PutInv, Timely
    <3> QED BY <1>3, <1>4, <3>1
  <2>4. ASSUME first.time # 0, ~untimed, lastPts < packet'.known
        PROVE  \E t \in Steps : t > 0 /\ t <= packet'.known - lastPts
    <3>1. CASE lastPts < packet.known
      <4>1. PICK t \in Steps : t > 0 /\ t <= packet.known - lastPts
        BY <2>4, <3>1 DEF PutInv, Timely
      <4>2. t \in Nat
        BY PutConstants
      <4>3. t <= packet'.known - lastPts
        BY <1>3, <1>4, <4>1, <4>2
      <4> QED BY <4>1, <4>3
    <3>2. CASE ~(lastPts < packet.known)
      <4>1. lastPts <= packet.known
        BY <2>4 DEF PutInv, Timely
      <4>2. s > 0 /\ s <= packet'.known - lastPts
        BY <1>3, <1>4, <2>4, <3>2, <4>1
      <4>3. s \in Steps
        BY <1>2, <4>2
      <4> QED BY <4>2, <4>3
    <3> QED BY <3>1, <3>2
  <2> QED BY <1>1, <1>5, <2>1, <2>2, <2>3, <2>4 DEF PutInv, Timely
<1>11. Headed'
  BY <1>1 DEF PutInv, Headed
<1> QED BY <1>6, <1>7, <1>8, <1>9, <1>10, <1>11 DEF PutInv

\* The packet goes through the filter, or gets its header.
LEMMA PassesKeep ==
  ASSUME PutInv, FilterPasses \/ AddsHeader PROVE PutInv'
<1>1. /\ UNCHANGED <<lastPts, lastTime, timeBegin, first, free, stalled, untimed>>
      /\ UNCHANGED <<kind, format, now, frameIndex, attempts, accepted, delays>>
      /\ upAt = "packet" /\ upAt' = "sample" /\ packet' = [packet EXCEPT !.n = @ + 1]
      /\ header' = header \/ header' = WriteADTSHeader(packet.size, format)
  BY DEF FilterPasses, AddsHeader, UpGoes, openVars, paceVars
<1>2. /\ packet \in [reads : Nat, n : Nat, time : Times, known : Nat, size : Nat]
      /\ packet.reads \in Nat /\ packet.n \in Nat
  BY DEF PutInv, PutShape
<1>3. /\ packet'.reads = packet.reads /\ packet'.n = packet.n + 1 /\ packet'.time = packet.time
      /\ packet'.size = packet.size /\ packet'.known = packet.known
      /\ packet' \in [reads : Nat, n : Nat, time : Times, known : Nat, size : Nat]
  BY <1>1, <1>2
<1>4. Done' = Done /\ Tried' = Tried /\ Paced' = Paced
  <2>1. packet'.n - 1 = packet.n
    BY <1>2, <1>3
  <2> QED BY <1>1, <2>1 DEF Done, Tried, Paced
<1>5. PutShape'
  BY <1>1, <1>3 DEF PutInv, PutShape
<1>6. Counted'
  <2>1. (Done * Attempts + Tried)' = Done * Attempts + Tried
    BY <1>4
  <2>2. (frameIndex <= Done * Attempts + Tried)'
    BY <1>1, <2>1 DEF PutInv, Counted
  <2>3. packet.n < packet.reads /\ packet.reads <= MaxReads
    BY <1>1 DEF PutInv, Counted
  <2>4. packet'.n <= packet'.reads /\ packet'.n > 0 /\ packet'.reads <= MaxReads
    BY <1>2, <1>3, <2>3
  <2> QED BY <1>1, <2>2, <2>4 DEF PutInv, Counted
<1>7. Indexed'
  BY <1>1, <1>4, IndexStays DEF PutInv
<1>8. Stamped'
  BY <1>1, <1>3 DEF PutInv, Stamped, StampClock
<1>9. Timely'
  <2>1. Lead' = Lead /\ Pause' = Pause /\ Causes' = Causes
    BY <1>1, <1>3 DEF Lead, Pause, Causes
  <2> QED BY <1>1, <1>3, <1>4, <2>1 DEF PutInv, Timely
<1>10. Headed'
  BY <1>1, <1>3 DEF PutInv, Headed
<1> QED BY <1>5, <1>6, <1>7, <1>8, <1>9, <1>10 DEF PutInv

-----------------------------------------------------------------------------
\* What a sleep does.  The first packet only starts the clock.  From then on the
\* sleep makes up for the difference m between the intervals of the time stamps
\* and of the clock, but for what it is cut by.
PaceStep(m, slept) ==
  /\ m = (packet.time - lastPts) - (now - lastTime)
  /\ m <= 0 => slept = 0 /\ free' = free /\ stalled' = stalled
  /\ m > 0 => \/ slept = 0 /\ free' = free + m /\ stalled' = stalled
              \/ slept = m - Pause /\ free' = free /\ stalled' = stalled
              \/ stalled' /\ free' = free /\ (m > SleepWrap \/ (kind = "video" /\ m < VideoSlack))

LEMMA PaceKeeps ==
  ASSUME PutInv, upAt = "sample", upAt' = "put", NEW slept \in Nat, Paces(slept),
         UNCHANGED kind, timeBegin' \in Nat, free' \in Nat, stalled' \in BOOLEAN,
         first.time = 0 => slept = 0 /\ ~stalled',
         first.time # 0 /\ ~untimed' => \E m \in Int : PaceStep(m, slept)
  PROVE  PutInv'
<1>1. /\ now' = now + slept /\ lastTime' = now + slept
      /\ lastPts' = packet.time /\ attempts' = Attempts
      /\ untimed' = (untimed \/ packet.time = NoTime)
      /\ first' = IF first.time = 0 THEN [pts |-> packet.time, time |-> now + slept] ELSE first
      /\ UNCHANGED <<format, header, packet, frameIndex, accepted, delays>>
  BY DEF Paces, openVars
<1>2. /\ packet \in [reads : Nat, n : Nat, time : Times, known : Nat, size : Nat]
      /\ packet.n \in Nat /\ packet.known \in Nat /\ packet.time \in Times /\ packet.time \in Int
      /\ now \in Nat /\ delays \in Nat /\ lastPts \in Int /\ lastTime \in Int
      /\ Epoch \in Nat /\ Epoch > 0 /\ now >= Epoch /\ first.pts \in Int /\ first.time \in Int
      /\ free \in Nat /\ Attempts \in Nat /\ Attempts > 0
  BY PutConstants, TimesAre DEF PutInv, PutShape
<1>3. Done' = Done /\ Tried' = Tried /\ Paced' = packet.n /\ Paced = packet.n - 1
  <2>1. Attempts - Attempts = 0
    BY <1>2
  <2> QED BY <1>1, <2>1 DEF Done, Tried, Paced
<1>4. PutShape'
  <2>1. now + slept \in Nat /\ now + slept >= Epoch /\ now + slept \in Times /\ Attempts \in 0 .. Attempts
    BY <1>2, TimesAre
  <2>2. first' \in [pts : Times, time : Nat]
    BY <1>1, <1>2, <2>1 DEF PutInv, PutShape
  <2>3. untimed' \in BOOLEAN
    BY <1>1
  <2> QED BY <1>1, <1>2, <2>1, <2>2, <2>3 DEF PutInv, PutShape
<1>5. Counted'
  <2>1. (Done * Attempts + Tried)' = Done * Attempts + Tried
    BY <1>3
  <2>2. (frameIndex <= Done * Attempts + Tried)'
    BY <1>1, <2>1 DEF PutInv, Counted
  <2> QED BY <1>1, <1>2, <2>2 DEF PutInv, Counted
<1>6. Indexed'
  BY <1>1, <1>3, IndexStays DEF PutInv
<1>7. Stamped'
  <2>1. StampClock \in Int /\ StampClock <= StampClock' /\ StampClock' \in Int
    <3>1. packet.known <= packet.known /\ now <= now' /\ now' \in Int
      BY <1>1, <1>2
    <3>2. CASE kind = "video"
      BY <1>1, <1>2, <3>1, <3>2 DEF StampClock
    <3>3. CASE kind # "video"
      BY <1>1, <1>2, <3>1, <3>3 DEF StampClock
    <3> QED BY <3>2, <3>3
  <2>2. \A i \in 1 .. Len(accepted) : accepted[i].stamp \in Int
    BY AcceptedTypes DEF PutInv
  <2>3. \A i \in 1 .. Len(accepted) : accepted[i].stamp <= StampClock'
    BY <2>1, <2>2 DEF PutInv, Stamped
  <2> QED BY <1>1, <2>3 DEF PutInv, Stamped
<1>8. Headed'
  BY <1>1 DEF PutInv, Headed
<1>9. Timely'
  <2>1. first'.time # 0
    <3>1. now + slept > 0
      BY <1>2
    <3> QED BY <1>1, <1>2, <3>1
  <2> SUFFICES ASSUME ~untimed'
        PROVE  /\ NoTime \notin {first'.pts, lastPts', lastTime'}
               /\ first'.pts <= lastPts' /\ lastPts' <= packet'.known
               /\ lastTime' <= now' /\ now' - lastTime' <= delays'
               /\ lastPts' < packet'.known => \E s \in Steps : s > 0 /\ s <= packet'.known - lastPts'
               /\ stalled' \/ Lead' \in (now' - lastTime') - delays' .. Pause' * Paced' + free'
               /\ stalled' => Causes'
    BY <2>1 DEF Timely
  <2>2. packet.time = packet.known /\ packet.time # NoTime /\ ~untimed /\ packet.time >= 0
    <3>1. ~untimed /\ packet.time # NoTime
      BY <1>1
    <3>2. packet.time \in {NoTime, packet.known}
      BY DEF PutInv, Stamped
    <3> QED BY <1>2, <3>1, <3>2
  <2>3. lastTime' # NoTime /\ lastTime' <= now' /\ now' - lastTime' = 0 /\ now' - lastTime' <= delays'
    BY <1>1, <1>2 DEF NoTime
  <2>4. lastPts' # NoTime /\ lastPts' <= packet'.known /\ ~(lastPts' < packet'.known)
    BY <1>1, <1>2, <2>2
  <2>5. PICK q \in Nat : q = Pause /\ q > 0 /\ Pause' = q /\ (kind = "video" => q = VideoSlack)
    <3>1. Pause \in Nat /\ Pause > 0 /\ Pause' = Pause
      BY <1>2, PausedOnce DEF PutInv, PutShape, Pause
    <3> QED BY <3>1 DEF Pause
  <2>6. PICK p \in Int : p = q * (packet.n - 1) /\ q * packet.n = p + q
    <3>1. packet.n - 1 \in Int /\ (packet.n - 1) + 1 = packet.n
      BY <1>2
    <3>2. kind \in {"video", "audio"}
      BY DEF PutInv, PutShape
    <3>3. q * ((packet.n - 1) + 1) = q * (packet.n - 1) + q /\ q * (packet.n - 1) \in Int
      BY <2>5, <3>1, <3>2, PausedOnce
    <3> QED BY <3>1, <3>3
  <2>7. CASE first.time = 0
    <3>1. first'.pts = packet.time /\ first'.time = now + slept /\ ~stalled'
      BY <1>1, <2>7
    <3>2. Lead' = 0
      BY <1>1, <1>2, <3>1 DEF Lead
    <3>3. p + q >= 0
      <4>1. packet.n \in Nat
        BY <1>2
      <4>2. q * packet.n >= 0
        BY <2>5, <4>1
      <4> QED BY <2>6, <4>2
    <3>4. Lead' \in (now' - lastTime') - delays' .. Pause' * Paced' + free'
      BY <1>1, <1>2, <1>3, <2>3, <2>5, <2>6, <3>2, <3>3
    <3> QED BY <1>1, <1>2, <2>2, <2>3, <2>4, <3>1, <3>4
  <2>8. CASE first.time # 0
    <3>1. PICK m \in Int : PaceStep(m, slept)
      BY <2>8
    <3>2. /\ NoTime \notin {first.pts, lastPts, lastTime}
          /\ first.pts <= lastPts /\ lastPts <= packet.known
          /\ lastTime <= now /\ now - lastTime <= delays
          /\ lastPts < packet.known => \E s \in Steps : s > 0 /\ s <= packet.known - lastPts
          /\ stalled \/ Lead \in (now - lastTime) - delays .. Pause * Paced + free
          /\ stalled => Causes
      BY <2>2, <2>8 DEF PutInv, Timely
    <3>3. first' = first /\ packet' = packet /\ delays' = delays
      BY <1>1, <2>8
    <3>4. m = (packet.time - lastPts) - (now - lastTime)
      BY <3>1 DEF PaceStep
    <3>5. Lead' = Lead + m - slept /\ Lead \in Int
      BY <1>1, <1>2, <3>3, <3>4 DEF Lead
    <3>6. ASSUME ~stalled' PROVE Lead' \in (now' - lastTime') - delays' .. Pause' * Paced' + free'
      <4>1. ~stalled
        BY <3>1, <3>6, <3>4 DEF PaceStep
      <4>2. Lead >= (now - lastTime) - delays /\ Lead <= p + free
        <5>1. Pause * Paced = p
          BY <1>3, <2>5, <2>6
        <5>2. p + free \in Int /\ (now - lastTime) - delays \in Int
          BY <1>2
        <5> QED BY <3>2, <3>5, <4>1, <5>1, <5>2
      <4>3. \/ m <= 0 /\ slept = 0 /\ free' = free
            \/ m > 0 /\ slept = 0 /\ free' = free + m
            \/ m > 0 /\ slept = m - q /\ free' = free
        BY <2>5, <3>1, <3>6, <3>4 DEF PaceStep
      <4>4. m >= -(now - lastTime)
        BY <1>2, <2>2, <3>2, <3>4
      <4>5. Lead' >= -delays /\ Lead' <= p + q + free'
        <5>1. PICK l \in Int : l = Lead
          BY <3>5
        <5>2. PICK k \in Int : k = Lead' /\ k = l + m - slept
          BY <3>5, <5>1
        <5>3. PICK f \in Nat : f = free'
          OBVIOUS
        <5>4. l >= (now - lastTime) - delays /\ l <= p + free
          BY <4>2, <5>1
        <5>5. k >= -delays
          <6>1. PICK g \in Nat : g = now - lastTime
            BY <1>2, <3>2
          <6>2. l >= g - delays /\ m >= -g
            BY <4>4, <5>4, <6>1
          <6>3. m - slept >= -g
            BY <2>5, <4>3, <6>2
          <6>4. PICK d \in Nat : d = delays
            BY <1>2
          <6>5. k = l + (m - slept)
            BY <5>2
          <6>6. k >= -d
            BY <6>2, <6>3, <6>4, <6>5
          <6> QED BY <6>4, <6>6
        <5>6. k <= p + q + f
          <6>1. PICK e \in Nat : e = free
            BY <1>2
          <6>2. m - slept <= q + (f - e)
            <7>1. CASE m <= 0 /\ slept = 0 /\ free' = free
              BY <2>5, <5>3, <6>1, <7>1
            <7>2. CASE m > 0 /\ slept = 0 /\ free' = free + m
              <8>1. f = e + m
                BY <5>3, <6>1, <7>2
              <8> QED BY <2>5, <7>2, <8>1
            <7>3. CASE m > 0 /\ slept = m - q /\ free' = free
              <8>1. f = e /\ m - slept = q
                BY <5>3, <6>1, <7>3
              <8> QED BY <2>5, <8>1
            <7> QED BY <4>3, <7>1, <7>2, <7>3
          <6>3. l <= p + e /\ k = l + (m - slept)
            BY <5>2, <5>4, <6>1
          <6> QED BY <6>2, <6>3
        <5> QED BY <5>2, <5>3, <5>5, <5>6
      <4>6. Pause' * Paced' + free' = p + q + free' /\ p + q + free' \in Int /\ Lead' \in Int
        BY <1>2, <1>3, <2>5, <2>6, <3>5
      <4>7. (now' - lastTime') - delays' = -delays /\ -delays \in Int
        BY <1>2, <2>3, <3>3
      <4>8. PICK k \in Int : k = Lead'
        BY <4>6
      <4>9. PICK b \in Int : b = p + q + free'
        BY <4>6
      <4>10. k >= -delays /\ k <= b
        BY <4>5, <4>8, <4>9
      <4>11. k \in -delays .. b
        BY <1>2, <4>10
      <4> QED BY <4>6, <4>7, <4>8, <4>9, <4>11
    <3>7. ASSUME stalled' PROVE Causes'
      <4>1. CASE stalled
        BY <3>2, <3>3, <4>1 DEF Causes
      <4>2. CASE ~stalled
        <5>1. m > 0 /\ (m > SleepWrap \/ (kind = "video" /\ m < VideoSlack))
          <6>1. CASE m <= 0
            <7>1. stalled' = stalled
              BY <3>1, <6>1 DEF PaceStep
            <7> QED BY <3>7, <4>2, <7>1
          <6>2. CASE m > 0
            <7>1. (m > 0 => stalled' = stalled) \/ m > SleepWrap \/ (kind = "video" /\ m < VideoSlack)
              BY <3>1 DEF PaceStep
            <7> QED BY <3>7, <4>2, <6>2, <7>1
          <6> QED BY <6>1, <6>2
        <5>2. CASE now - lastTime > 0
          <6>1. delays' > 0
            BY <1>2, <3>2, <3>3, <5>2
          <6> QED BY <6>1 DEF Causes
        <5>3. CASE ~(now - lastTime > 0)
          <6>1. packet.known - lastPts = m
            BY <1>2, <2>2, <3>2, <3>4, <5>3
          <6>2. CASE m < VideoSlack
            <7>1. lastPts < packet.known
              BY <1>2, <5>1, <6>1
            <7>2. PICK s \in Steps : s > 0 /\ s <= m
              BY <3>2, <6>1, <7>1
            <7>3. s \in Nat /\ VideoSlack \in Nat
              BY PutConstants
            <7>4. s \in 1 .. VideoSlack - 1
              BY <6>2, <7>2, <7>3
            <7> QED BY <7>2, <7>4 DEF Causes
          <6>3. CASE m > SleepWrap
            <7>1. packet.known - first.pts > SleepWrap
              BY <1>2, <3>2, <6>1, <6>3, PutConstants
            <7> QED BY <3>3, <7>1 DEF Causes
          <6> QED BY <5>1, <6>2, <6>3
        <5> QED BY <5>2, <5>3
      <4> QED BY <4>1, <4>2
    <3> QED BY <1>1, <1>2, <2>2, <2>3, <2>4, <3>2, <3>3, <3>6, <3>7
  <2> QED BY <2>7, <2>8
<1> QED BY <1>4, <1>5, <1>6, <1>7, <1>8, <1>9 DEF PutInv

LEMMA VideoPaces ==
  ASSUME PutInv, PacesVideo PROVE PutInv'
<1>1. PICK m \in MaxSleeps :
        LET sleeps == m > 0 /\ timeBegin # 0 /\ now > timeBegin
        IN  /\ timeBegin' = IF m > 0 /\ timeBegin = 0 THEN now ELSE timeBegin
            /\ Paces(IF sleeps THEN Slept(m - VideoSlack) ELSE 0)
            /\ free' = IF m > 0 /\ ~sleeps THEN free + m ELSE free
            /\ stalled' = (stalled \/ (sleeps /\ Slept(m - VideoSlack) # m - VideoSlack))
  BY DEF PacesVideo
<1>2. /\ kind = "video" /\ upAt = "sample" /\ upAt' = "put"
  BY DEF PacesVideo, UpGoes
<1> DEFINE sleeps == m > 0 /\ timeBegin # 0 /\ now > timeBegin
           slept == IF sleeps THEN Slept(m - VideoSlack) ELSE 0
<1>3. /\ packet.time \in Int /\ lastPts \in Int /\ now \in Nat /\ lastTime \in Int
      /\ timeBegin \in Nat /\ free \in Nat /\ stalled \in BOOLEAN
  BY TimesAre DEF PutInv, PutShape
<1>4. m \in Int
  <2>1. CASE packet.time = NoTime \/ lastPts = NoTime
    BY <2>1, PutConstants DEF MaxSleeps
  <2>2. CASE ~(packet.time = NoTime \/ lastPts = NoTime)
    BY <1>3, <2>2 DEF MaxSleeps
  <2> QED BY <2>1, <2>2
<1>5. PICK x \in Int : x = m - VideoSlack
  BY <1>4, PutConstants
<1>6. Slept(x) \in Nat /\ (x \in 0 .. SleepWrap - 1 => Slept(x) = x)
  BY SleptIs
<1>7. slept \in Nat /\ Paces(slept)
  BY <1>1, <1>5, <1>6
<1>8. timeBegin' \in Nat /\ free' \in Nat /\ stalled' \in BOOLEAN
  BY <1>1, <1>3, <1>4
<1>9. UNCHANGED kind
  BY <1>7 DEF Paces, openVars
<1>10. first.time = 0 => slept = 0 /\ ~stalled'
  <2>1. first.time = 0 => timeBegin = 0 /\ ~stalled
    BY DEF PutInv, Timely
  <2> QED BY <1>1, <2>1
<1>11. ASSUME first.time # 0, ~untimed' PROVE PaceStep(m, slept)
  <2>1. packet.time # NoTime /\ ~untimed
    BY <1>7, <1>11 DEF Paces
  <2>2. lastPts # NoTime
    BY <1>11, <2>1 DEF PutInv, Timely
  <2>3. m = (packet.time - lastPts) - (now - lastTime)
    BY <2>1, <2>2 DEF MaxSleeps
  <2>4. m <= 0 => slept = 0 /\ free' = free /\ stalled' = stalled
    BY <1>1, <1>3, <1>4
  <2>5. ASSUME m > 0, sleeps
        PROVE  \/ slept = m - Pause /\ free' = free /\ stalled' = stalled
               \/ stalled' /\ free' = free /\ (m > SleepWrap \/ (kind = "video" /\ m < VideoSlack))
    <3>1. free' = free /\ slept = Slept(x) /\ stalled' = (stalled \/ Slept(x) # x)
      BY <1>1, <1>5, <2>5
    <3>2. CASE Slept(x) = x
      <4>1. Pause = VideoSlack
        BY <1>2 DEF Pause
      <4>2. stalled' = stalled
        BY <1>3, <3>1, <3>2
      <4> QED BY <1>5, <3>1, <3>2, <4>1, <4>2
    <3>3. CASE Slept(x) # x
      <4>1. ~(x \in 0 .. SleepWrap - 1)
        BY <1>6, <3>3
      <4>2. x < 0 \/ x > SleepWrap - 1
        BY <4>1, PutConstants
      <4>3. m < VideoSlack \/ m > SleepWrap
        BY <1>4, <1>5, <4>2, PutConstants
      <4> QED BY <1>2, <3>1, <3>3, <4>3
    <3> QED BY <3>2, <3>3
  <2>6. ASSUME m > 0, ~sleeps PROVE slept = 0 /\ free' = free + m /\ stalled' = stalled
    BY <1>1, <1>3, <2>6
  <2> HIDE DEF slept, sleeps
  <2> QED BY <2>3, <2>4, <2>5, <2>6 DEF PaceStep
<1>12. first.time # 0 /\ ~untimed' => \E k \in Int : PaceStep(k, slept)
  BY <1>4, <1>11
<1> HIDE DEF slept, sleeps
<1> QED BY <1>2, <1>7, <1>8, <1>9, <1>10, <1>12, PaceKeeps

LEMMA AudioPaces ==
  ASSUME PutInv, PacesAudio PROVE PutInv'
<1>1. /\ kind = "audio" /\ upAt = "sample" /\ upAt' = "put" /\ timeBegin' = timeBegin /\ free' = free
  BY DEF PacesAudio, UpGoes
<1>2. /\ packet.time \in Int /\ lastPts \in Int /\ now \in Nat /\ lastTime \in Int
      /\ timeBegin \in Nat /\ free \in Nat /\ stalled \in BOOLEAN
  BY TimesAre DEF PutInv, PutShape
<1>3. CASE lastTime = NoTime
  <2>1. Paces(0) /\ stalled' = stalled
    BY <1>3 DEF PacesAudio
  <2>2. UNCHANGED kind
    BY <2>1 DEF Paces, openVars
  <2>3. first.time = 0 => ~stalled'
    BY <2>1 DEF PutInv, Timely
  <2>4. ~(first.time # 0 /\ ~untimed')
    <3>1. first.time # 0 /\ ~untimed => lastTime # NoTime
      BY DEF PutInv, Timely
    <3>2. untimed => untimed'
      BY <2>1 DEF Paces
    <3> QED BY <1>3, <3>1, <3>2
  <2>5. PICK slept \in Nat : slept = 0
    OBVIOUS
  <2> QED BY <1>1, <1>2, <2>1, <2>2, <2>3, <2>4, <2>5, PaceKeeps
<1>4. CASE lastTime # NoTime
  <2>1. PICK m \in MaxSleeps :
          /\ Paces(IF m > 0 THEN Slept(m - 1) ELSE 0)
          /\ stalled' = (stalled \/ (m > 0 /\ Slept(m - 1) # m - 1))
    BY <1>4 DEF PacesAudio
  <2> DEFINE slept == IF m > 0 THEN Slept(m - 1) ELSE 0
  <2>2. m \in Int
    <3>1. CASE packet.time = NoTime \/ lastPts = NoTime
      BY <3>1, PutConstants DEF MaxSleeps
    <3>2. CASE ~(packet.time = NoTime \/ lastPts = NoTime)
      BY <1>2, <3>2 DEF MaxSleeps
    <3> QED BY <3>1, <3>2
  <2>3. PICK x \in Int : x = m - 1
    BY <2>2
  <2>4. Slept(x) \in Nat /\ (x \in 0 .. SleepWrap - 1 => Slept(x) = x)
    BY SleptIs
  <2>5. slept \in Nat /\ Paces(slept)
    BY <2>1, <2>3, <2>4
  <2>6. UNCHANGED kind /\ stalled' \in BOOLEAN
    BY <1>2, <2>1, <2>5 DEF Paces, openVars
  <2>7. first.time # 0
    BY <1>1, <1>4 DEF PutInv, Timely
  <2>8. ASSUME ~untimed' PROVE PaceStep(m, slept)
    <3>1. packet.time # NoTime /\ ~untimed
      BY <2>5, <2>8 DEF Paces
    <3>2. lastPts # NoTime
      BY <2>7, <3>1 DEF PutInv, Timely
    <3>3. m = (packet.time - lastPts) - (now - lastTime)
      BY <3>1, <3>2 DEF MaxSleeps
    <3>4. m <= 0 => slept = 0 /\ stalled' = stalled
      BY <1>2, <2>1, <2>2
    <3>5. ASSUME m > 0
          PROVE  \/ slept = m - Pause /\ stalled' = stalled
                 \/ stalled' /\ m > SleepWrap
      <4>1. slept = Slept(x) /\ stalled' = (stalled \/ Slept(x) # x)
        BY <2>1, <2>3, <3>5
      <4>2. CASE Slept(x) = x
        <5>1. Pause = 1
          BY <1>1 DEF Pause
        <5>2. stalled' = stalled
          BY <1>2, <4>1, <4>2
        <5> QED BY <2>3, <4>1, <4>2, <5>1, <5>2
      <4>3. CASE Slept(x) # x
        <5>1. ~(x \in 0 .. SleepWrap - 1)
          BY <2>4, <4>3
        <5>2. x > SleepWrap - 1
          BY <2>2, <2>3, <3>5, <5>1, PutConstants
        <5>3. m > SleepWrap
          BY <2>2, <2>3, <5>2, PutConstants
        <5> QED BY <4>1, <4>3, <5>3
      <4> QED BY <4>2, <4>3
    <3> HIDE DEF slept
    <3> QED BY <1>1, <3>3, <3>4, <3>5 DEF PaceStep
  <2>9. first.time # 0 /\ ~untimed' => \E k \in Int : PaceStep(k, slept)
    BY <2>2, <2>8
  <2> HIDE DEF slept
  <2> QED BY <1>1, <1>2, <2>5, <2>6, <2>7, <2>9, PaceKeeps
<1> QED BY <1>3, <1>4

-----------------------------------------------------------------------------
\* The frame is taken: it is the last of those accepted, behind those that it
\* was the next of.
LEMMA AcceptedKeep ==
  ASSUME PutInv, PutAccepted PROVE PutInv'
<1>1. /\ upAt = "put" /\ upAt' = "read" /\ frameIndex' = frameIndex + 1 /\ attempts' = 0
      /\ header' = <<>> /\ packet' = [packet EXCEPT !.size = 0]
      /\ UNCHANGED <<lastPts, lastTime, timeBegin, first, free, stalled, untimed>>
      /\ UNCHANGED <<kind, format, now, delays>>
  BY DEF PutAccepted, UpGoes, Forgets, openVars, paceVars
<1>2. /\ packet \in [reads : Nat, n : Nat, time : Times, known : Nat, size : Nat]
      /\ packet.n \in Nat /\ packet.time \in Times /\ frameIndex \in Nat /\ now \in Times
      /\ attempts \in 0 .. Attempts /\ Attempts \in Nat /\ attempts \in Int
      /\ packet.reads \in Nat
  BY PutConstants, TimesAre DEF PutInv, PutShape
<1>3. /\ packet'.reads = packet.reads /\ packet'.n = packet.n /\ packet'.time = packet.time
      /\ packet'.known = packet.known
      /\ packet' \in [reads : Nat, n : Nat, time : Times, known : Nat, size : Nat]
  BY <1>1, <1>2
<1>4. PICK r \in [n : Nat, index : Nat, stamp : Times] :
        /\ accepted' = Append(accepted, r) /\ r.n = packet.n /\ r.index = frameIndex
        /\ r.stamp = IF kind = "video" THEN packet.time ELSE now
  BY <1>2 DEF PutAccepted
<1>5. /\ accepted \in Seq([n : Nat, index : Nat, stamp : Times]) /\ Len(accepted) \in Nat
      /\ \A i \in 1 .. Len(accepted) :
           accepted[i].n \in Nat /\ accepted[i].index \in Nat /\ accepted[i].stamp \in Int
  BY AcceptedTypes DEF PutInv
<1>6. /\ accepted' \in Seq([n : Nat, index : Nat, stamp : Times]) /\ Len(accepted') = Len(accepted) + 1
      /\ accepted'[Len(accepted) + 1] = r /\ accepted' # <<>>
      /\ \A i \in 1 .. Len(accepted) : accepted'[i] = accepted[i]
  BY <1>4, <1>5
<1>7. packet.n > 0 /\ attempts > 0 /\ packet.n <= packet.reads /\ packet.reads <= MaxReads
  BY <1>1 DEF PutInv, Counted
<1>8. Done = packet.n - 1 /\ Tried = Attempts - attempts /\ Done' = packet.n /\ Tried' = 0
      /\ Paced = packet.n /\ Paced' = packet.n
  BY <1>1, <1>3 DEF Done, Tried, Paced
<1>9. PutShape'
  <2>1. frameIndex + 1 \in Nat /\ 0 \in 0 .. Attempts
    BY <1>2
  <2> QED BY <1>1, <1>3, <1>6, <2>1 DEF PutInv, PutShape
<1>10. Counted'
  <2>1. PICK p \in Int : p = (packet.n - 1) * Attempts /\ packet.n * Attempts = p + Attempts
    <3>1. packet.n - 1 \in Int /\ (packet.n - 1) + 1 = packet.n
      BY <1>2
    <3> QED BY <3>1, OneMore
  <2>2. frameIndex <= p + (Attempts - attempts)
    BY <1>8, <2>1 DEF PutInv, Counted
  <2>3. frameIndex + 1 <= packet.n * Attempts + 0
    BY <1>2, <1>7, <2>1, <2>2
  <2>4. frameIndex' <= Done' * Attempts + Tried'
    BY <1>1, <1>8, <2>3
  <2> QED BY <1>1, <1>3, <1>7, <2>4 DEF Counted
<1>11. LastAccepted.n \in Int /\ LastAccepted.index \in Int /\ LastAccepted.n <= packet.n - 1
  <2>1. CASE accepted = <<>>
    BY <1>8, <2>1 DEF PutInv, Indexed, LastAccepted
  <2>2. CASE accepted # <<>>
    <3>1. Len(accepted) \in 1 .. Len(accepted)
      BY <1>5, <2>2
    <3> QED BY <1>5, <1>8, <2>2, <3>1 DEF PutInv, Indexed, LastAccepted
  <2> QED BY <2>1, <2>2
<1>12. PICK drops \in Nat : drops = packet.n - LastAccepted.n - 1
  BY <1>2, <1>11
<1>13. frameIndex - LastAccepted.index - 1 = drops * Attempts + (Attempts - attempts)
  <2>1. frameIndex = LastAccepted.index + 1 + ((packet.n - 1) - LastAccepted.n) * Attempts + (Attempts - attempts)
    BY <1>8 DEF PutInv, Indexed
  <2>2. (packet.n - 1) - LastAccepted.n = drops
    BY <1>2, <1>11, <1>12
  <2>3. PICK p \in Int : p = drops * Attempts
    BY OneMore
  <2>4. frameIndex = LastAccepted.index + 1 + p + (Attempts - attempts)
    BY <2>1, <2>2, <2>3
  <2> QED BY <1>2, <1>11, <2>3, <2>4
<1>14. IndexTells'
  <2> SUFFICES ASSUME NEW i \in 1 .. Len(accepted')
               PROVE  LET before == IF i = 1 THEN [n |-> 0, index |-> -1] ELSE accepted'[i - 1]
                          d == accepted'[i].n - before.n - 1
                      IN  /\ d >= 0
                          /\ accepted'[i].index - before.index - 1 \in d * Attempts .. d * Attempts + Attempts - 1
    BY DEF IndexTells
  <2>1. CASE i \in 1 .. Len(accepted)
    <3>0. i # 1 => i - 1 \in 1 .. Len(accepted)
      BY <1>5, <2>1
    <3>1. accepted'[i] = accepted[i] /\ (i # 1 => i - 1 \in 1 .. Len(accepted))
      BY <1>6, <2>1, <3>0
    <3>2. i # 1 => accepted'[i - 1] = accepted[i - 1]
      BY <1>6, <3>1
    <3> QED BY <2>1, <3>1, <3>2 DEF PutInv, Indexed, IndexTells
  <2>2. CASE i = Len(accepted) + 1
    <3>1. (IF i = 1 THEN [n |-> 0, index |-> -1] ELSE accepted'[i - 1]) = LastAccepted
      <4>1. CASE accepted = <<>>
        <5>1. i = 1
          BY <2>2, <4>1
        <5> QED BY <4>1, <5>1 DEF LastAccepted
      <4>2. CASE accepted # <<>>
        <5>1. i # 1 /\ i - 1 = Len(accepted) /\ i - 1 \in 1 .. Len(accepted)
          BY <1>5, <2>2, <4>2
        <5> QED BY <1>6, <4>2, <5>1 DEF LastAccepted
      <4> QED BY <4>1, <4>2
    <3>2. accepted'[i] = r
      BY <1>6, <2>2
    <3>3. PICK p \in Int : p = drops * Attempts
      <4>1. drops \in Int
        BY <1>12
      <4>2. drops * Attempts \in Int
        BY <4>1, OneMore
      <4> QED BY <4>2
    <3>4. frameIndex - LastAccepted.index - 1 \in p .. p + Attempts - 1
      BY <1>2, <1>7, <1>13, <3>3
    <3> QED BY <1>4, <1>12, <3>1, <3>2, <3>3, <3>4
  <2> QED BY <1>5, <1>6, <2>1, <2>2
<1>15. Indexed'
  <2>1. LastAccepted' = r
    BY <1>6 DEF LastAccepted
  <2>2. (packet.n - packet.n) * Attempts = 0
    <3>1. packet.n - packet.n = 0 /\ 0 * Attempts = 0
      BY <1>2
    <3> QED BY <3>1
  <2>3. frameIndex + 1 = r.index + 1 + (packet.n - packet.n) * Attempts + 0
    BY <1>2, <1>4, <2>2
  <2>4. r.n <= packet.n
    BY <1>2, <1>4
  <2> QED BY <1>1, <1>4, <1>8, <1>14, <2>1, <2>3, <2>4 DEF Indexed
<1>16. Stamped'
  <2>1. StampClock' = StampClock /\ StampClock \in Int
    BY <1>1, <1>3, TimesAre DEF PutInv, PutShape, StampClock
  <2>2. r.stamp \in Int /\ r.stamp <= StampClock /\ (r.stamp # NoTime => r.stamp = StampClock)
    <3>1. packet.time \in {NoTime, packet.known} /\ packet.known \in Nat /\ now \in Nat
      BY DEF PutInv, Stamped, PutShape
    <3>2. NoTime <= packet.known /\ NoTime \in Int /\ packet.known <= packet.known /\ now <= now
      BY <3>1 DEF NoTime
    <3>3. CASE kind = "video"
      BY <1>4, <3>1, <3>2, <3>3 DEF StampClock
    <3>4. CASE kind # "video"
      BY <1>4, <3>1, <3>2, <3>4 DEF StampClock
    <3> QED BY <3>3, <3>4
  <2>3. \A i \in 1 .. Len(accepted) : accepted[i].stamp <= StampClock
    BY DEF PutInv, Stamped
  <2>4. \A i \in 1 .. Len(accepted') : accepted'[i].stamp <= StampClock'
    <3> SUFFICES ASSUME NEW i \in 1 .. Len(accepted') PROVE accepted'[i].stamp <= StampClock'
      OBVIOUS
    <3>1. i \in 1 .. Len(accepted) \/ i = Len(accepted) + 1
      BY <1>5, <1>6
    <3> QED BY <1>6, <2>1, <2>2, <2>3, <3>1
  <2>5. ASSUME NEW i \in 1 .. Len(accepted'), NEW j \in 1 .. Len(accepted'), i < j,
               NoTime \notin {accepted'[i].stamp, accepted'[j].stamp}
        PROVE  accepted'[i].stamp <= accepted'[j].stamp
    <3>0. i \in 1 .. Len(accepted)
      <4>1. PICK k \in Nat : k = Len(accepted) /\ Len(accepted') = k + 1
        BY <1>5, <1>6
      <4>2. i \in 1 .. k + 1 /\ j \in 1 .. k + 1
        BY <4>1
      <4>3. i \in 1 .. k
        BY <2>5, <4>2
      <4> QED BY <4>1, <4>3
    <3>1. i \in 1 .. Len(accepted) /\ accepted'[i] = accepted[i]
      BY <1>6, <3>0
    <3>2. CASE j \in 1 .. Len(accepted)
      BY <1>6, <2>5, <3>1, <3>2 DEF PutInv, Stamped
    <3>3. CASE j = Len(accepted) + 1
      BY <1>6, <2>2, <2>3, <2>5, <3>1, <3>3
    <3> QED BY <1>5, <1>6, <3>2, <3>3
  <2>6. packet'.time \in {NoTime, packet'.known}
    BY <1>3 DEF PutInv, Stamped
  <2> QED BY <2>4, <2>5, <2>6 DEF Stamped
<1>17. Timely'
  <2>1. Lead' = Lead /\ Pause' = Pause /\ Causes' = Causes
    BY <1>1, <1>3 DEF Lead, Pause, Causes
  <2>2. Paced' = Paced
    BY <1>8
  <2> QED BY <1>1, <1>3, <2>1, <2>2 DEF PutInv, Timely
<1>18. Headed'
  BY <1>1 DEF Headed
<1> QED BY <1>9, <1>10, <1>15, <1>16, <1>17, <1>18 DEF PutInv

\* An attempt fails; after the last one the loop is done with the packet.
LEMMA FailsKeep ==
  ASSUME PutInv, PutFails PROVE PutInv'
<1>1. /\ upAt = "put" /\ upAt' = (IF attempts > 1 THEN "put" ELSE "read")
      /\ frameIndex' = frameIndex + 1 /\ attempts' = attempts - 1
      /\ now' = now + Pause /\ delays' = delays + Pause
      /\ IF attempts > 1 THEN UNCHANGED <<header, packet>>
         ELSE header' = <<>> /\ packet' = [packet EXCEPT !.size = 0]
      /\ UNCHANGED <<lastPts, lastTime, timeBegin, first, free, stalled, untimed>>
      /\ UNCHANGED <<kind, format, accepted>>
  BY DEF PutFails, Forgets, openVars, paceVars
<1>2. /\ packet \in [reads : Nat, n : Nat, time : Times, known : Nat, size : Nat]
      /\ packet.n \in Nat /\ packet.reads \in Nat /\ packet.known \in Nat /\ frameIndex \in Nat
      /\ attempts \in 0 .. Attempts /\ Attempts \in Nat /\ attempts \in Int
      /\ now \in Nat /\ delays \in Nat /\ Epoch \in Nat /\ now >= Epoch
      /\ lastTime \in Int /\ kind \in {"video", "audio"}
  <2>1. Attempts \in Nat /\ Epoch \in Nat
    BY PutConstants
  <2>2. lastTime \in Int
    BY TimesAre DEF PutInv, PutShape
  <2>3. attempts \in 0 .. Attempts /\ attempts \in Int
    BY <2>1 DEF PutInv, PutShape
  <2>4. packet \in [reads : Nat, n : Nat, time : Times, known : Nat, size : Nat]
    BY DEF PutInv, PutShape
  <2>5. packet.n \in Nat /\ packet.reads \in Nat /\ packet.known \in Nat
    BY <2>4
  <2> QED BY <2>1, <2>2, <2>3, <2>4, <2>5 DEF PutInv, PutShape
<1>3. /\ packet'.reads = packet.reads /\ packet'.n = packet.n /\ packet'.time = packet.time
      /\ packet'.known = packet.known
      /\ packet' \in [reads : Nat, n : Nat, time : Times, known : Nat, size : Nat]
  BY <1>1, <1>2
<1>4. PICK q \in Nat : q = Pause /\ q > 0
  BY <1>2, PausedOnce
<1>5. packet.n > 0 /\ attempts > 0 /\ packet.n <= packet.reads /\ packet.reads <= MaxReads
  BY <1>1 DEF PutInv, Counted
<1>6. PICK p \in Int : p = (packet.n - 1) * Attempts /\ packet.n * Attempts = p + Attempts
  <2>1. packet.n - 1 \in Int /\ (packet.n - 1) + 1 = packet.n
    BY <1>2
  <2> QED BY <2>1, OneMore
<1>7. /\ Done = packet.n - 1 /\ Tried = Attempts - attempts
      /\ attempts > 1 => Done' = packet.n - 1 /\ Tried' = Attempts - (attempts - 1) /\ upAt' = "put"
      /\ ~(attempts > 1) => Done' = packet.n /\ Tried' = 0 /\ upAt' = "read" /\ attempts = 1
      /\ Paced' = packet.n /\ Paced = packet.n
  <2>1. Done = packet.n - 1 /\ Tried = Attempts - attempts /\ Paced = packet.n
    BY <1>1 DEF Done, Tried, Paced
  <2>2. upAt' \in {"put", "read"} /\ Paced' = packet.n
    BY <1>1, <1>3 DEF Paced
  <2>3. ASSUME attempts > 1
        PROVE  Done' = packet.n - 1 /\ Tried' = Attempts - (attempts - 1) /\ upAt' = "put"
    <3>1. upAt' = "put" /\ attempts' = attempts - 1
      BY <1>1, <2>3
    <3> QED BY <1>3, <3>1 DEF Done, Tried
  <2>4. ASSUME ~(attempts > 1)
        PROVE  Done' = packet.n /\ Tried' = 0 /\ upAt' = "read" /\ attempts = 1
    <3>1. upAt' = "read"
      BY <1>1, <2>4
    <3>2. attempts = 1
      BY <1>2, <1>5, <2>4
    <3> QED BY <1>3, <3>1, <3>2 DEF Done, Tried
  <2> QED BY <2>1, <2>2, <2>3, <2>4
<1>8. PutShape'
  <2>1. frameIndex + 1 \in Nat /\ attempts - 1 \in 0 .. Attempts /\ now + q \in Nat /\ now + q >= Epoch
        /\ delays + q \in Nat
    BY <1>2, <1>5
  <2> QED BY <1>1, <1>3, <1>4, <2>1 DEF PutInv, PutShape
<1>9. Counted'
  <2>1. frameIndex <= p + (Attempts - attempts)
    BY <1>6, <1>7 DEF PutInv, Counted
  <2>2. CASE attempts > 1
    <3>1. frameIndex + 1 <= p + (Attempts - (attempts - 1)) /\ attempts - 1 > 0
      BY <1>2, <2>1, <2>2
    <3>2. frameIndex' <= Done' * Attempts + Tried'
      BY <1>1, <1>6, <1>7, <2>2, <3>1
    <3> QED BY <1>1, <1>3, <1>5, <1>7, <2>2, <3>1, <3>2 DEF Counted
  <2>3. CASE ~(attempts > 1)
    <3>1. frameIndex + 1 <= packet.n * Attempts + 0 /\ attempts - 1 = 0
      BY <1>2, <1>6, <1>7, <2>1, <2>3
    <3>2. frameIndex' <= Done' * Attempts + Tried'
      BY <1>1, <1>7, <2>3, <3>1
    <3> QED BY <1>1, <1>3, <1>5, <1>7, <2>3, <3>1, <3>2 DEF Counted
  <2> QED BY <2>2, <2>3
<1>10. LastAccepted' = LastAccepted /\ LastAccepted.n \in Int /\ LastAccepted.index \in Int
  <2>1. CASE accepted = <<>>
    BY <1>1, <2>1 DEF LastAccepted
  <2>2. CASE accepted # <<>>
    <3>1. Len(accepted) \in 1 .. Len(accepted)
      BY <2>2, AcceptedTypes DEF PutInv
    <3> QED BY <1>1, <2>2, <3>1, AcceptedTypes DEF PutInv, LastAccepted
  <2> QED BY <2>1, <2>2
<1>11. Indexed'
  <2>1. PICK k \in Int : k = (packet.n - 1) - LastAccepted.n
    BY <1>2, <1>10
  <2>2. PICK z \in Int : z = k * Attempts /\ (k + 1) * Attempts = z + Attempts
    BY OneMore
  <2>3. frameIndex = LastAccepted.index + 1 + z + (Attempts - attempts)
    BY <1>7, <2>1, <2>2 DEF PutInv, Indexed
  <2>4. k >= 0
    BY <1>2, <1>7, <1>10, <2>1 DEF PutInv, Indexed
  <2>5. IndexTells'
    BY <1>1 DEF PutInv, Indexed, IndexTells
  <2>6. CASE attempts > 1
    <3>1. frameIndex + 1 = LastAccepted.index + 1 + z + (Attempts - (attempts - 1))
      BY <1>2, <1>10, <2>3
    <3>2. frameIndex' = LastAccepted' .index + 1 + (Done' - LastAccepted' .n) * Attempts + Tried'
      BY <1>1, <1>7, <1>10, <2>1, <2>2, <2>6, <3>1
    <3>3. LastAccepted' .n <= Done'
      BY <1>7, <1>10, <2>6 DEF PutInv, Indexed
    <3> QED BY <2>5, <3>2, <3>3 DEF Indexed
  <2>7. CASE ~(attempts > 1)
    <3>1. packet.n - LastAccepted.n = k + 1
      BY <1>2, <1>10, <2>1
    <3>2. frameIndex + 1 = LastAccepted.index + 1 + (z + Attempts) + 0
      BY <1>2, <1>7, <1>10, <2>3, <2>7
    <3>3. frameIndex' = LastAccepted' .index + 1 + (Done' - LastAccepted' .n) * Attempts + Tried'
      BY <1>1, <1>7, <1>10, <2>2, <2>7, <3>1, <3>2
    <3>4. LastAccepted' .n <= Done'
      BY <1>2, <1>7, <1>10, <2>1, <2>4, <2>7
    <3> QED BY <2>5, <3>3, <3>4 DEF Indexed
  <2> QED BY <2>6, <2>7
<1>12. Stamped'
  <2>1. StampClock \in Int /\ StampClock <= StampClock' /\ StampClock' \in Int
    <3>0. now' = now + q
      BY <1>1, <1>4
    <3>1. packet.known <= packet.known /\ now <= now' /\ now' \in Int
      BY <1>2, <3>0
    <3>2. CASE kind = "video"
      BY <1>1, <1>2, <1>3, <3>1, <3>2 DEF StampClock
    <3>3. CASE kind # "video"
      BY <1>1, <1>2, <3>1, <3>3 DEF StampClock
    <3> QED BY <3>2, <3>3
  <2>2. \A i \in 1 .. Len(accepted) : accepted[i].stamp \in Int
    BY AcceptedTypes DEF PutInv
  <2>3. \A i \in 1 .. Len(accepted) : accepted[i].stamp <= StampClock'
    BY <2>1, <2>2 DEF PutInv, Stamped
  <2> QED BY <1>1, <1>3, <2>3 DEF PutInv, Stamped
<1>13. Timely'
  <2>1. Lead' = Lead /\ Pause' = Pause /\ Paced' = Paced
    BY <1>1, <1>7 DEF Lead, Pause
  <2>2. Causes => Causes'
    <3>0. delays' = delays + q
      BY <1>1, <1>4
    <3>1. delays' > 0
      BY <1>2, <1>4, <3>0
    <3> QED BY <3>1 DEF Causes
  <2>3. ASSUME first.time # 0, ~untimed
        PROVE  /\ lastTime <= now' /\ now' - lastTime <= delays'
               /\ (now' - lastTime) - delays' = (now - lastTime) - delays
    <3>1. lastTime <= now /\ now - lastTime <= delays
      BY <2>3 DEF PutInv, Timely
    <3>2. now' = now + q /\ delays' = delays + q
      BY <1>1, <1>4
    <3>3. PICK g \in Int : g = now - lastTime
      BY <1>2
    <3>4. (now + q) - lastTime = g + q /\ lastTime <= now + q
      BY <1>2, <3>1, <3>3
    <3>5. g + q <= delays + q /\ (g + q) - (delays + q) = g - delays
      BY <1>2, <3>1, <3>3
    <3> QED BY <3>2, <3>3, <3>4, <3>5
  <2> QED BY <1>1, <1>3, <2>1, <2>2, <2>3 DEF PutInv, Timely
<1>14. Headed'
  <2>1. CASE attempts > 1
    BY <1>1, <2>1 DEF PutInv, Headed
  <2>2. CASE ~(attempts > 1)
    BY <1>1, <2>2 DEF Headed
  <2> QED BY <2>1, <2>2
<1> QED BY <1>8, <1>9, <1>11, <1>12, <1>13, <1>14 DEF PutInv

LEMMA PutStep ==
  ASSUME PutInv, [PutNext]_putVars PROVE PutInv'
<1>1. ASSUME UpOpenFails \/ (\E m \in Media : ChoosesVideo(m) \/ ChoosesAudio(m)) PROVE PutInv'
  <2>1. /\ upAt = "open" /\ upAt' \in {"wait", "done"}
        /\ UNCHANGED <<kind, format, paceVars, header, packet, now, frameIndex, attempts, accepted, delays>>
    BY <1>1 DEF UpOpenFails, ChoosesVideo, ChoosesAudio, UpGoes, openVars
  <2> QED BY <2>1, MovesKeep
<1>2. ASSUME WaitsForEver \/ (\E x \in BOOLEAN : InitVideo(x)) \/ InitAudio \/ InitThrows \/ FilterFails \/ ReadEnds
      PROVE  PutInv'
  <2>1. /\ upAt \in {"wait", "init", "packet", "read"} /\ upAt' \in {"spin", "packet", "read", "done"}
        /\ upAt' = "packet" => upAt = "init"
        /\ UNCHANGED <<kind, format, paceVars, header, packet, now, frameIndex, attempts, accepted, delays>>
    BY <1>2 DEF WaitsForEver, InitVideo, InitAudio, InitThrows, FilterFails, ReadEnds, UpGoes, openVars
  <2> QED BY <2>1, MovesKeep
<1>3. ASSUME NEW size \in NextSizes, NEW time \in NextTimes,
             WaitsForFirst(size, time) \/ (\E d \in Delays : ReadsNext(size, time, d))
      PROVE  PutInv'
  <2>1. size \in Nat
    BY PutConstants DEF NextSizes
  <2>2. CASE WaitsForFirst(size, time)
    <3>1. now \in Nat /\ delays \in Nat
      BY DEF PutInv, PutShape
    <3>2. PICK d \in Nat : now' = now + d /\ delays' = delays + d
      <4>1. now' = now /\ delays' = delays /\ now + 0 = now /\ delays + 0 = delays
        BY <2>2, <3>1 DEF WaitsForFirst
      <4> QED BY <4>1
    <3>3. /\ upAt = "wait" /\ upAt' = "init" /\ Arrives(size, time)
          /\ UNCHANGED <<kind, format, paceVars, header, frameIndex, attempts, accepted>>
      BY <2>2 DEF WaitsForFirst, UpGoes, openVars
    <3> QED BY <2>1, <3>2, <3>3, ArrivesKeep
  <2>3. CASE \E d \in Delays : ReadsNext(size, time, d)
    <3>1. PICK d \in Delays : ReadsNext(size, time, d)
      BY <2>3
    <3>2. d \in Nat
      BY PutConstants
    <3>3. /\ upAt = "read" /\ upAt' = "packet" /\ packet.reads < MaxReads /\ Arrives(size, time)
          /\ now' = now + d /\ delays' = delays + d
          /\ UNCHANGED <<kind, format, paceVars, header, frameIndex, attempts, accepted>>
      BY <3>1 DEF ReadsNext, UpGoes, openVars
    <3> QED BY <2>1, <3>2, <3>3, ArrivesKeep
  <2> QED BY <1>3, <2>2, <2>3
<1>4. ASSUME PutRests \/ UNCHANGED putVars PROVE PutInv'
  <2>1. /\ UNCHANGED <<kind, upAt, useFilter, format, header, packet, now, lastPts, lastTime>>
        /\ UNCHANGED <<timeBegin, frameIndex, attempts, accepted, first, free, delays, stalled, untimed>>
    BY <1>4 DEF PutRests, putVars
  <2>2. Done' = Done /\ Tried' = Tried /\ Paced' = Paced /\ StampClock' = StampClock
    BY <2>1 DEF Done, Tried, Paced, StampClock
  <2>3. Lead' = Lead /\ Pause' = Pause /\ Causes' = Causes
    BY <2>1 DEF Lead, Pause, Causes
  <2>4. PutShape'
    BY <2>1 DEF PutInv, PutShape
  <2>5. Counted'
    <3>1. frameIndex' <= Done' * Attempts + Tried'
      BY <2>1, <2>2 DEF PutInv, Counted
    <3> QED BY <2>1, <3>1 DEF PutInv, Counted
  <2>6. Indexed'
    BY <2>1, <2>2, IndexStays DEF PutInv
  <2>7. Stamped'
    BY <2>1, <2>2 DEF PutInv, Stamped
  <2>8. Timely'
    BY <2>1, <2>2, <2>3 DEF PutInv, Timely
  <2>9. Headed'
    BY <2>1 DEF PutInv, Headed
  <2> QED BY <2>4, <2>5, <2>6, <2>7, <2>8, <2>9 DEF PutInv
<1>5. ASSUME FilterPasses \/ AddsHeader PROVE PutInv'
  BY <1>5, PassesKeep
<1>6. ASSUME PacesVideo \/ PacesAudio \/ PutAccepted \/ PutFails PROVE PutInv'
  BY <1>6, VideoPaces, AudioPaces, AcceptedKeep, FailsKeep
<1> QED BY <1>1, <1>2, <1>3, <1>4, <1>5, <1>6 DEF PutNext

THEOREM UploadInvariance == PutSpec => []PutInv
<1>1. PutInit => PutInv
  BY PutInitInv
<1>2. PutInv /\ [PutNext]_putVars => PutInv'
  BY PutStep
<1> QED BY <1>1, <1>2, PTL DEF PutSpec

LEMMA PutInvType ==
  ASSUME PutInv PROVE PutTypeOK
<1>1. /\ MaxReads \in Nat /\ Attempts \in Nat /\ Attempts > 0
  BY PutConstants
<1>2. packet.n \in Nat /\ packet.reads \in Nat /\ attempts \in Int /\ attempts <= Attempts /\ attempts >= 0
  BY <1>1 DEF PutInv, PutShape
<1>3. packet.n \in 0 .. MaxReads
  BY <1>1, <1>2 DEF PutInv, Counted
<1>4. frameIndex <= packet.n * Attempts
  <2>1. frameIndex <= Done * Attempts + Tried
    BY DEF PutInv, Counted
  <2>2. CASE upAt = "put"
    <3>1. PICK p \in Int : p = (packet.n - 1) * Attempts /\ packet.n * Attempts = p + Attempts
      <4>1. packet.n - 1 \in Int /\ (packet.n - 1) + 1 = packet.n
        BY <1>2
      <4> QED BY <4>1, OneMore
    <3>2. frameIndex <= p + (Attempts - attempts) /\ frameIndex \in Nat
      BY <2>1, <2>2, <3>1 DEF Done, Tried, PutInv, PutShape
    <3> QED BY <1>1, <1>2, <3>1, <3>2
  <2>3. CASE upAt # "put"
    <3>1. Done = packet.n \/ Done = packet.n - 1
      BY DEF Done
    <3>2. Done <= packet.n /\ Done \in Int
      BY <1>2, <3>1
    <3>3. Done * Attempts <= packet.n * Attempts
      BY <1>2, <3>2, MoreTries
    <3>4. PICK p \in Int : p = Done * Attempts
      BY <3>2, OneMore
    <3>5. PICK q \in Int : q = packet.n * Attempts
      BY <1>2, OneMore
    <3>6. frameIndex <= p + 0 /\ p <= q /\ frameIndex \in Nat
      BY <2>1, <2>3, <3>3, <3>4, <3>5 DEF Tried, PutInv, PutShape
    <3> QED BY <3>5, <3>6
  <2> QED BY <2>2, <2>3
<1>5. packet.n * Attempts <= MaxReads * Attempts /\ MaxReads * Attempts = Attempts * MaxReads
  BY <1>1, <1>2, <1>3, MoreTries
<1>6. frameIndex \in 0 .. Attempts * MaxReads
  <2>1. PICK p \in Int : p = packet.n * Attempts
    BY <1>2, OneMore
  <2>2. PICK q \in Int : q = Attempts * MaxReads
    BY <1>1
  <2>3. frameIndex \in Nat /\ frameIndex <= p /\ p <= q
    BY <1>4, <1>5, <2>1, <2>2 DEF PutInv, PutShape
  <2>4. frameIndex \in 0 .. q
    BY <2>3
  <2> QED BY <2>2, <2>4
<1>7. \A i \in 1 .. Len(header) : header[i] \in 0 .. 255
  <2>1. CASE header = <<>>
    BY <2>1
  <2>2. CASE header = WriteADTSHeader(packet.size, format)
    <3>1. packet.size \in Nat /\ format \in [profile : Int, rate : Int, channels : Int]
      BY PutAssumption DEF PutInv, PutShape
    <3>2. HeaderBytes(WriteADTSHeader(packet.size, format))
      BY <3>1, HeaderIs
    <3> QED BY <2>2, <3>2 DEF HeaderBytes
  <2> QED BY <2>1, <2>2 DEF PutInv, Headed
<1> QED BY <1>3, <1>6, <1>7 DEF PutInv, PutShape, PutTypeOK

LEMMA PutInvSound ==
  ASSUME PutInv PROVE PutSound
<1>1. AllTimed =>
        /\ stalled \/ Lead \in -delays .. Pause * packet.n + free
        /\ stalled => \/ delays > 0 \/ Steps \cap 1 .. VideoSlack - 1 # {}
                      \/ packet.known - first.pts > SleepWrap
  <2> SUFFICES ASSUME AllTimed
               PROVE  /\ stalled \/ Lead \in -delays .. Pause * packet.n + free
                      /\ stalled => \/ delays > 0 \/ Steps \cap 1 .. VideoSlack - 1 # {}
                                    \/ packet.known - first.pts > SleepWrap
    OBVIOUS
  <2>1. first.time # 0 /\ ~untimed
    BY DEF PutInv, Timely, AllTimed
  <2>2. /\ lastTime <= now /\ now - lastTime <= delays
        /\ stalled \/ Lead \in (now - lastTime) - delays .. Pause * Paced + free
        /\ stalled => Causes
    BY <2>1 DEF PutInv, Timely
  <2>3. /\ now \in Nat /\ delays \in Nat /\ lastTime \in Int /\ packet.n \in Nat /\ free \in Nat
        /\ kind \in {"video", "audio"} /\ lastPts \in Int /\ first.pts \in Int /\ first.time \in Int
    BY TimesAre DEF PutInv, PutShape
  <2>4. PICK b \in Int : b = Pause * Paced + free
    <3>1. Paced \in Int
      BY <2>3 DEF Paced
    <3> QED BY <2>3, <3>1, PausedOnce
  <2>5. PICK c \in Int : c = Pause * packet.n + free
    <3>1. PICK k \in Int : k = packet.n
      BY <2>3
    <3>2. Pause * k \in Int
      BY <2>3, PausedOnce
    <3>3. Pause * k + free \in Int
      BY <2>3, <3>2
    <3> QED BY <3>1, <3>3
  <2>6. b <= c
    <3>1. packet.n - 1 \in Int /\ (packet.n - 1) + 1 = packet.n
      BY <2>3
    <3>2. PICK q \in Nat : q = Pause
      BY <2>3, PausedOnce
    <3>3. PICK p \in Int : p = q * (packet.n - 1) /\ q * packet.n = p + q
      <4>1. q * ((packet.n - 1) + 1) = q * (packet.n - 1) + q /\ q * (packet.n - 1) \in Int
        BY <2>3, <3>1, <3>2, PausedOnce
      <4> QED BY <3>1, <4>1
    <3>4. Paced = packet.n \/ Paced = packet.n - 1
      BY DEF Paced
    <3> QED BY <2>3, <2>4, <2>5, <3>2, <3>3, <3>4
  <2>7. ASSUME ~stalled PROVE Lead \in -delays .. c
    <3>1. PICK l \in Int : l = Lead
      BY <2>3 DEF Lead
    <3>2. l \in (now - lastTime) - delays .. b
      BY <2>2, <2>4, <2>7, <3>1
    <3>3. l \in -delays .. c
      BY <2>2, <2>3, <2>6, <3>2
    <3> QED BY <3>1, <3>3
  <2> QED BY <2>2, <2>5, <2>7 DEF Causes
<1>2. header # <<>> =>
        /\ format.profile \in 0 .. 3 => Parsed(header).profile = format.profile
        /\ format.channels \in 1 .. 6 => Parsed(header).channels = format.channels
        /\ packet.size + ADTS_HEADER_SIZE < 8192
             => Parsed(header).length = packet.size + ADTS_HEADER_SIZE
  <2>1. packet.size \in Nat /\ format \in [profile : Int, rate : Int, channels : Int]
    BY PutAssumption DEF PutInv, PutShape
  <2>2. header # <<>> => header = WriteADTSHeader(packet.size, format)
    BY DEF PutInv, Headed
  <2> QED BY <2>1, <2>2, HeaderIs
<1> QED BY <1>1, <1>2 DEF PutInv, Indexed, Stamped, PutSound

\* Frames are put in order and given up only after their last attempt, and the
\* upload keeps to the pace of the time stamps, whatever the packets, the
\* answers of putFrame and the time that reading takes.
THEOREM UploadKeepsPace == PutSpec => []PutSound
<1>1. PutInv => PutSound
  BY PutInvSound
<1> QED BY <1>1, UploadInvariance, PTL

\* The variables of the uploaders keep to their types, the bytes of a header too.
THEOREM UploadTypes == PutSpec => []PutTypeOK
<1>1. PutInv => PutTypeOK
  BY PutInvType
<1> QED BY <1>1, UploadInvariance, PTL

-----------------------------------------------------------------------------
(***************************************************************************)
(* EvoMediaSource.  The loop over the start codes is a recursive function, *)
(* whose existence comes, as that of FlattenSeq does elsewhere, from a     *)
(* least number for which there would be none.                             *)
(***************************************************************************)
LEMMA LeastNumber ==
  ASSUME NEW S \in SUBSET Nat, S # {}
  PROVE  \E m \in S : \A j \in S : m <= j
<1>1. PICK m \in S : \A j \in S : ~(<<j, m>> \in OpToRel(<, Nat))
  BY NatLessThanWellFounded, WFMin
<1>2. ASSUME NEW j \in S PROVE m <= j
  <2>1. ~(j < m)
    BY <1>1 DEF OpToRel
  <2> QED BY <2>1
<1> QED BY <1>2

LEMMA GreatestNumber ==
  ASSUME NEW n \in Nat, NEW S \in SUBSET (1 .. n), S # {}
  PROVE  Max(S) \in S /\ \A j \in S : j <= Max(S)
<1> DEFINE T == {n - j : j \in S}
<1>1. \A j \in S : j \in Int /\ j >= 1 /\ j <= n
  OBVIOUS
<1>2. \A j \in S : n - j \in Nat
  BY <1>1
<1>3. T \in SUBSET Nat /\ T # {}
  BY <1>2
<1>4. PICK g \in T : \A k \in T : g <= k
  <2> HIDE DEF T
  <2> QED BY <1>3, LeastNumber
<1>5. PICK m \in S : g = n - m
  BY <1>4
<1>6. ASSUME NEW j \in S PROVE m >= j
  <2>1. n - m <= n - j
    BY <1>4, <1>5
  <2>2. m \in Int /\ j \in Int
    BY <1>1
  <2> QED BY <2>1, <2>2
<1>7. Max(S) \in S /\ \A j \in S : Max(S) >= j
  BY <1>6 DEF Max
<1>8. Max(S) \in Int
  BY <1>1, <1>7
<1> QED BY <1>1, <1>7, <1>8

LEMMA LeastIs ==
  ASSUME NEW n \in Nat, NEW S \in SUBSET (1 .. n), S # {}
  PROVE  Min(S) \in S
<1>1. S \in SUBSET Nat
  OBVIOUS
<1>2. \E m \in S : \A j \in S : m <= j
  BY <1>1, LeastNumber
<1> QED BY <1>2 DEF Min

Ends(f, u, n) == f = [i \in 0 .. n |-> IF i = 0 THEN 0 ELSE f[i - 1] + u[i].code + u[i].size]
Scans(f, u, n) == f = [i \in 0 .. n |-> IF i = 0 THEN ScanStart ELSE Scan(u, f[i - 1], i)]

LEMMA EndsExist ==
  ASSUME NEW u, NEW n \in Nat PROVE \E f : Ends(f, u, n)
<1> DEFINE Bad == {k \in 0 .. n : ~ \E f : Ends(f, u, k)}
<1> SUFFICES ASSUME Bad # {} PROVE FALSE
  <2>1. n \in 0 .. n
    OBVIOUS
  <2> QED BY <2>1
<1>1. Bad \in SUBSET Nat
  OBVIOUS
<1>2. PICK m \in Bad : \A j \in Bad : m <= j
  <2> HIDE DEF Bad
  <2> QED BY <1>1, LeastNumber
<1>3. m \in 0 .. n /\ ~ \E f : Ends(f, u, m)
  OBVIOUS
<1>4. m # 0
  <2> SUFFICES ASSUME m = 0 PROVE FALSE
    OBVIOUS
  <2>1. Ends([i \in 0 .. 0 |-> 0], u, 0)
    BY DEF Ends
  <2> QED BY <1>3, <2>1
<1>5. m - 1 \in 0 .. n /\ ~(m <= m - 1) /\ m \in Nat
  BY <1>3, <1>4
<1>6. PICK f : Ends(f, u, m - 1)
  BY <1>2, <1>5
<1> DEFINE last == f[m - 1] + u[m].code + u[m].size
           g == [i \in 0 .. m |-> IF i = m THEN last ELSE f[i]]
<1>7. ASSUME NEW i \in 0 .. m
      PROVE  g[i] = IF i = 0 THEN 0 ELSE g[i - 1] + u[i].code + u[i].size
  <2>1. CASE i = m
    <3>1. m - 1 \in 0 .. m /\ m - 1 # m
      BY <1>5, <1>4
    <3>2. g[i] = last /\ g[m - 1] = f[m - 1]
      BY <2>1, <3>1
    <3> QED BY <1>4, <2>1, <3>2
  <2>2. CASE i # m
    <3>1. i \in 0 .. m - 1
      BY <1>5, <2>2
    <3>2. f[i] = IF i = 0 THEN 0 ELSE f[i - 1] + u[i].code + u[i].size
      BY <1>6, <3>1 DEF Ends
    <3>3. i # 0 => i - 1 \in 0 .. m /\ i - 1 # m
      BY <1>5, <3>1
    <3>4. g[i] = f[i] /\ (i # 0 => g[i - 1] = f[i - 1])
      BY <2>2, <3>3
    <3> QED BY <3>2, <3>4
  <2> QED BY <2>1, <2>2
<1>8. Ends(g, u, m)
  <2>1. g = [i \in 0 .. m |-> g[i]]
    OBVIOUS
  <2> HIDE DEF g
  <2> QED BY <1>7, <2>1 DEF Ends
<1> QED BY <1>3, <1>8

LEMMA ScansExist ==
  ASSUME NEW u, NEW n \in Nat PROVE \E f : Scans(f, u, n)
<1> DEFINE Bad == {k \in 0 .. n : ~ \E f : Scans(f, u, k)}
<1> SUFFICES ASSUME Bad # {} PROVE FALSE
  <2>1. n \in 0 .. n
    OBVIOUS
  <2> QED BY <2>1
<1>1. Bad \in SUBSET Nat
  OBVIOUS
<1>2. PICK m \in Bad : \A j \in Bad : m <= j
  <2> HIDE DEF Bad
  <2> QED BY <1>1, LeastNumber
<1>3. m \in 0 .. n /\ ~ \E f : Scans(f, u, m)
  OBVIOUS
<1>4. m # 0
  <2> SUFFICES ASSUME m = 0 PROVE FALSE
    OBVIOUS
  <2>1. Scans([i \in 0 .. 0 |-> ScanStart], u, 0)
    BY DEF Scans
  <2> QED BY <1>3, <2>1
<1>5. m - 1 \in 0 .. n /\ ~(m <= m - 1) /\ m \in Nat
  BY <1>3, <1>4
<1>6. PICK f : Scans(f, u, m - 1)
  BY <1>2, <1>5
<1> DEFINE last == Scan(u, f[m - 1], m)
           g == [i \in 0 .. m |-> IF i = m THEN last ELSE f[i]]
<1>7. ASSUME NEW i \in 0 .. m
      PROVE  g[i] = IF i = 0 THEN ScanStart ELSE Scan(u, g[i - 1], i)
  <2>1. CASE i = m
    <3>1. m - 1 \in 0 .. m /\ m - 1 # m
      BY <1>5, <1>4
    <3>2. g[i] = last /\ g[m - 1] = f[m - 1]
      BY <2>1, <3>1
    <3> QED BY <1>4, <2>1, <3>2
  <2>2. CASE i # m
    <3>1. i \in 0 .. m - 1
      BY <1>5, <2>2
    <3>2. f[i] = IF i = 0 THEN ScanStart ELSE Scan(u, f[i - 1], i)
      BY <1>6, <3>1 DEF Scans
    <3>3. i # 0 => i - 1 \in 0 .. m /\ i - 1 # m
      BY <1>5, <3>1
    <3>4. g[i] = f[i] /\ (i # 0 => g[i - 1] = f[i - 1])
      BY <2>2, <3>3
    <3> QED BY <3>2, <3>4
  <2> QED BY <2>1, <2>2
<1>8. Scans(g, u, m)
  <2>1. g = [i \in 0 .. m |-> g[i]]
    OBVIOUS
  <2> HIDE DEF g
  <2> QED BY <1>7, <2>1 DEF Scans
<1> QED BY <1>3, <1>8

Units == [type : Nat, code : Nat, size : Nat]

LEMMA UnitEndIs ==
  ASSUME NEW u \in Seq(Units)
  PROVE  /\ UnitEnd(u, 0) = 0
         /\ \A k \in 1 .. Len(u) : UnitEnd(u, k) = UnitEnd(u, k - 1) + u[k].code + u[k].size
<1>1. Len(u) \in Nat
  OBVIOUS
<1>2. PICK f : Ends(f, u, Len(u)) /\ \A k : UnitEnd(u, k) = f[k]
  <2> DEFINE f == CHOOSE g : g = [i \in 0 .. Len(u) |-> IF i = 0 THEN 0 ELSE g[i - 1] + u[i].code + u[i].size]
  <2>1. \E g : g = [i \in 0 .. Len(u) |-> IF i = 0 THEN 0 ELSE g[i - 1] + u[i].code + u[i].size]
    BY <1>1, EndsExist DEF Ends
  <2>2. f = [i \in 0 .. Len(u) |-> IF i = 0 THEN 0 ELSE f[i - 1] + u[i].code + u[i].size]
    BY <2>1, Zenon
  <2>3. \A k : UnitEnd(u, k) = f[k]
    BY DEF UnitEnd
  <2> HIDE DEF f
  <2> QED BY <2>2, <2>3 DEF Ends
<1>3. ASSUME NEW k \in 1 .. Len(u) PROVE f[k] = f[k - 1] + u[k].code + u[k].size
  <2>1. k \in 0 .. Len(u) /\ k # 0
    BY <1>1
  <2> QED BY <1>2, <2>1 DEF Ends
<1>4. f[0] = 0
  <2>1. 0 \in 0 .. Len(u)
    BY <1>1
  <2> QED BY <1>2, <2>1 DEF Ends
<1> QED BY <1>2, <1>3, <1>4

LEMMA ScanToIs ==
  ASSUME NEW u \in Seq(Units)
  PROVE  /\ ScanTo(u, 0) = ScanStart
         /\ \A k \in 1 .. Len(u) : ScanTo(u, k) = Scan(u, ScanTo(u, k - 1), k)
<1>1. Len(u) \in Nat
  OBVIOUS
<1>2. PICK f : Scans(f, u, Len(u)) /\ \A k : ScanTo(u, k) = f[k]
  <2> DEFINE f == CHOOSE g : g = [i \in 0 .. Len(u) |-> IF i = 0 THEN ScanStart ELSE Scan(u, g[i - 1], i)]
  <2>1. \E g : g = [i \in 0 .. Len(u) |-> IF i = 0 THEN ScanStart ELSE Scan(u, g[i - 1], i)]
    BY <1>1, ScansExist DEF Scans
  <2>2. f = [i \in 0 .. Len(u) |-> IF i = 0 THEN ScanStart ELSE Scan(u, f[i - 1], i)]
    BY <2>1, Zenon
  <2>3. \A k : ScanTo(u, k) = f[k]
    BY DEF ScanTo
  <2> HIDE DEF f
  <2> QED BY <2>2, <2>3 DEF Scans
<1>3. ASSUME NEW k \in 1 .. Len(u) PROVE f[k] = Scan(u, f[k - 1], k)
  <2>1. k \in 0 .. Len(u) /\ k # 0
    BY <1>1
  <2> QED BY <1>2, <2>1 DEF Scans
<1>4. f[0] = ScanStart
  <2>1. 0 \in 0 .. Len(u)
    BY <1>1
  <2> QED BY <1>2, <2>1 DEF Scans
<1> QED BY <1>2, <1>3, <1>4

LEMMA UnitTypes ==
  ASSUME NEW u \in Seq(Units), NEW k \in 1 .. Len(u)
  PROVE  u[k].type \in Nat /\ u[k].code \in Nat /\ u[k].size \in Nat
<1>1. u[k] \in Units
  OBVIOUS
<1> QED BY <1>1 DEF Units

LEMMA UnitEndNat ==
  ASSUME NEW u \in Seq(Units), NEW k \in 0 .. Len(u)
  PROVE  UnitEnd(u, k) \in Nat
<1> DEFINE Bad == {j \in 0 .. Len(u) : UnitEnd(u, j) \notin Nat}
<1> SUFFICES ASSUME Bad # {} PROVE FALSE
  OBVIOUS
<1>1. Bad \in SUBSET Nat
  OBVIOUS
<1>2. PICK m \in Bad : \A j \in Bad : m <= j
  <2> HIDE DEF Bad
  <2> QED BY <1>1, LeastNumber
<1>3. m \in 0 .. Len(u) /\ UnitEnd(u, m) \notin Nat
  OBVIOUS
<1>4. m # 0
  BY <1>3, UnitEndIs
<1>5. m \in 1 .. Len(u) /\ m - 1 \in 0 .. Len(u) /\ ~(m <= m - 1)
  BY <1>3, <1>4
<1>6. UnitEnd(u, m - 1) \in Nat
  BY <1>2, <1>5
<1>7. u[m].code \in Nat /\ u[m].size \in Nat
  BY <1>5, UnitTypes
<1>8. UnitEnd(u, m) = UnitEnd(u, m - 1) + u[m].code + u[m].size
  BY <1>5, UnitEndIs
<1> QED BY <1>3, <1>6, <1>7, <1>8

(***************************************************************************)
(* What the scan knows after k units: of each of the two types the last    *)
(* unit, where it starts and, unless it is the k-th, its size.             *)
(***************************************************************************)
OfType(u, k, type) == {j \in 1 .. k : u[j].type = type}

SetKnown(u, k, type, index, size) ==
  /\ index \in Int /\ size \in Int
  /\ OfType(u, k, type) = {} => index = 0 /\ size = 0
  /\ OfType(u, k, type) # {} =>
       LET j == Max(OfType(u, k, type))
       IN  index = UnitStart(u, j) /\ (j # k => size = u[j].size)

ScanKnows(u, k) ==
  LET s == ScanTo(u, k)
  IN  /\ s \in [spsIndex : Int, spsSize : Int, ppsIndex : Int, ppsSize : Int, cur : {0, 1, 2}]
      /\ s.cur = IF k = 0 THEN 0 ELSE IF u[k].type = 7 THEN 1 ELSE IF u[k].type = 8 THEN 2 ELSE 0
      /\ SetKnown(u, k, 7, s.spsIndex, s.spsSize)
      /\ SetKnown(u, k, 8, s.ppsIndex, s.ppsSize)

\* The k-th unit, if it is of the type, is its last.
LEMMA OwnIsLast ==
  ASSUME NEW u \in Seq(Units), NEW k \in 1 .. Len(u), NEW type \in Nat, u[k].type = type
  PROVE  OfType(u, k, type) # {} /\ Max(OfType(u, k, type)) = k
<1>1. k \in Nat /\ k \in OfType(u, k, type)
  BY DEF OfType
<1>2. OfType(u, k, type) \in SUBSET (1 .. k)
  BY DEF OfType
<1> DEFINE S == OfType(u, k, type)
           g == Max(S)
<1> HIDE DEF S
<1>3. g \in S /\ \A j \in S : j <= g
  BY <1>1, <1>2, GreatestNumber DEF S
<1>4. g \in 1 .. k /\ k <= g
  BY <1>1, <1>2, <1>3 DEF S
<1> QED BY <1>1, <1>4 DEF S

LEMMA OtherIsNot ==
  ASSUME NEW u \in Seq(Units), NEW k \in 1 .. Len(u), NEW type \in Nat, u[k].type # type
  PROVE  OfType(u, k, type) = OfType(u, k - 1, type)
<1>1. k \in Nat
  OBVIOUS
<1>2. \A j : j \in 1 .. k /\ u[j].type = type <=> j \in 1 .. k - 1 /\ u[j].type = type
  BY <1>1
<1> QED BY <1>2 DEF OfType

LEMMA LastOfType ==
  ASSUME NEW u \in Seq(Units), NEW k \in 0 .. Len(u), NEW type \in Nat, OfType(u, k, type) # {}
  PROVE  /\ Max(OfType(u, k, type)) \in 1 .. k
         /\ u[Max(OfType(u, k, type))].type = type
<1>1. OfType(u, k, type) \in SUBSET (1 .. k) /\ k \in Nat
  BY DEF OfType
<1>2. Max(OfType(u, k, type)) \in OfType(u, k, type)
  BY <1>1, GreatestNumber
<1> QED BY <1>2 DEF OfType

LEMMA ThreeLengths ==
  ASSUME NEW b \in Nat, NEW c \in Nat, NEW z \in Nat, NEW e, e = b + c + z
  PROVE  e - z \in Nat /\ e - (e - z) = z /\ (e - z) - c = b
OBVIOUS

\* A unit starts where the one before it ends and its start code.
LEMMA StartOfUnit ==
  ASSUME NEW u \in Seq(Units), NEW k \in 1 .. Len(u)
  PROVE  /\ UnitStart(u, k) \in Nat /\ UnitEnd(u, k - 1) \in Nat
         /\ UnitStart(u, k) - u[k].code = UnitEnd(u, k - 1)
         /\ UnitEnd(u, k) - UnitStart(u, k) = u[k].size
<1>1. k \in 0 .. Len(u) /\ k - 1 \in 0 .. Len(u)
  OBVIOUS
<1>2. UnitEnd(u, k) \in Nat /\ UnitEnd(u, k - 1) \in Nat
  BY <1>1, UnitEndNat
<1>3. u[k].code \in Nat /\ u[k].size \in Nat
  BY UnitTypes
<1>4. UnitEnd(u, k) = UnitEnd(u, k - 1) + u[k].code + u[k].size
  BY UnitEndIs
<1>5. PICK e \in Nat, b \in Nat, c \in Nat, z \in Nat :
        e = UnitEnd(u, k) /\ b = UnitEnd(u, k - 1) /\ c = u[k].code /\ z = u[k].size
  BY <1>2, <1>3
<1>6. UnitStart(u, k) = e - z /\ e = b + c + z
  BY <1>4, <1>5 DEF UnitStart
<1>7. e - z \in Nat /\ e - (e - z) = z /\ (e - z) - c = b
  BY <1>6, ThreeLengths
<1>8. UnitStart(u, k) \in Nat /\ UnitStart(u, k) - c = b /\ e - UnitStart(u, k) = z
  BY <1>6, <1>7
<1> QED BY <1>5, <1>8

\* A unit of the type sets its index, and leaves its size as it was.
LEMMA OwnTaken ==
  ASSUME NEW u \in Seq(Units), NEW k \in 1 .. Len(u), NEW type \in Nat, u[k].type = type,
         NEW size \in Int
  PROVE  SetKnown(u, k, type, UnitStart(u, k), size)
<1>1. OfType(u, k, type) # {} /\ Max(OfType(u, k, type)) = k
  BY OwnIsLast
<1>2. UnitStart(u, k) \in Int
  BY StartOfUnit
<1> QED BY <1>1, <1>2 DEF SetKnown

\* A unit of another type leaves the index as it was, and sets the size of the
\* unit before it.
LEMMA OtherKept ==
  ASSUME NEW u \in Seq(Units), NEW k \in 1 .. Len(u), NEW type \in Nat, u[k].type # type,
         NEW index, NEW size, SetKnown(u, k - 1, type, index, size),
         NEW next, next = IF k > 1 /\ u[k - 1].type = type THEN UnitEnd(u, k - 1) - index ELSE size
  PROVE  SetKnown(u, k, type, index, next)
<1>1. k \in Nat /\ k - 1 \in Nat /\ k - 1 \in 0 .. Len(u) /\ UnitEnd(u, k - 1) \in Nat
  BY StartOfUnit
<1>2. OfType(u, k, type) = OfType(u, k - 1, type)
  BY OtherIsNot
<1>3. index \in Int /\ size \in Int /\ next \in Int
  BY <1>1 DEF SetKnown
<1>4. CASE OfType(u, k, type) = {}
  <2>1. index = 0 /\ size = 0
    BY <1>2, <1>4 DEF SetKnown
  <2>2. ~(k > 1 /\ u[k - 1].type = type)
    <3> SUFFICES ASSUME k > 1, u[k - 1].type = type PROVE FALSE
      OBVIOUS
    <3>1. k - 1 \in 1 .. k
      BY <1>1
    <3> QED BY <1>4, <3>1 DEF OfType
  <2> QED BY <1>3, <1>4, <2>1, <2>2 DEF SetKnown
<1>5. CASE OfType(u, k, type) # {}
  <2> DEFINE S == OfType(u, k, type)
             g == Max(S)
  <2>1. g \in 1 .. k - 1
    BY <1>1, <1>2, <1>5, LastOfType
  <2>2. index = UnitStart(u, g) /\ (g # k - 1 => size = u[g].size)
    BY <1>2, <1>5 DEF SetKnown
  <2>3. next = u[g].size
    <3>1. CASE k > 1 /\ u[k - 1].type = type
      <4>1. k - 1 \in 1 .. Len(u)
        BY <1>1, <3>1
      <4>2. g = k - 1
        BY <1>2, <3>1, <4>1, OwnIsLast
      <4>3. UnitEnd(u, k - 1) - UnitStart(u, k - 1) = u[k - 1].size
        BY <4>1, StartOfUnit
      <4> QED BY <2>2, <3>1, <4>2, <4>3
    <3>2. CASE ~(k > 1 /\ u[k - 1].type = type)
      <4>1. g # k - 1
        <5> SUFFICES ASSUME g = k - 1 PROVE FALSE
          OBVIOUS
        <5>1. u[k - 1].type = type
          BY <1>1, <1>2, <1>5, LastOfType
        <5> QED BY <1>1, <2>1, <3>2, <5>1
      <4> QED BY <2>2, <3>2, <4>1
    <3> QED BY <3>1, <3>2
  <2> HIDE DEF g
  <2> QED BY <1>3, <1>5, <2>2, <2>3 DEF SetKnown, g
<1> QED BY <1>4, <1>5

ScanFields == [spsIndex : Int, spsSize : Int, ppsIndex : Int, ppsSize : Int, cur : {0, 1, 2}]

LEMMA SpsTaken ==
  ASSUME NEW s \in ScanFields, NEW index \in Int, NEW size \in Int,
         NEW d, d = [s EXCEPT !.spsIndex = index],
         NEW c, c = [d EXCEPT !.cur = 1],
         NEW e, e = [c EXCEPT !.ppsSize = size]
  PROVE  /\ e \in ScanFields /\ e.cur = 1 /\ e.spsIndex = index /\ e.spsSize = s.spsSize
         /\ e.ppsIndex = s.ppsIndex /\ e.ppsSize = size
<1>1. /\ d \in ScanFields /\ d.spsIndex = index /\ d.spsSize = s.spsSize
      /\ d.ppsIndex = s.ppsIndex /\ d.ppsSize = s.ppsSize /\ d.cur = s.cur
  BY DEF ScanFields
<1>2. /\ c \in ScanFields /\ c.spsIndex = index /\ c.spsSize = s.spsSize
      /\ c.ppsIndex = s.ppsIndex /\ c.cur = 1
  BY <1>1 DEF ScanFields
<1> QED BY <1>2 DEF ScanFields

LEMMA PpsTaken ==
  ASSUME NEW s \in ScanFields, NEW index \in Int, NEW size \in Int,
         NEW d, d = [s EXCEPT !.ppsIndex = index],
         NEW c, c = [d EXCEPT !.cur = 2],
         NEW e, e = [c EXCEPT !.spsSize = size]
  PROVE  /\ e \in ScanFields /\ e.cur = 2 /\ e.ppsIndex = index /\ e.ppsSize = s.ppsSize
         /\ e.spsIndex = s.spsIndex /\ e.spsSize = size
<1>1. /\ d \in ScanFields /\ d.ppsIndex = index /\ d.ppsSize = s.ppsSize
      /\ d.spsIndex = s.spsIndex /\ d.spsSize = s.spsSize /\ d.cur = s.cur
  BY DEF ScanFields
<1>2. /\ c \in ScanFields /\ c.ppsIndex = index /\ c.ppsSize = s.ppsSize
      /\ c.spsIndex = s.spsIndex /\ c.cur = 2
  BY <1>1 DEF ScanFields
<1> QED BY <1>2 DEF ScanFields

LEMMA ScanGoesOn ==
  ASSUME NEW u \in Seq(Units), OnlySetsFollow(u), NEW k \in 1 .. Len(u), ScanKnows(u, k - 1)
  PROVE  ScanKnows(u, k)
<1> DEFINE s == ScanTo(u, k - 1)
           t == ScanTo(u, k)
           start == UnitStart(u, k)
<1>1. t = Scan(u, s, k)
  BY ScanToIs
<1>2. k \in Nat /\ k # 0 /\ k - 1 \in Nat /\ UnitEnd(u, k - 1) \in Nat /\ start \in Nat
      /\ start - u[k].code = UnitEnd(u, k - 1)
  BY StartOfUnit
<1>3. /\ s \in ScanFields
      /\ s.cur = IF k - 1 = 0 THEN 0 ELSE IF u[k - 1].type = 7 THEN 1
                 ELSE IF u[k - 1].type = 8 THEN 2 ELSE 0
      /\ SetKnown(u, k - 1, 7, s.spsIndex, s.spsSize)
      /\ SetKnown(u, k - 1, 8, s.ppsIndex, s.ppsSize)
  BY DEF ScanKnows, ScanFields
<1>4. /\ s.cur = 1 <=> k > 1 /\ u[k - 1].type = 7
      /\ s.cur = 2 <=> k > 1 /\ u[k - 1].type = 8
  BY <1>2, <1>3
<1> HIDE DEF s, t, start
<1>5. 7 \in Nat /\ 8 \in Nat
  OBVIOUS
<1>6. s.spsIndex \in Int /\ s.spsSize \in Int /\ s.ppsIndex \in Int /\ s.ppsSize \in Int
  BY <1>3 DEF ScanFields
<1>7. CASE u[k].type = 7
  <2> DEFINE size == IF s.cur = 2 THEN (start - u[k].code) - s.ppsIndex ELSE s.ppsSize
  <2>0. size \in Int /\ size = IF s.cur = 2 THEN UnitEnd(u, k - 1) - s.ppsIndex ELSE s.ppsSize
    BY <1>2, <1>6
  <2>1. t = [s EXCEPT !.spsIndex = start, !.cur = 1, !.ppsSize = size]
    BY <1>1, <1>7 DEF Scan, start
  <2> HIDE DEF size
  <2>2. /\ t \in ScanFields /\ t.cur = 1 /\ t.spsIndex = start /\ t.spsSize = s.spsSize
        /\ t.ppsIndex = s.ppsIndex
        /\ t.ppsSize = IF s.cur = 2 THEN UnitEnd(u, k - 1) - s.ppsIndex ELSE s.ppsSize
    <3>1. start \in Int
      BY <1>2
    <3>2. size \in Int
      BY <2>0
    <3>3. /\ t \in ScanFields /\ t.cur = 1 /\ t.spsIndex = start /\ t.spsSize = s.spsSize
          /\ t.ppsIndex = s.ppsIndex /\ t.ppsSize = size
      <4>1. PICK d : d = [s EXCEPT !.spsIndex = start]
        OBVIOUS
      <4>2. PICK c : c = [d EXCEPT !.cur = 1]
        OBVIOUS
      <4>3. t = [c EXCEPT !.ppsSize = size]
        BY <2>1, <4>1, <4>2
      <4>4. s \in ScanFields
        BY <1>3
      <4> QED BY <3>1, <3>2, <4>1, <4>2, <4>3, <4>4, SpsTaken DEF ScanFields
    <3> QED BY <2>0, <3>3
  <2>3. SetKnown(u, k, 7, t.spsIndex, t.spsSize)
    BY <1>5, <1>6, <1>7, <2>2, OwnTaken DEF start
  <2>4. SetKnown(u, k, 8, t.ppsIndex, t.ppsSize)
    BY <1>3, <1>4, <1>5, <1>7, <2>2, OtherKept
  <2> QED BY <1>2, <1>7, <2>2, <2>3, <2>4 DEF ScanKnows, ScanFields, t
<1>8. CASE u[k].type = 8
  <2> DEFINE size == IF s.cur = 1 THEN (start - u[k].code) - s.spsIndex ELSE s.spsSize
  <2>0. size \in Int /\ size = IF s.cur = 1 THEN UnitEnd(u, k - 1) - s.spsIndex ELSE s.spsSize
    BY <1>2, <1>6
  <2>1. t = [s EXCEPT !.ppsIndex = start, !.cur = 2, !.spsSize = size]
    BY <1>1, <1>8 DEF Scan, start
  <2> HIDE DEF size
  <2>2. /\ t \in ScanFields /\ t.cur = 2 /\ t.ppsIndex = start /\ t.ppsSize = s.ppsSize
        /\ t.spsIndex = s.spsIndex
        /\ t.spsSize = IF s.cur = 1 THEN UnitEnd(u, k - 1) - s.spsIndex ELSE s.spsSize
    <3>1. start \in Int
      BY <1>2
    <3>2. size \in Int
      BY <2>0
    <3>3. /\ t \in ScanFields /\ t.cur = 2 /\ t.ppsIndex = start /\ t.ppsSize = s.ppsSize
          /\ t.spsIndex = s.spsIndex /\ t.spsSize = size
      <4>1. PICK d : d = [s EXCEPT !.ppsIndex = start]
        OBVIOUS
      <4>2. PICK c : c = [d EXCEPT !.cur = 2]
        OBVIOUS
      <4>3. t = [c EXCEPT !.spsSize = size]
        BY <2>1, <4>1, <4>2
      <4>4. s \in ScanFields
        BY <1>3
      <4> QED BY <3>1, <3>2, <4>1, <4>2, <4>3, <4>4, PpsTaken DEF ScanFields
    <3> QED BY <2>0, <3>3
  <2>3. SetKnown(u, k, 8, t.ppsIndex, t.ppsSize)
    BY <1>5, <1>6, <1>8, <2>2, OwnTaken DEF start
  <2>4. SetKnown(u, k, 7, t.spsIndex, t.spsSize)
    BY <1>3, <1>4, <1>5, <1>8, <2>2, OtherKept
  <2> QED BY <1>2, <1>8, <2>2, <2>3, <2>4 DEF ScanKnows, ScanFields, t
<1>9. CASE u[k].type \notin {7, 8}
  <2>1. t = [s EXCEPT !.cur = 0]
    BY <1>1, <1>9 DEF Scan
  <2>2. /\ t \in ScanFields /\ t.cur = 0 /\ t.spsIndex = s.spsIndex /\ t.spsSize = s.spsSize
        /\ t.ppsIndex = s.ppsIndex /\ t.ppsSize = s.ppsSize
    BY <1>3, <2>1 DEF ScanFields
  <2>3. ~(k > 1 /\ u[k - 1].type \in {7, 8})
    <3> SUFFICES ASSUME k > 1, u[k - 1].type \in {7, 8} PROVE FALSE
      OBVIOUS
    <3>1. k - 1 \in 1 .. Len(u) - 1 /\ (k - 1) + 1 = k
      BY <1>2
    <3> QED BY <1>9, <3>1 DEF OnlySetsFollow
  <2>4. SetKnown(u, k, 7, t.spsIndex, t.spsSize)
    BY <1>3, <1>5, <1>9, <2>2, <2>3, OtherKept
  <2>5. SetKnown(u, k, 8, t.ppsIndex, t.ppsSize)
    BY <1>3, <1>5, <1>9, <2>2, <2>3, OtherKept
  <2> QED BY <1>2, <1>9, <2>2, <2>4, <2>5 DEF ScanKnows, ScanFields, t
<1> QED BY <1>7, <1>8, <1>9

LEMMA ScanKnowsAll ==
  ASSUME NEW u \in Seq(Units), OnlySetsFollow(u), NEW k \in 0 .. Len(u)
  PROVE  ScanKnows(u, k)
<1> DEFINE Bad == {j \in 0 .. Len(u) : ~ScanKnows(u, j)}
<1> SUFFICES ASSUME Bad # {} PROVE FALSE
  OBVIOUS
<1>1. Bad \in SUBSET Nat
  OBVIOUS
<1>2. PICK m \in Bad : \A j \in Bad : m <= j
  <2> HIDE DEF Bad
  <2> QED BY <1>1, LeastNumber
<1>3. m \in 0 .. Len(u) /\ ~ScanKnows(u, m)
  OBVIOUS
<1>4. ScanKnows(u, 0)
  <2>1. ScanTo(u, 0) = ScanStart
    BY ScanToIs
  <2>2. OfType(u, 0, 7) = {} /\ OfType(u, 0, 8) = {}
    BY DEF OfType
  <2> QED BY <2>1, <2>2 DEF ScanKnows, SetKnown, ScanStart
<1>5. m \in 1 .. Len(u) /\ m - 1 \in 0 .. Len(u) /\ ~(m <= m - 1)
  BY <1>3, <1>4
<1>6. ScanKnows(u, m - 1)
  BY <1>2, <1>5
<1> QED BY <1>3, <1>5, <1>6, ScanGoesOn

\* At the end the last unit of each type is known, its size too.
SetIs(u, type, index, size) ==
  IF OfType(u, Len(u), type) = {} THEN index = 0 /\ size = 0
  ELSE LET j == Max(OfType(u, Len(u), type))
       IN  index = UnitStart(u, j) /\ size = u[j].size

LEMMA SetIsLast ==
  ASSUME NEW u \in Seq(Units), NEW type \in Nat, NEW index, NEW size,
         SetKnown(u, Len(u), type, index, size),
         NEW next,
         next = IF Len(u) # 0 /\ u[Len(u)].type = type THEN UnitEnd(u, Len(u)) - index ELSE size
  PROVE  SetIs(u, type, index, next)
<1> DEFINE n == Len(u)
           S == OfType(u, n, type)
<1>1. n \in Nat /\ n \in 0 .. n
  OBVIOUS
<1>2. CASE S = {}
  <2>1. ~(n # 0 /\ u[n].type = type)
    BY <1>1, <1>2 DEF OfType
  <2> QED BY <1>2, <2>1 DEF SetKnown, SetIs
<1>3. CASE S # {}
  <2> DEFINE g == Max(S)
  <2>1. g \in 1 .. n /\ u[g].type = type
    BY <1>1, <1>3, LastOfType
  <2>2. index = UnitStart(u, g) /\ (g # n => size = u[g].size)
    BY <1>3 DEF SetKnown
  <2>3. next = u[g].size
    <3>1. CASE u[n].type = type
      <4>1. n \in 1 .. Len(u) /\ n # 0
        BY <1>1, <2>1
      <4>2. g = n
        BY <3>1, <4>1, OwnIsLast
      <4>3. UnitEnd(u, n) - UnitStart(u, n) = u[n].size
        BY <4>1, StartOfUnit
      <4> QED BY <2>2, <3>1, <4>1, <4>2, <4>3
    <3>2. CASE u[n].type # type
      BY <2>1, <2>2, <3>2
    <3> QED BY <3>1, <3>2
  <2> HIDE DEF g
  <2> QED BY <1>3, <2>2, <2>3 DEF SetIs, g
<1> QED BY <1>2, <1>3

(***************************************************************************)
(* The scan of Annex B extradata finds the last parameter sets: the whole  *)
(* of AnalysisVideoPPSSPS for that form, for lists of units of any length. *)
(***************************************************************************)
LEMMA ScanFindsTheLast ==
  ASSUME NEW u \in Seq(Units), OnlySetsFollow(u)
  PROVE  /\ SetIs(u, 7, ScanAll(u).spsIndex, ScanAll(u).spsSize)
         /\ SetIs(u, 8, ScanAll(u).ppsIndex, ScanAll(u).ppsSize)
<1> DEFINE n == Len(u)
           s == ScanTo(u, n)
           size == UnitEnd(u, n)
           t == ScanAll(u)
<1>1. n \in Nat /\ n \in 0 .. n
  OBVIOUS
<1>2. ScanKnows(u, n)
  BY <1>1, ScanKnowsAll
<1>3. /\ s \in ScanFields
      /\ s.cur = 1 <=> n # 0 /\ u[n].type = 7
      /\ s.cur = 2 <=> n # 0 /\ u[n].type = 8
      /\ SetKnown(u, n, 7, s.spsIndex, s.spsSize)
      /\ SetKnown(u, n, 8, s.ppsIndex, s.ppsSize)
  BY <1>1, <1>2 DEF ScanKnows, ScanFields
<1>4. t = IF s.cur = 1 THEN [s EXCEPT !.spsSize = size - s.spsIndex]
          ELSE IF s.cur = 2 THEN [s EXCEPT !.ppsSize = size - s.ppsIndex] ELSE s
  BY DEF ScanAll
<1> HIDE DEF s, t, size
<1>5. /\ t.spsIndex = s.spsIndex /\ t.ppsIndex = s.ppsIndex
      /\ t.spsSize = IF s.cur = 1 THEN size - s.spsIndex ELSE s.spsSize
      /\ t.ppsSize = IF s.cur = 2 THEN size - s.ppsIndex ELSE s.ppsSize
  <2>1. CASE s.cur = 1
    BY <1>3, <1>4, <2>1 DEF ScanFields
  <2>2. CASE s.cur = 2
    BY <1>3, <1>4, <2>2 DEF ScanFields
  <2>3. CASE s.cur = 0
    BY <1>3, <1>4, <2>3 DEF ScanFields
  <2>4. s.cur \in {0, 1, 2}
    BY <1>3 DEF ScanFields
  <2> QED BY <2>1, <2>2, <2>3, <2>4
<1>6. 7 \in Nat /\ 8 \in Nat
  OBVIOUS
<1>7. SetIs(u, 7, t.spsIndex, t.spsSize)
  BY <1>3, <1>5, <1>6, SetIsLast DEF size
<1>8. SetIs(u, 8, t.ppsIndex, t.ppsSize)
  BY <1>3, <1>5, <1>6, SetIsLast DEF size
<1> QED BY <1>7, <1>8 DEF t

-----------------------------------------------------------------------------
(***************************************************************************)
(* The invariant of EvoMediaSource: SourceSound, and the shape of what it  *)
(* speaks of.                                                              *)
(***************************************************************************)
SrcShape ==
  /\ SrcTypeOK
  /\ VideoDecoderName \in Names \cup {<<>>}
  /\ crashed \in BOOLEAN

\* Whatever a failing call may find, it finds after an Open that failed.
OpenReads ==
  context_ # 0 /\ ~crashed =>
    /\ {context_, videoStream_, codecContext_, packet_} = {context_} /\ context_ \in live
    /\ videoIndex_ + 1 \in 1 .. Len(medium.codecs)
    /\ CodecOf[decoder] = medium.codecs[videoIndex_ + 1]

LostCodec == ~crashed /\ codecContext_ \notin live \cup {0} => refused # "no"

LostStream == ~crashed /\ videoStream_ \notin live \cup {0} => refused # "no"

CrashTold == crashed => refused # "no" \/ (medium.codecs # <<>> /\ medium.extra.form = "none")

SetsFound ==
  context_ # 0 /\ medium.extra.form = "annexb" /\ OnlySetsFollow(medium.extra.units) =>
    /\ sps = LastUnit(medium.extra.units, 7)
    /\ pps = LastUnit(medium.extra.units, 8)

SrcInv == SrcShape /\ OpenReads /\ LostCodec /\ LostStream /\ CrashTold /\ SetsFound

LEMMA KindIsFound ==
  ASSUME NEW m \in Medias, NEW wanted, LastOfKind(m, wanted) # 0
  PROVE  /\ LastOfKind(m, wanted) \in 1 .. Len(m.codecs)
         /\ m.codecs[LastOfKind(m, wanted)] \in DOMAIN CodecOf
         /\ CodecOf[m.codecs[LastOfKind(m, wanted)]] = m.codecs[LastOfKind(m, wanted)]
         /\ m.codecs # <<>>
<1> DEFINE Known == {c \in DOMAIN CodecOf : CodecOf[c] = c}
           found == {i \in 1 .. Len(m.codecs) : KindOf(m.codecs[i]) = wanted}
<1>1. m.codecs \in Seq(Known) /\ Len(m.codecs) \in Nat
  <2>1. m.codecs \in Seq(Known)
    BY EvoMediaAssumption
  <2> QED BY <2>1
<1>2. LastOfKind(m, wanted) = Max(found) /\ found # {}
  BY DEF LastOfKind
<1>3. found \in SUBSET (1 .. Len(m.codecs))
  OBVIOUS
<1> HIDE DEF found
<1>4. Max(found) \in 1 .. Len(m.codecs)
  BY <1>1, <1>2, <1>3, GreatestNumber
<1>5. m.codecs[Max(found)] \in Known
  <2> HIDE DEF Known
  <2> QED BY <1>1, <1>4
<1>6. m.codecs # <<>>
  <2>1. Len(<<>>) = 0
    OBVIOUS
  <2> QED BY <1>4, <2>1
<1> QED BY <1>2, <1>4, <1>5, <1>6

LEMMA BestDecoder ==
  ASSUME NEW names \in Names \cup {<<>>}, NEW codec \in DOMAIN CodecOf, CodecOf[codec] = codec
  PROVE  CodecOf[GetBestDecoder(names, codec)] = codec
<1> DEFINE fits == {i \in 1 .. Len(names) : names[i] \in DOMAIN CodecOf /\ CodecOf[names[i]] = codec}
<1>1. Len(names) \in Nat
  BY EvoMediaAssumption
<1>2. CASE fits = {}
  BY <1>2 DEF GetBestDecoder
<1>3. CASE fits # {}
  <2>1. fits \in SUBSET (1 .. Len(names))
    OBVIOUS
  <2>2. Min(fits) \in fits
    <3> HIDE DEF fits
    <3> QED BY <1>1, <1>3, <2>1, LeastIs
  <2>3. GetBestDecoder(names, codec) = names[Min(fits)]
    BY <1>3 DEF GetBestDecoder
  <2> QED BY <2>2, <2>3
<1> QED BY <1>2, <1>3

\* What is copied is copied from the context that is open.
LEMMA SetFrom ==
  ASSUME NEW context, NEW start, NEW size
  PROVE  SetAt(context, start, size).from \in {0, context}
BY DEF SetAt, NoSet

\* What LastUnit is, with the context that is copied from named.
LastSet(context, u, type) ==
  LET found == OfType(u, Len(u), type)
  IN  IF found = {} THEN NoSet ELSE SetAt(context, UnitStart(u, Max(found)), u[Max(found)].size)

LEMMA SetOf ==
  ASSUME NEW context, NEW u, NEW type, NEW index, NEW size, SetIs(u, type, index, size)
  PROVE  SetAt(context, index, size) = LastSet(context, u, type)
<1>1. CASE OfType(u, Len(u), type) = {}
  BY <1>1 DEF SetIs, SetAt, LastSet
<1>2. CASE OfType(u, Len(u), type) # {}
  BY <1>2 DEF SetIs, SetAt, LastSet
<1> QED BY <1>1, <1>2

LEMMA LastUnitIs ==
  \A u, type : LastUnit(u, type) = LastSet(context_, u, type)
BY DEF LastUnit, LastSet, OfType

LEMMA AnalysisKeeps ==
  ASSUME SrcInv, NEW context \in 1 .. MaxOpens, NEW m \in Medias,
         AnalysisVideoPPSSPS(context, m)
  PROVE  /\ sps'.from \in 0 .. MaxOpens /\ pps'.from \in 0 .. MaxOpens
         /\ m.extra.form = "annexb" /\ OnlySetsFollow(m.extra.units) =>
              /\ sps' = LastSet(context, m.extra.units, 7)
              /\ pps' = LastSet(context, m.extra.units, 8)
<1>0. MaxOpens \in Nat /\ m.extra.form \in {"none", "annexb", "avcc"}
  BY EvoMediaAssumption
<1>1. context \in 0 .. MaxOpens /\ 0 \in 0 .. MaxOpens
  BY <1>0
<1>2. sps.from \in 0 .. MaxOpens /\ pps.from \in 0 .. MaxOpens
  BY DEF SrcInv, SrcShape, SrcTypeOK
<1>3. CASE m.extra.form = "none"
  BY <1>2, <1>3 DEF AnalysisVideoPPSSPS
<1>4. CASE m.extra.form = "annexb"
  <2> DEFINE u == m.extra.units
             s == ScanAll(u)
  <2>1. sps' = SetAt(context, s.spsIndex, s.spsSize) /\ pps' = SetAt(context, s.ppsIndex, s.ppsSize)
    BY <1>4 DEF AnalysisVideoPPSSPS, AnalysesAnnexb
  <2>2. sps'.from \in {0, context} /\ pps'.from \in {0, context}
    <3> HIDE DEF s
    <3> QED BY <2>1, SetFrom
  <2>3. ASSUME OnlySetsFollow(u) PROVE sps' = LastSet(context, u, 7) /\ pps' = LastSet(context, u, 8)
    <3>1. u \in Seq(Units)
      BY <1>4, EvoMediaAssumption DEF Units
    <3>2. SetIs(u, 7, s.spsIndex, s.spsSize) /\ SetIs(u, 8, s.ppsIndex, s.ppsSize)
      BY <2>3, <3>1, ScanFindsTheLast
    <3> HIDE DEF s, u
    <3> QED BY <2>1, <3>2, SetOf
  <2> HIDE DEF s
  <2> QED BY <1>1, <1>4, <2>2, <2>3
<1>5. CASE m.extra.form = "avcc"
  <2>1. CASE m.extra.lengthSize = 3
    BY <1>2, <1>5, <2>1 DEF AnalysisVideoPPSSPS, AnalysesAvcC
  <2>2. CASE m.extra.lengthSize # 3
    <3>1. AnalysesAvcC(context, m.extra)
      BY <1>5 DEF AnalysisVideoPPSSPS
    <3>2. \E start, size : sps' = SetAt(context, start, size) \/ sps' = NoSet
      BY <2>2, <3>1 DEF AnalysesAvcC
    <3>3. \E start, size : pps' = SetAt(context, start, size) \/ pps' = NoSet
      BY <2>2, <3>1 DEF AnalysesAvcC
    <3>4. NoSet.from = 0
      BY DEF NoSet
    <3>5. sps'.from \in {0, context} /\ pps'.from \in {0, context}
      BY <3>2, <3>3, <3>4, SetFrom
    <3> QED BY <1>1, <1>5, <3>5
  <2> QED BY <2>1, <2>2
<1> QED BY <1>0, <1>3, <1>4, <1>5

LEMMA SrcInvInit == ASSUME SrcInit PROVE SrcInv
<1>1. MaxOpens \in Nat /\ NoSet.from = 0
  BY EvoMediaAssumption DEF NoSet
<1>2. 0 \in 0 .. MaxOpens /\ -1 \in Int
  BY <1>1
<1>3. SrcShape
  BY <1>1, <1>2 DEF SrcInit, SrcShape, SrcTypeOK
<1>4. OpenReads /\ LostCodec /\ LostStream /\ CrashTold /\ SetsFound
  BY DEF SrcInit, OpenReads, LostCodec, LostStream, CrashTold, SetsFound
<1> QED BY <1>3, <1>4 DEF SrcInv

\* An Open that fails leaves no context, and says so.
LEMMA OpenFailsKeeps ==
  ASSUME SrcInv, Opens, context_' = 0, refused' \in {"open", "find", "refused"}, crashed' = crashed,
         videoStream_' \in {0, videoStream_, opens'}, codecContext_' \in {codecContext_, opens'},
         videoIndex_' \in Int, UNCHANGED <<live, packet_, sps, pps>>
  PROVE  SrcInv'
<1>1. opens' = opens + 1 /\ opens < MaxOpens /\ ~crashed /\ VideoDecoderName' = VideoDecoderName
  BY DEF Opens
<1>2. MaxOpens \in Nat /\ opens \in 0 .. MaxOpens
  BY EvoMediaAssumption DEF SrcInv, SrcShape, SrcTypeOK
<1>3. opens' \in 0 .. MaxOpens /\ 0 \in 0 .. MaxOpens
  BY <1>1, <1>2
<1>4. SrcShape'
  BY <1>1, <1>3 DEF SrcInv, SrcShape, SrcTypeOK
<1>5. ~crashed'
  BY <1>1
<1>6. OpenReads' /\ LostCodec' /\ LostStream' /\ CrashTold' /\ SetsFound'
  BY <1>5 DEF OpenReads, LostCodec, LostStream, CrashTold, SetsFound
<1> QED BY <1>4, <1>6 DEF SrcInv

LEMMA IndexIsInt ==
  ASSUME NEW m \in Medias, NEW wanted PROVE LastOfKind(m, wanted) \in Nat
<1>1. CASE LastOfKind(m, wanted) = 0
  BY <1>1
<1>2. CASE LastOfKind(m, wanted) # 0
  <2>1. LastOfKind(m, wanted) \in 1 .. Len(m.codecs)
    BY <1>2, KindIsFound
  <2>2. Len(m.codecs) \in Nat
    BY EvoMediaAssumption
  <2> QED BY <2>1, <2>2
<1> QED BY <1>1, <1>2

LEMMA SucceedsKeeps ==
  ASSUME SrcInv, NEW m \in Medias, NEW wanted \in {"video", "audio"}, SrcSucceeds(m, wanted)
  PROVE  SrcInv'
<1> DEFINE i == LastOfKind(m, wanted)
<1>1. /\ opens' = opens + 1 /\ opens < MaxOpens /\ ~crashed /\ VideoDecoderName' = VideoDecoderName
      /\ i # 0
      /\ live' = live \cup {opens'}
      /\ context_' = opens' /\ videoStream_' = opens' /\ codecContext_' = opens' /\ packet_' = opens'
      /\ videoIndex_' = i - 1 /\ refused' = "no"
      /\ decoder' = GetBestDecoder(VideoDecoderName, m.codecs[videoIndex_' + 1])
      /\ crashed' = (wanted = "video" /\ m.extra.form = "none")
  BY DEF SrcSucceeds, Opens, Wanted
<1>2. MaxOpens \in Nat /\ opens \in 0 .. MaxOpens
  BY EvoMediaAssumption DEF SrcInv, SrcShape, SrcTypeOK
<1>3. opens' \in 1 .. MaxOpens /\ opens' \in 0 .. MaxOpens /\ opens' # 0
  BY <1>1, <1>2
<1>4. /\ i \in 1 .. Len(m.codecs) /\ m.codecs[i] \in DOMAIN CodecOf /\ CodecOf[m.codecs[i]] = m.codecs[i]
      /\ m.codecs # <<>> /\ i \in Nat
  BY <1>1, KindIsFound, IndexIsInt
<1>5. medium' = [m EXCEPT !.extra = IF wanted = "video" THEN @ ELSE [form |-> "other"]]
  BY DEF SrcSucceeds
<1>6. m = [codecs |-> m.codecs, extra |-> m.extra]
  BY EvoMediaAssumption
<1>7. /\ medium'.codecs = m.codecs
      /\ medium'.extra = IF wanted = "video" THEN m.extra ELSE [form |-> "other"]
  <2>1. PICK c, e : c = m.codecs /\ e = m.extra
    OBVIOUS
  <2>2. m = [codecs |-> c, extra |-> e]
    BY <1>6, <2>1
  <2>3. CASE wanted = "video"
    <3>1. medium' = [m EXCEPT !.extra = @]
      BY <1>5, <2>3
    <3> QED BY <2>1, <2>2, <2>3, <3>1
  <2>4. CASE wanted # "video"
    <3>1. medium' = [m EXCEPT !.extra = [form |-> "other"]]
      BY <1>5, <2>4
    <3> QED BY <2>1, <2>2, <2>4, <3>1
  <2> QED BY <2>3, <2>4
<1> HIDE DEF i
<1>8. videoIndex_' + 1 = i /\ videoIndex_' \in Int
  BY <1>1, <1>4
<1>9. ASSUME wanted = "video"
      PROVE  SetsFound' /\ sps'.from \in 0 .. MaxOpens /\ pps'.from \in 0 .. MaxOpens
  <2>1. medium'.extra = m.extra /\ AnalysisVideoPPSSPS(opens', m)
    BY <1>7, <1>9 DEF SrcSucceeds
  <2>2. /\ sps'.from \in 0 .. MaxOpens /\ pps'.from \in 0 .. MaxOpens
        /\ m.extra.form = "annexb" /\ OnlySetsFollow(m.extra.units) =>
             /\ sps' = LastSet(opens', m.extra.units, 7)
             /\ pps' = LastSet(opens', m.extra.units, 8)
    BY <1>3, <2>1, AnalysisKeeps
  <2>3. SetsFound'
    <3>1. SUFFICES ASSUME m.extra.form = "annexb", OnlySetsFollow(m.extra.units)
                   PROVE  /\ sps' = LastUnit(m.extra.units, 7)'
                          /\ pps' = LastUnit(m.extra.units, 8)'
      BY <2>1 DEF SetsFound
    <3>2. /\ LastUnit(m.extra.units, 7)' = LastSet(opens', m.extra.units, 7)
          /\ LastUnit(m.extra.units, 8)' = LastSet(opens', m.extra.units, 8)
      BY <1>1, LastUnitIs DEF LastUnit, LastSet, OfType
    <3> QED BY <2>2, <3>1, <3>2
  <2> QED BY <2>2, <2>3
<1>10. ASSUME wanted # "video"
       PROVE  SetsFound' /\ sps'.from \in 0 .. MaxOpens /\ pps'.from \in 0 .. MaxOpens
  <2>1. UNCHANGED <<sps, pps>> /\ medium'.extra.form = "other"
    BY <1>7, <1>10 DEF SrcSucceeds
  <2>2. sps'.from \in 0 .. MaxOpens /\ pps'.from \in 0 .. MaxOpens
    BY <2>1 DEF SrcInv, SrcShape, SrcTypeOK
  <2>3. SetsFound'
    BY <2>1 DEF SetsFound
  <2> QED BY <2>2, <2>3
<1>11. SetsFound' /\ sps'.from \in 0 .. MaxOpens /\ pps'.from \in 0 .. MaxOpens
  BY <1>9, <1>10
<1>12. SrcShape'
  <2>1. live' \subseteq 1 .. MaxOpens /\ VideoDecoderName' \in Names \cup {<<>>} /\ crashed' \in BOOLEAN
    BY <1>1, <1>3 DEF SrcInv, SrcShape, SrcTypeOK
  <2> QED BY <1>1, <1>3, <1>8, <1>11, <2>1 DEF SrcShape, SrcTypeOK
<1>13. OpenReads'
  <2>1. CodecOf[decoder'] = m.codecs[i]
    BY <1>1, <1>4, <1>8, BestDecoder DEF SrcInv, SrcShape
  <2>2. opens' \in live'
    BY <1>1
  <2> QED BY <1>1, <1>4, <1>7, <1>8, <2>1, <2>2 DEF OpenReads
<1>14. LostCodec' /\ LostStream'
  BY <1>1 DEF LostCodec, LostStream
<1>15. CrashTold'
  BY <1>1, <1>4, <1>7 DEF CrashTold
<1> QED BY <1>11, <1>12, <1>13, <1>14, <1>15 DEF SrcInv

LEMMA CloseKeeps == ASSUME SrcInv, Close PROVE SrcInv'
<1>1. /\ ~crashed /\ crashed' = (codecContext_ # 0 /\ codecContext_ \notin live)
      /\ codecContext_' = 0 /\ context_' = 0 /\ packet_' = 0 /\ videoIndex_' = -1 /\ videoStream_' = 0
      /\ live' = live \ {context_} /\ sps' = NoSet /\ pps' = NoSet
      /\ refused' = IF crashed' THEN refused ELSE "no"
      /\ UNCHANGED <<VideoDecoderName, opens>>
  BY DEF Close
<1>2. MaxOpens \in Nat /\ 0 \in 0 .. MaxOpens
  BY EvoMediaAssumption
<1>3. NoSet.from = 0
  BY DEF NoSet
<1>4. SrcShape'
  <2>1. /\ live \subseteq 1 .. MaxOpens /\ opens \in 0 .. MaxOpens
        /\ refused \in {"no", "open", "find", "refused"}
        /\ VideoDecoderName \in Names \cup {<<>>}
    BY DEF SrcInv, SrcShape, SrcTypeOK
  <2>2. live' \subseteq 1 .. MaxOpens
    <3>1. live' \subseteq live
      BY <1>1
    <3> QED BY <2>1, <3>1
  <2>5. -1 \in Int
    OBVIOUS
  <2>4. crashed' \in BOOLEAN
    BY <1>1
  <2>3. refused' \in {"no", "open", "find", "refused"}
    BY <1>1, <2>1
  <2> QED BY <1>1, <1>2, <1>3, <2>1, <2>2, <2>3, <2>4, <2>5 DEF SrcShape, SrcTypeOK
<1>5. OpenReads' /\ LostCodec' /\ LostStream' /\ SetsFound'
  BY <1>1 DEF OpenReads, LostCodec, LostStream, SetsFound
<1>6. CrashTold'
  BY <1>1 DEF SrcInv, LostCodec, CrashTold
<1> QED BY <1>4, <1>5, <1>6 DEF SrcInv

\* A call that only looks leaves all as it was, but may crash.
LEMMA LooksKeeps ==
  ASSUME SrcInv, ~crashed, crashed' \in BOOLEAN, crashed' => refused # "no",
         UNCHANGED <<live, context_, videoStream_, codecContext_, packet_, videoIndex_, sps, pps,
                     decoder, opens, medium, refused>>,
         VideoDecoderName' \in Names \cup {<<>>}
  PROVE  SrcInv'
<1>1. SrcShape'
  BY DEF SrcInv, SrcShape, SrcTypeOK
<1>2. OpenReads' /\ LostCodec' /\ LostStream' /\ CrashTold'
  BY DEF SrcInv, OpenReads, LostCodec, LostStream, CrashTold
<1>3. SetsFound'
  BY DEF SrcInv, SetsFound, OnlySetsFollow, LastUnit
<1> QED BY <1>1, <1>2, <1>3 DEF SrcInv

\* The invariant of EvoMediaSource.
THEOREM SourceInvariance == SrcSpec => []SrcInv
<1>1. ASSUME SrcInv, [SrcNext]_srcVars PROVE SrcInv'
  <2>0. VideoDecoderName \in Names \cup {<<>>} /\ opens \in 0 .. MaxOpens /\ MaxOpens \in Nat
    BY <1>1, EvoMediaAssumption DEF SrcInv, SrcShape, SrcTypeOK
  <2>1. CASE SrcOpenFails
    <3>1. videoIndex_ \in Int
      BY <1>1 DEF SrcInv, SrcShape, SrcTypeOK
    <3> QED BY <1>1, <2>1, <3>1, OpenFailsKeeps DEF SrcOpenFails
  <2>2. ASSUME NEW m \in Medias, NEW wanted \in {"video", "audio"}, SrcFindFails(m, wanted) PROVE SrcInv'
    <3>1. videoIndex_ \in Int
      BY <1>1 DEF SrcInv, SrcShape, SrcTypeOK
    <3>2. videoStream_' \in {0, videoStream_, opens'}
      BY <2>2 DEF SrcFindFails
    <3> QED BY <1>1, <2>2, <3>1, <3>2, OpenFailsKeeps DEF SrcFindFails
  <2>3. ASSUME NEW m \in Medias, NEW wanted \in {"video", "audio"}, SrcRefuses(m, wanted) PROVE SrcInv'
    <3>1. videoIndex_' \in Int
      BY <2>3, IndexIsInt DEF SrcRefuses
    <3>2. codecContext_' \in {codecContext_, opens'}
      BY <2>3 DEF SrcRefuses
    <3> QED BY <1>1, <2>3, <3>1, <3>2, OpenFailsKeeps DEF SrcRefuses
  <2>4. ASSUME NEW m \in Medias, NEW wanted \in {"video", "audio"}, SrcSucceeds(m, wanted) PROVE SrcInv'
    BY <1>1, <2>4, SucceedsKeeps
  <2>5. CASE Close
    BY <1>1, <2>5, CloseKeeps
  <2>6. ASSUME NEW names \in Names, SetVideoCodecName(names) PROVE SrcInv'
    <3>1. ~crashed /\ crashed' = crashed /\ VideoDecoderName' \in Names \cup {<<>>}
      BY <2>6 DEF SetVideoCodecName
    <3>2. crashed' \in BOOLEAN /\ ~crashed'
      BY <1>1, <3>1 DEF SrcInv, SrcShape
    <3> QED BY <1>1, <2>6, <3>1, <3>2, LooksKeeps DEF SetVideoCodecName
  <2>7. CASE ReadsFrame
    <3>0. codecContext_ = context_ /\ packet_ = context_ /\ context_ \in live
      BY <1>1, <2>7 DEF ReadsFrame, SrcInv, OpenReads
    <3>1. ~crashed' /\ crashed' \in BOOLEAN
      BY <2>7, <3>0 DEF ReadsFrame
    <3> QED BY <1>1, <2>0, <2>7, <3>1, LooksKeeps DEF ReadsFrame
  <2>8. CASE GetsCodec
    <3>1. crashed' => refused # "no"
      BY <1>1, <2>8 DEF GetsCodec, SrcInv, LostCodec
    <3>2. crashed' \in BOOLEAN
      BY <2>8 DEF GetsCodec
    <3> QED BY <1>1, <2>0, <2>8, <3>1, <3>2, LooksKeeps DEF GetsCodec
  <2>9. CASE GetsStream
    <3>1. crashed' => refused # "no"
      BY <1>1, <2>9 DEF GetsStream, SrcInv, LostStream
    <3>2. crashed' \in BOOLEAN
      BY <2>9 DEF GetsStream
    <3> QED BY <1>1, <2>0, <2>9, <3>1, <3>2, LooksKeeps DEF GetsStream
  <2>10. CASE UNCHANGED srcVars
    BY <1>1, <2>10 DEF srcVars, SrcInv, SrcShape, SrcTypeOK, OpenReads, LostCodec, LostStream,
                       CrashTold, SetsFound, OnlySetsFollow, LastUnit
  <2>11. CASE SrcRests
    BY <2>10, <2>11 DEF SrcRests
  <2> QED BY <1>1, <2>1, <2>2, <2>3, <2>4, <2>5, <2>6, <2>7, <2>8, <2>9, <2>10, <2>11 DEF SrcNext
<1> QED BY <1>1, SrcInvInit, PTL DEF SrcSpec

\* EvoMediaSource (MediaSource.cpp): whatever media are opened, whichever way an
\* Open fails, an open source reads a context that lives with a decoder of the
\* stream's codec; freed memory is used only where an Open failed; the parameter
\* sets are the last of the extradata.
THEOREM SourceReadsItsMedium == SrcSpec => []SourceSound
<1>1. SrcInv => SourceSound
  BY DEF SrcInv, OpenReads, LostCodec, LostStream, CrashTold, SetsFound, SourceSound
<1> QED BY <1>1, SourceInvariance, PTL

\* The contexts are those of the calls of Open there may be.
THEOREM SourceTypes == SrcSpec => []SrcTypeOK
<1>1. SrcInv => SrcTypeOK
  BY DEF SrcInv, SrcShape
<1> QED BY <1>1, SourceInvariance, PTL

-----------------------------------------------------------------------------
(***************************************************************************)
(* The composition that TLC checks.  In it every part keeps to its own     *)
(* specification, so that what is proved of the parts holds of it.         *)
(***************************************************************************)
LEMMA PartsStep ==
  ASSUME [Next]_mcVars
  PROVE  /\ [RwNext]_rwVars /\ [BarNext]_barVars /\ [CvNext]_cvVars /\ [UtNext]_utVars
         /\ [PpNext]_poolVars /\ [BatchNext]_batchVars /\ [SrcNext]_srcVars /\ [PutNext]_putVars
         /\ [RespNext]_respVars
<1>1. CASE UNCHANGED mcVars
  BY <1>1 DEF mcVars
<1>2. CASE Only("rwlock") /\ RwNext
  BY <1>2 DEF Only
<1>3. CASE Only("barrier") /\ BarNext
  BY <1>3 DEF Only
<1>4. CASE Only("cond") /\ CvNext
  BY <1>4 DEF Only
<1>5. CASE Only("thread") /\ UtNext
  BY <1>5 DEF Only
<1>6. CASE Only("pool") /\ PpNext
  BY <1>6 DEF Only
<1>7. CASE Only("batch") /\ BatchNext
  BY <1>7 DEF Only
<1>8. CASE Only("source") /\ SrcNext
  BY <1>8 DEF Only
<1>9. CASE Only("upload") /\ PutNext
  BY <1>9 DEF Only
<1>10. CASE Only("response") /\ RespNext
  BY <1>10 DEF Only
<1> QED BY <1>1, <1>2, <1>3, <1>4, <1>5, <1>6, <1>7, <1>8, <1>9, <1>10 DEF Next

\* Every behaviour of the composition is, of each part, one of that part.
THEOREM PartsImplement ==
  Spec => RwSpec /\ BarSpec /\ CvSpec /\ UtSpec /\ PpSpec /\ BatchSpec /\ SrcSpec /\ PutSpec /\ RespSpec
<1>1. Init => /\ RwInit /\ BarInit /\ CvInit /\ UtInit /\ PpInit /\ BatchInit /\ SrcInit
              /\ PutInit /\ RespInit
  BY DEF Init
<1> QED BY <1>1, PartsStep, PTL
        DEF Spec, RwSpec, BarSpec, CvSpec, UtSpec, PpSpec, BatchSpec, SrcSpec, PutSpec, RespSpec

\* Each part keeps to its types in the composition.
THEOREM PartsTypes == Spec => []PartsTypeOK
<1>1. RwInv => RwTypeOK
  BY DEF RwInv
<1>2. BarInv => BarTypeOK
  BY DEF BarInv
<1>3. CvInv => CvTypeOK
  BY DEF CvInv
<1>4. UtInv => UtTypeOK
  BY DEF UtInv
<1>5. BatchInv => BatchTypeOK
  BY DEF BatchInv
<1>6. RespSpec => []RespTypeOK
  BY ResponseInvariance, PTL DEF RespInv
<1> QED BY <1>1, <1>2, <1>3, <1>4, <1>5, <1>6, PartsImplement, RwLockSound, BarInvariance, CvInvariance,
           UtInvariance, PoolTypes, BatchInvariance, SourceTypes, UploadTypes, PTL DEF PartsTypeOK

\* All that is proved of the parts, of the composition of them.
THEOREM PartsAreSound ==
  Spec => /\ [](BarrierHolds /\ BroadcastReaches /\ UtSound /\ PoolSound /\ BatchSound)
          /\ [](SourceSound /\ PutSound /\ HandleAlive)
          /\ IsSharedLock
BY PartsImplement, BarrierIsOne, BroadcastIsKept, OnceAndSelf, PacketsHaveOneOwner, BatchDelivers,
   SourceReadsItsMedium, UploadKeepsPace, HandleStaysAlive, RwLockRefines, PTL

=============================================================================
