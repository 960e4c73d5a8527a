# Verification of the aws_kinesis client

This directory holds TLA+ models of the program under `src/`, the TLC
configurations that check them on small instances, and proofs, checked by TLAPS,
that hold for every value of the constants. `PROJECT.json` lists the components,
the runs, the faulty variants each property must reject, the source lines behind
each definition, the hazards and the theorems.

## 1. The system

The repository plays and produces Amazon Kinesis Video streams.

| component | source | state it keeps | operations |
|---|---|---|---|
| ring buffer | `getmedia/memoryBuffer.h` | byte array, read index, write index, `full` | `Init Clear read_ptr read write_ptr write` |
| inline media source | `getmedia/InlineMediaSource.cpp` | a ring under a spin lock, `sem_data`, `sem_play`, `stop`, two threads | `Start`, `Stop`, the destructor, the callbacks `Fill`, `DataReceivedEventHandler`, `ContinueHandler` |
| blocking queue | `FFModule/MemManager/EvoQueue.hpp` | a list, `curLen`, `isStop`, `forceQuit`, a mutex, two condition variables | `Enqueue Dequeue Clear Restart Count` |
| media decoder | `FFModule/MediaSource/MediaDecoder.cpp` | demuxer and codec contexts, three queues, `TimePosMutex`, `ConvertMutex`, `IsEnd` | `Open Decode SetTimePos SetConvert CheckIsEnd`, the dequeue calls |
| decoders and converter | `VideoDecoder.cpp`, `AudioDecoder.cpp`, `MediaConvert.cpp` | codec context, frame, `KeepIFrame`, attached converter | `DecodePacket Flush Attach` |
| batch GetMedia consumer | `getmedia/FFMPEGGetMediaDataProcess.h` | a ring, a semaphore, `stop`, `open_success`, one thread | `Start Stop Fill DataReceivedEventHandler ContinueHandler` |
| GetMedia client, samples | `KinesisMedia.cpp`, `getMedia.cpp` | `DataReciver`: `playCount`, `index_`, codec | `GetMediaData`, `testFile`, `testStream`, `testInline` |
| demuxer wrapper, file source | `MediaSourceBase.cpp`, `MediaSource.cpp` | format context, packet, cached codec contexts | `Open Close Seek ReadFrame GetContext` |
| packet pool | `PacketPool.cpp`, `PacketList.cpp`, `EvoPacketAllocator.cpp` | a map from tag to a bounded list of packets | `GetPacket PutPacket DeleteInstance` |
| transcoder, ADTS | `AudioTranscode.cpp`, `linux/TransformADTS.h` | codec contexts | `Init Transcode Close`, header packing |
| clocks | `MediaSynchronise.cpp`, `MClock.h` | audio, video and external clock | `UpdateVideoPts GetVideoDelay` ... |
| SDL output | `SDLControl.cpp` | an EvoQueue of three packets, the audio buffer | `audioCall`, the queue calls |
| thread primitives | `core/thread_win.cpp`, `core/lock.h` | a port of libuv's primitives | semaphore, mutex, rwlock, condition, barrier, once, thread creation |
| uploaders | `linux/kinesis_video_put*.cpp`, `InlineMediaOutput.cpp` | stream handle, time stamps of the last frame | `gstreamer_init`, `on_new_sample`, `put_frame` with retries |
| response patch | `linux/script/patch/.../Response.cpp` | a curl handle, `terminated_` | `create completeSync terminate` |

How they interact: `InlineMediaSource` runs `GetMediaData` on one thread, whose
HTTP client calls `DataReceivedEventHandler` back with chunks, which go into the
ring; its other thread opens the demuxer and reads frames, and the demuxer calls
`Fill` back for bytes. `MediaDecoder` runs the demuxer and the codecs on the
caller's threads and hands frames over through an `EvoQueue` each for video,
audio and undecoded audio; the player polls these queues and may seek.

What is hard: flags read outside locks (`stop`, `isStop`, `IsEnd`), semaphores
that count posts from earlier sessions, a spin loop that does not look at the
stop flag, condition waits without a loop, notification without the mutex,
a mutex held across a blocking call, and objects restarted after a stop. What
must hold: bytes and frames arrive in order and once, nothing of an old
position or session is mixed into the new one, nobody sleeps for ever, and
memory is freed only when no thread can reach it.

## 2. Modules

| module | models | extends |
|---|---|---|
| `RingBuffer` | the index arithmetic of `memoryBuffer.h`, as operators on a record of the two indices and `full` | |
| `ByteChannel` | the abstract specification: a bounded first-in first-out channel of bytes that can be emptied | |
| `InlineMediaSource` | the caller, `thread_play` and `thread_inline` | `RingBuffer`, instantiates `ByteChannel` |
| `InlineMediaSourceProofs` | theorems and proofs about it | `InlineMediaSource` |
| `EvoQueue` | the blocking queue with its threads | |
| `EvoQueueProofs` | theorems and proofs about it | `EvoQueue` |
| `MediaDecoder` | `Decode`, `SetTimePos`, the player; each step of a queue call is a step of `EvoQueue` | `EvoQueue` |
| `MediaDecoderProofs` | theorems and proofs about it | `MediaDecoder`, `EvoQueueProofs` |
| `MediaSourceBase` | the demuxer wrapper: its Opens, Close and cache | |
| `MediaSourceBaseProofs` | theorems and proofs about it | `MediaSourceBase` |
| `DataReciver` | `DataReciver` of `testInline` on the playing thread | `MediaSourceBase` |
| `DataReciverProofs` | theorems and proofs about it | `DataReciver`, `MediaSourceBaseProofs` |
| `DecoderSession` | `MediaDecoder` from `Init` to `Clear`: `Open`, `SetStartPos`, the filter | |
| `VideoConvert` | `SetConvert` against a `Decode` that converts pictures | |
| `AudioOutput` | SDL's audio callback over the queue of frames | |
| `MediaSynchronise` | when a picture is due, given the sound | |
| `UvSemaphore` | semaphores and mutexes, as operators | |
| `SharedLock` | the abstract specification: any number of readers or one writer | |
| `ReadWriteLock` | the read-write lock | `UvSemaphore`, instantiates `SharedLock` |
| `UvBarrier`, `UvCond` | the barrier; the condition variable with and without Windows' own | `UvSemaphore` |
| `UvThread` | thread creation, join, self, and once | |
| `ThreadWinProofs` | theorems and proofs about the lock, the barrier, the condition and the threads | the four modules above |
| `PacketPool` | the pool of packets, who owns each, `GetInstance` | |
| `FFMPEGGetMediaDataProcess` | the batch consumer of a GetMedia request | `RingBuffer` |
| `EvoMediaSource` | the H.264 file source and its parameter sets | |
| `TransformADTS` | the ADTS header, as operators on bytes | |
| `KinesisPut` | the video and the audio uploader | `TransformADTS` |
| `Response` | the SDK's Response: `completeSync` against `terminate` | |
| `MCPlayer`, `MCParts` | instances that hold several of the parts above | those parts |
| `PlayerProofs` | theorems and proofs about the parts of `MCPlayer`, and about their composition | `MCPlayer` |
| `PartsProofs` | the same for the parts of `MCParts` | `MCParts`, `ThreadWinProofs` |
| other `MC*` | instances for TLC | the module of that name |

**InlineMediaSource.** `ctl`, `play` and `inline` say what each thread does next.
An action is one access to shared state: one read of `stop`, one post or wait,
or what a thread does while it holds the spin lock. Because `stop` is read again
and again without a lock, every such read is an action of its own
(`OpenLoop`, `FrameLoop`, `FillTestsStop`, `InlineLoop`, `ReceiveChunk`,
`HandlerTestsStop`). Bytes are numbered as they enter the ring, over all
sessions; `got` is what `Fill` has copied out since the ring was last cleared.
The demuxer is external: inside `Open` or `ReadFrame` it calls `Fill` any number
of times and then succeeds or fails; after `Fill` returned nothing it only
returns. The HTTP client is external: it asks `ContinueHandler` before each chunk
and a request may end at any time. The opening of the demuxer and the event
callbacks change nothing that is modelled here.

**EvoQueue.** `at[t]` says where a producer or consumer stands; "full_wait" and
"empty_wait" are the two condition variables, "full_woken" and "empty_woken" a
thread that was notified and has yet to take the mutex. What is done under
`listMutex` is one action, the unlocked accesses to the flags are others.
`curLen` always is the length of the list when the mutex is free, so it has no
variable. `Clear(true)` assigns its parameter `forceQuit` to itself (it hides
the member), so the member stays false and every test of `isStop && forceQuit`
fails; the model keeps the variable and the tests. A packet is the number of
calls of `Clear` begun before it was offered. `stranded` records the producers
that were waiting for room at the moment `Clear` emptied the list.

**MediaDecoder.** Adds to the queue the demuxer's position (`unread` packets to
the end), the codec's delay line, `TimePosMutex`, `IsEnd` and `LastVideoPTS`. One
round of `Decode` is lock, read, decode, `Enqueue` (the steps of `EvoQueue`), the look
at the frame afterwards, unlock. `SetTimePos` is `Clear`, lock, `av_seek_frame`
(`SeekMoves`, which may fail), `ResetIsEnd` and the Flushes if it did not
(`SeekResets`), `Clear`, `Restart`, unlock. That the demuxer moves and `IsEnd` is reset
in two steps matters, because `CheckIsEnd` waits for no lock: it is four actions, the
read of the flag and the three counts, and `checked` is the session whose end the
flag told of, the one before if it was read between the two steps. The one list
holds the three queues: an `Item` is the number of the seek that a frame was read
after and the queue that it is in. They share `maxLen` and one `Clear`, so the model
holds a `Decode` back where three lists might not; the program's lists are of
different lengths, but a `Decode` is inside one `Enqueue` at a time and `SetTimePos`
treats them alike, one after the other.

**MediaSourceBase.** `FFheader.h` leaves `USE_NEW_API` undefined, so a codec
context is a part of a stream and lives as long as its `AVFormatContext`. These
are numbered; a pointer is a number and a stream index, and `freed` says which of
them dangle. `Open` is a disjunct for each place where it can stop, with what has
been assigned by then; it does not look at the context it finds, which leaks.
`opened` counts successes since the last `Close`. One thread uses the object, so
a call is one action. `Seek` changes nothing but FFmpeg's state.

**DataReciver.** The loop of `ThreadOpen` seen from the callbacks: `thread` is
what comes next, `active` the codec contexts between `avcodec_open2` and
`avcodec_close`. Its `index_` and `codecContext_` are `index` and `codecContext`;
`indexOf` remembers the context that the index was read from. A medium has any
layout, each decoder may fail to open, a medium may end at any time. The read
through the NULL `codecContext_` (`getMedia.cpp:304`) ends in "crashed".

**The player: DecoderSession, VideoConvert, AudioOutput, MediaSynchronise.**
`DecoderSession` is the life of one decoder, seen by the one thread that opens and
clears it: contexts are numbered like those of `MediaSourceBase`, `played` is the
packets that got past the filter since `SetStartPos`, and the states that the
program does not leave are "hangs" (`SetStartPos` waits for a packet that does
not come) and "crashed" (a packet freed by `Clear`, or a NULL codec). `SetStartPos`
passes over packets without a duration, and either of its two seeks may fail, which
it does not notice (`failed`); if both succeed they reach the same packet, since
their arguments are the same. Packets are taken to be equally long.
`VideoConvert` is finer: each access to the converter's pointers is an action,
because `WriteLock` takes the lock for reading and the lock therefore excludes
nobody. `converters` are those that live with the geometry they were made for;
`misused` and `overrun` say that one was used or deleted after it was gone, or
has written past a frame; `crowded` and `clash` record which calls have
overlapped. `AudioOutput` lets the program act between the steps of `audioCall`,
which takes no mutex, except that SDL lets nobody pause or close the device
during a call; `heard` and `taken` are the bytes that left and the frames that
came. A frame without data (`GetData()` is NULL, size 0) ends the call and is forgotten;
`AddAudioData`, which nothing under `src/` calls, and the decoder offer none, but the
code provides for it. `MediaSynchronise` keeps of a clock only its drift. Its times are
integers, `Ms` of them to the millisecond, while the clock ticks whole milliseconds, as
`GetTimeOfDay` does. `GetVideoDelay` returns whole milliseconds too, so a wait of less
than one is the answer 0, which means show it, but moves neither `frame_timer` nor the
clocks (`GetVideoDelayRounds`); with an exactly due frame the double may fall on either
side, and both outcomes are allowed. The player asks, sleeps and asks again, and an
upset is a jump of the sound, a late player or a frame without a time stamp; `calm`
counts the frames since that moved the clocks. Clocks that are `MaxFrame` apart before
they were in sync, or did not move for that long, are upset as well.

**Thread primitives.** A call that blocks is an action that is not enabled. In
`ReadWriteLock`, `UvBarrier` and `UvCond` what is done inside a critical section
without blocking is one action; the semaphores and events, which others can see,
are taken and set in actions of their own. `UvCond` has both implementations,
chosen by `haveApi` for the whole run, as `HAVE_CONDVAR_API` is. In `UvThread` the
creator races its threads to `uv_once`; an event is named after its maker.

**PacketPool.** What runs under `PoolMutex` is one action; `GetInstance`, which has
no lock, has four, and `DeleteInstance`, which nothing calls, tests `Instance` before it
takes the lock (`DeleteInstanceTests`) and purges and deletes under it
(`DeleteInstancePurges`). Under the lock nobody can change what it reads again, so its
reads there are one with the purge. A packet's tag is its shape, which it remembers (with 16 bits
for the number of samples); `room` is the bytes it really has, because an
allocation that fails is not noticed for images and samples.

**FFMPEGGetMediaDataProcess.** The main thread runs one request, whose handler
fills the same ring as `InlineMediaSource`, and `ThreadPlay` empties it. There is
one session and the semaphore is posted once per chunk and once by `Stop`.

**EvoMediaSource, TransformADTS.** `extra` is the extradata: the units of an Annex B
stream with their start codes, or the two lists of an avcC record. `Scan` is one
round of the source's loop over the units and `ScanAll` folds it; a parameter set
is the context it came from, its place and its size, and `LastUnit` finds it by
looking at the list as a whole. A unit of an avcC record that is longer than all of the
extradata ends the search (`Reached`), with the sets found so far kept. `WriteADTSHeader` is the seven bytes that are
written, and `Parsed` reads them as the standard does.

**KinesisPut.** Both programs have the same control and differ in the stream they
choose, the filter or header they apply and their pacing, so `kind` says which one
runs. The clock `now` moves by what reading takes, by sleeps and by the pauses
after a refused frame; `delays` is the time lost that way, `stalled` that a sleep
was computed from a negative number, `free` the sleeps that the video program
skips when it sets `time_begin`.

**Response.** `handle` is what `curl_` points to: nothing, a live handle or a freed
one. `closeCurlHandles` frees it and forgets it in two steps, `terminate` sets the
flag, loads the pointer and uses it in three, and takes no mutex.

**MCPlayer and MCParts.** Their parts share no state, so a behaviour uses one part,
which `part` names, and the others stay in one initial state. TLC then explores
the sum of the parts' states and not the product, and one run serves them all.

## 3. Runs

| run | bounds | what it shows |
|---|---|---|
| `inline_stream` | ring of 3 bytes, chunks to 3, reads to 2, 5 bytes, 2 requests, 2 calls and the destructor | `InOrder`, `NoLostWakeup`, `NoMutualWait`, `ThreadsGone`, and that the whole implements `ByteChannel` |
| `inline_live` | ring of 2, chunks to 2, 3 bytes | `Stop` returns or the writer spins on a full ring; a chunk is stored while `thread_play` reads |
| `inline_stop` | the same | expects a violation: `Stop` does **not** always return |
| `queue` | 2 producers, 1 consumer, `maxLen` 2, 3 calls of `Clear`, 1 spurious wake-up | `BoundedExcess`, `RoomIsNotified`, `FewLeftOvers` |
| `queue_live` | 1 producer | `Enqueue` returns or `Clear` has stranded it |
| `decoder` | 2 decoding threads, `maxLen` 1, 2 seeks, 2 packets, codec delay 1, 1 spurious wake-up | `NoStaleFrame`, `EndIsTheEnd`, `OneExtraFrame` |
| `decoder_live` | 1 decoding thread, no codec delay | `SetTimePos` returns or its `Decode` is stranded |
| `demuxer` | 4 Opens, media of 0 to 3 streams, a cache of 2 | `CodecsAlive`, `FirstOpenIsRight` |
| `receiver` | 4 Opens, media of 1 to 3 streams of three kinds, a cache of 2 | `OneLiveCodec`, `DecodesItsKind`, `CrashNeedsStaleIndex` |
| `player` | output: queue of 2, 4 frames of 0, 2 or 3 bytes, requests of 2 or 3. clocks: 16 frames of 4 or 12 ms in half milliseconds, 2 upsets within the first 2. converter: 2 callers of `SetConvert`, 2 converters, geometries of 2 fields with 2 values, 1 change of the stream. session: 2 Opens, 3 packets, positions to 2 | `AudioAccounted`, `SettlesInSync`, `ConverterAlive`, `SessionSound` |
| `parts` | 3 threads at the lock, the barrier (3 rounds) and the condition (4 wakes), 3 threads and their creator at once; pool: 2 threads, 2 shapes with 3 tags, 2 lists of 1, 2 packets; batch: ring of 3, 7 bytes; source: 10 media, 3 Opens; upload: 3 packets, 2 attempts, 3 media, steps of 0, 3 and 24 units where `usleep` can sleep 19, sizes around the limit of 13 bits; response: 2 terminates | `IsSharedLock`, `BarrierHolds`, `BroadcastReaches`, `UtSound`, `PoolSound`, `BatchSound`, `SourceSound`, `PutSound`, `HandleAlive` |

Why the bounds are enough. A ring of three bytes has every relation of the
two indices (equal and empty, equal and full, either one first, at the end of
the array); with chunks of up to three and reads of up to two a chunk may fill
the ring, wrap, or wait for room with part of it written. Five bytes let both
indices wrap. Two calls and the destructor give stop after start, start after
start, and stop after stop; two requests leave a post of `sem_play` behind.
The queue's interesting cases need two producers (one takes the room another was
notified of) and a second `Clear` that meets a packet left by the first; the
third is slack. The decoder's need two threads in `Decode` and a seek after a
seek; with two packets one can be in the codec or a queue while the other has yet to be
read. Four Opens allow a success, a failure that leaves fields behind, and another
success, with one to spare; three streams in a cache of two give an index that
is not cached, and two streams of a type tell the first from the last one. The
theorems remove the bounds for what they state.

In `player`, a request may be longer than a frame and a frame longer than a
request, so a frame ends in the middle of a call and a call in the middle of a
frame; 16 frames are more than `SettleTime` after the last upset for both frame
durations, one below the threshold and one above, and two units to the millisecond
with a clock that only counts milliseconds let a wait be rounded; two callers of `SetConvert`
and one `Decode` are all that can overlap, and one change of the stream's
geometry is all that a converter needs to be wrong. In `parts`, three threads
are a first, a middle and a last one at the lock and the barrier, and in the
condition one that was in time, one that was late and one that resets; three
rounds let a fast thread lap. Two threads race for the singleton, two lists of one
packet fill up, two packets are one in a list and one in hand. The media of the
source are chosen for the cases of the scan: one set of each, several, other units
between and after them, both start codes, avcC with a length size that is
accepted and one that is not and with a unit that is too long, no extradata. A fourth packet would repeat what the
third does to the uploader's clock; a step of 24 units is longer than `usleep`
can sleep, and one of 3 is not and leaves room for a frame to be late by nearly
all of it; 8185 bytes are the first that have no room in
the header's length; two attempts stand for five, which only repeat the first
one more often.

`CHECK_DEADLOCK FALSE` stands only in the runs of `InlineMediaSource`, where the caller
may destroy the object and the bounds on bytes, requests and calls stop the rest,
and in `receiver`, which ends when the object is destroyed or the program has
crashed. A queue or a decoder whose consumer polls can always take a step. The
parts of `player` and `parts` that come to an end have an action for it
(`BarFinished`, `PutRests`, ...), which names the states they may rest in, so that
TLC still finds any other deadlock.

**Fairness.** Every thread that can go on does (the system's scheduler). In
`InlineMediaSource` nobody has to call `Start` or `Stop`, and the server has to
send nothing; the HTTP client polls `ContinueHandler`, so a request ends once
`stop` is set; a demuxer cannot return frames for ever without reading input
(strong fairness of `CallFill`). In `EvoQueue` and `MediaDecoder` the consumer
keeps calling `Dequeue`, as a player does with its timeout of 1 ms; nobody has
to offer packets, clear or seek. `SeekLocks` is strongly fair: a thread that
waits for `TimePosMutex` gets it if it is released time and again. `std::mutex`
does not promise that, but implementations come close to it.

**What the runs found.** (1) `Stop` can hang: `thread_play` exits when it sees
`stop`, `DataReceivedEventHandler` then spins on the full ring, and its loop does
not look at `stop`; `inline_stop` shows the schedule, and
`StopReturnsOrWriterSpins` that it is the only one. (2) `SetTimePos` can
deadlock with `Decode`: `Clear` notifies without the mutex, so a producer between
its test and its wait misses the notification and sleeps on the list that is
then emptied, holding `TimePosMutex`; `SeekReturnsOrDecodeStranded` shows that
this is the only way. (3) The queue may exceed `maxLen`, by the amount in
`BoundedExcess`. (4) `Clear` alone does not leave the queue empty; that
`SetTimePos` clears a second time, under the mutex, is what makes
`NoStaleFrame` hold. (5) `onMediaData` dereferences a NULL `codecContext_` when a
medium without a usable decoder follows one with a decoder, because `CloseMedia`
leaves `index_` as it was; `CrashNeedsStaleIndex` shows that this is the only
way. (6) After a reopen `GetContext` hands out codec contexts of the medium
before, which may be of another kind if the media are laid out differently; that
they are not freed memory (`CodecsAlive`) is owed to the leak of that medium.

Of the player: (7) `SetConvert` may delete the converter that a `Decode` is using;
`ConverterAlive` shows that it takes an overlap of the two calls, that calls which
do not overlap leave exactly one converter, and that a buffer is overrun only
when the stream changes its geometry under a converter. Two overlapping calls of
`SetConvert` can delete a converter twice, and nothing is claimed of them. (8) The
filter of `SetStartPos` keeps the packets up to the position and drops those
after it, which looks inverted; the loops of `SetStartPos` end only with a packet
of the stream. (9) After `Clear` the object needs `Init` before it can be read
again, and a second `Open` without `Clear` keeps the indices of the first; a
video stream of an unknown codec dereferences NULL in `OpenStream`. (10) A frame
that runs out in a call of `audioCall` is not deleted when the call fetches
another one; `closeAudio` leaves `hasAudio` set. (11) Clocks that an upset has left
`max_frame_duration` apart are never corrected; all others are less than twice the largest
threshold apart within `SettleTime` frames that move the clocks. Frames whose wait was
rounded do not move them, and may be any number in a row; and several of them add up,
so that neither the threshold nor the threshold and a millisecond is a bound, as TLC
shows: pictures that lead are shown twice as long, and what is left of that when the
delay drops back to one frame is below a threshold of its own. (11a) `CheckIsEnd` can
announce the end of the old position after a seek: `SetTimePos` empties the queues and
moves the demuxer before it resets `IsEnd`, and the flag may be read in between.
`EndIsTheEnd` names this window and shows that there is no other way.

Of the other parts: (12) two signals to the fallback condition variable can
collapse into one, and a late `ResetEvent` of one broadcast can wipe out the next
one; `BroadcastReaches` shows that this window is the only way for a waiter to be
missed. (13) Two threads that first use the pool together make two of them, and one
is lost; `DeleteInstance` lowers the number of lists that the pool may have, for
good; image and sample packets without memory are handed out. (14) When `ReadFrame`
fails in the batch consumer, its thread ends, `open_success` stays true and the
handler spins on the full ring. (15) A refused `Open` of the H.264 source leaves
`codecContext_` pointing into freed memory, which `Close` uses; a stream without
extradata is dereferenced; `SPS PPS SPS SEI` gives the last SPS with the size of
the first; Annex B takes the last sets, avcC the first. (16) `usleep` of the
video uploader is asked for a negative time, some 71 minutes, when a frame is
late by nearly its interval, and a sleep of more than 71 minutes is cut
short; `PutSound` allows it only then, and the attempt to prove it without the
second case is what brought that case to light. Its wait for a first
packet never ends without one; a frame is dropped silently after five refusals;
the audio uploader insists that the last audio stream is AAC. (17) An ADTS header
has no room for a packet of 8185 bytes or more, for the HE profiles or for more
than six channels. (18) `terminate` may use the curl handle that
`closeCurlHandles` has freed; `HandleAlive` shows that it takes this overlap. A
terminated request counts as a success with status 200.

## 4. Proofs

`InlineMediaSourceProofs` proves `TypeOK`, `InOrder`, `NoLostWakeup`,
`NoMutualWait` and `ThreadsGone`, and that `InlineMediaSource` implements
`ByteChannel` (`IsChannel`), for every ring size, chunk size not above the
ring size, read size and bound. The assumptions are `SizeAssumption` and
`BoundsAssumption`; a chunk is at most as large as the ring because libcurl hands
over 16 KiB at most and the ring has 10 MiB.

The inductive invariant `Inv` adds two parts to the properties. `Calling` says
which threads a caller inside `Stop` or `Start` has joined or not yet created:
without it a step of a thread that should be gone could disturb the cleared
ring. `WakePending` says that a reader that has found the ring empty after
`stop` was set, or sleeps then, has a post waiting or one that `Stop` is about
to make: without it the second half of `NoLostWakeup` is not kept by the step
from "copy" to "wait_data". The arithmetic of the ring is stated once, in five
lemmas about `read_ptr`, `read`, `write_ptr` and `write`, so the proof about the
threads never looks inside the indices. `NoMutualWait` follows from
`NoLostWakeup`: a sleeping reader has missed only part of the chunk being
written, and a part of a chunk does not fill the ring.

The refinement maps the unread bytes, in the order of their slots, to the
channel's pending ones. Only three actions touch them (`BufferSteps`): a
`HandlerWrites` is a `Put`, a copying `Fill` a `Get`, `ClearRing` a `Reset`. That
the `Put` appends what `ByteChannel` says follows from `InOrder` before and after
the step, which fixes every unread byte.

`EvoQueueProofs` proves `QueueTypeOK`, `BoundedExcess`, `RoomIsNotified` and
`FewLeftOvers` for every number of producers and consumers, every `maxLen`, and
any number of clears and spurious wake-ups; the assumption is
`QueueAssumption` (finitely many producers, none of them a consumer). Two
inductive invariants:

* `RoomInv` for the first three. `RoomIsNotified` needs `~forceQuit` (a woken
  producer that gave up would waste the notification; the code cannot, since
  `Clear` never sets the member). `BoundedExcess` needs `Excess`, which counts
  notified producers like packets and allows for the second set of them only
  while `Clear` is between its notifications and its emptying of the list.
  `RoomSteps` sorts all steps into six kinds by what they do with the room, and
  the invariant follows from the kind by arithmetic.
* `LeftInv` for `FewLeftOvers`. Packets never come from a `Clear` that is still
  to come (`OldEnough`); while `isStop` is set all of them are older than the
  last one (`AllOld`); a push turns a packet in flight into a left-over, which
  keeps the sum that `FewLeft` bounds.

`MediaSourceBaseProofs` and `DataReciverProofs` prove the properties of the runs
`demuxer` and `receiver` for every set of layouts, every length of the cache and
any number of Opens, from `LayoutAssumption` alone.

* `SourceInv` adds `NoneBefore`: an object on which no Open has succeeded since
  the last `Close` has no codec context. Without it `FirstOpenIsRight` is not
  kept, since an Open that finds no stream accepts one left behind. The failing
  Opens come in two forms, those that release everything and those that free only
  what they allocated, and each form has one lemma.
* `Inv` of `DataReciver` adds where the cache entries point (`CacheInPlace`), that
  a medium is open during its callbacks, that `codecContext_` and the decoders
  come and go together, and `IndexIsStale`: until a decoder is opened, `index_`
  belongs to an earlier medium. That `GetIndex` finds a stream if there is one
  needs the least element of a set of naturals, from `WellFoundedInduction`.

`MediaDecoderProofs` proves the invariants of the run `decoder` for every number of
decoding threads, every `maxLen`, length of the stream and codec delay, and any
number of seeks, from `QueueAssumption` and `StreamAssumption` (no thread is called
"free" or "seek", the two other values of the mutex). `DecoderInv` has four parts.
`Exclusive` says what `TimePosMutex` protects: only its holder is inside `Enqueue`,
and only `SetTimePos` clears. `Fresh` says where frames of an older position may
still be, which is in the queue and only from the move of the demuxer to the end of
the second `Clear`: the frame of a Decode that the first `Clear` overtook is pushed
before the seek can lock, so it is gone by then. `Ended` explains `CheckIsEnd`: while
`IsEnd` is set no round gets past its read, so a flag seen set in this session
means that no frame can follow. From the move of the demuxer to the reset of the flag
the same holds of the session before, which is the one that `checked` then has. Each of
the three counts that found its queue empty finds it empty still, unless the demuxer
has moved since. `OneOver` counts a woken producer as a frame, as
`Excess` does in the queue, but under the mutex there is at most one.

`ThreadWinProofs` is about the thread primitives, for every finite set of threads.

* `ReadWriteLock` implements `SharedLock` (`IsSharedLock`). The promise is about
  readers and writers that have returned from their calls; that it lasts depends
  on those inside. `RwInv` therefore adds that `num_readers_` is the number of the
  counted threads (`CountIsRight`), that the critical section has one thread in it
  and that one holds it (`InsideHolds`), that only the first reader waits for the
  semaphore, with nobody else counted yet (`FirstWaits`), and that the semaphore
  belongs to a writer or to the counted readers together (`OneOwner`). `RwMoves`
  turns the step of a thread into its moves between these sets. Acquiring shared
  is `RdReturns`, acquiring exclusively `WrLock`, releasing the two unlocks; every
  other step is a stutter.
* The barrier (`BarrierHolds`, any number of rounds): `BarInv` splits the states
  into three phases, by which turnstile is open, and says of each where the
  threads can be and how many rounds each has behind it. A fast thread that laps is
  why `Filling` has threads of two rounds in it.
* The condition variable (`BroadcastReaches`): that only a last waiter resets the
  event, and that whoever counts itself while a reset is due is in `late`.
* Threads and once (`UtSound`): the exchange has one winner, whose event is set
  only after the callback, and the handle is in both places before a thread runs.
  The assumption keeps "null" and the creator out of the set of workers.

`PartsProofs` and `PlayerProofs` prove the invariants of the runs `parts` and `player`.
Each part has an inductive invariant of its own and a theorem about its own
specification; then `PartsImplement` and `PlayerImplements` show that the
composition which TLC runs implements the specification of each part, so the
theorems hold of it too (`PartsAreSound`, `PlayerIsSound`).

* `Response`: `RespInv` ties pointer, handle and status together by the stage of
  `completeSync`; the crash needs the pair of a loaded pointer and a freed handle.
* Batch consumer: `BatchInv` has the bytes of the ring by content (`InCells`) and
  the posts that are still to come (`PostToCome`). That a sleeping `Fill` is not
  left with a full ring needs that the chunk being copied fits into what is free.
* Packet pool: `PoolInv` says for each packet where it is, in a place (`InPlaces`)
  or a hand (`InHands`), and not both; and it counts the pools against the threads
  that are still making one (`Pools`), which is what bounds the race.
* Uploaders: `PutInv` follows the clock. A sleep cuts `Pause`, and reading and
  failing add `delays`, so the lead over the time stamps stays between the two
  (`Timely`) until a sleep wraps, for which `Causes` has the reasons. That the
  header can be read back (`Parsed`) is arithmetic on bytes, one lemma per field.
* H.264 source: `SrcInv` is the property and its types; the work is in the scan,
  of which it is proved that the last unit of a type, where only parameter sets
  follow parameter sets, has the place and the size that the loop ends with.
* Decoder session: `DsInv` adds which contexts the decoders may point into before
  and after a second Open (`OneMedium`), and that the filter's count is never
  further behind the position than `Lead`, unless the second seek has failed
  (`CountLeads`), from which it follows what is played. With a first seek that failed
  the count starts from a packet after the first, and `startPos - 2` bounds the lead;
  with a second one nothing does, which is why the property says nothing then. The run's
  positions to 2 show that the bound is reached and not that the first seek's failure
  makes it larger; the theorem has every position.
* Converter: `VcInv` says what lives at each stage of `SetConvert` (`OneSetter`) and
  that a Decode that nobody overlapped has the attached converter (`Undisturbed`).
* Audio: `AoInv` says that what was heard and what is left is what was taken, byte
  for byte (`Accounted`), through `FlattenSeq` of the community modules. A frame
  without data adds nothing to either side.
* Clocks: `ClocksConverge` is a bound on a number of frames, so its invariant needs
  a measure. Three numbers matter: by how much the pictures lead the sound (`D`), by how
  much `frame_timer` lags behind the clock (`G`), and the duration that the next frame has
  by its time stamp (`L`), which grows with every frame whose wait is rounded. `Moves` is what a frame does to `D` and `G`, whatever else the state
  is; `Resolved` says that they are less than the bound apart and will stay so, or are
  out of range for good; `Rank` bounds the time still needed and falls by the frame's
  duration with each frame that moves the clocks and is not `Resolved` (`RankFalls`).
  `Converging` is the sum of the two.

Recursion. What a recursive function computes is usually shown by induction, which
these provers cannot instantiate. The functions here (the scan of the extradata,
the concatenation of frames) are shown to exist by a least counterexample instead:
if there were no such function for some length there would be a least such length,
and the function of the length below extends to it.

The assumptions on the constants are those that the modules name: types and
bounds (sizes are positive, sets of threads finite), and that a model value which
stands for nobody is not also a thread. `SyncAssumption` orders the thresholds as
the code's constants are (10, 100 and 100 ms, at most a 60th of a second to sleep, 3.6 s
for `max_frame_duration`) and takes frames of a millisecond at least and shorter than
`max_frame_duration`;
`EvoMediaAssumption` has the three forms of extradata; `PutAssumption` has times that
are not negative. TLC evaluates all of them in the runs.

Only model-checked: the four liveness properties (`StopReturnsOrWriterSpins`,
`ChunkIsStored`, `EnqueueReturnsOrStranded`, `SeekReturnsOrDecodeStranded`), because the
prover handles neither fairness nor ENABLED, and that `Stop` does not always
return, which is a counterexample. All invariants of all runs and both
refinements are proved.

## 5. Not modelled

* The unused halves of the interfaces: `read_len`, `write_len`, `Dequeue()`,
  `Enqueue` with a timeout, `Clear(false)`, `EvoQueue::Stop`; the endless loops of
  `ReadAllFrame` and `ReadFrame(packet)`, which nothing calls; `EvoPacketGroup`, a
  template that nothing instantiates (its `index > Count` would let one element
  past the array through).
* `AudioDecoder.cpp`: its resampler is made from the first frame and kept when the
  format changes, and is given a number of bytes for one of samples. All of it is
  the arithmetic of libswresample's buffers; what `Decode` sees of it is in
  `MediaDecoder`.
* `AudioTranscode.cpp` is used nowhere, and its `Init` assigns NULL where it means to
  compare. `InlineMediaOutput.cpp` is the uploader of `KinesisPut` fed by a
  callback, and `kinesis_video_get.cpp` only calls the SDK.
* Media data, codec parameters and pixel formats; the form of the NAL units that
  the uploader announces; the attributes that packets carry.
* Reading a frame after it was handed over (`MediaDecoder.cpp:852`) has a step in
  the model (`DecodeEnds`), but no property: nothing in the code keeps the player
  from freeing it first. Frames that a codec still holds at the end of the file
  are never asked for by the code, and `EndIsTheEnd` does not count them.
* `playCount`, counted down by one thread and compared with zero by another
  without synchronisation, and the files that the samples write.
* The other bounds checks of avcC extradata compare with a pointer that moves; what
  they let through is not modelled, beyond a unit that is too long for all of it.
* Hazards that the properties delimit and do not exclude, because the code has
  them. The theorems name the window, and show that nothing happens outside it: the
  rounds of `SetTimePos` while a request has yet to end, the stale end flag, overlapping
  `SetConvert` calls, the list limit that `DeleteInstance` lowers, the handler that spins
  in the batch consumer, `codecContext_` of a refused Open, the wrong kind of context
  after a reopen, the negative sleep, the ADTS sizes that do not fit, the overlap of
  `terminate`. Others are seen by no property at all: left-over posts of `sem_play`,
  `hasAudio` after `closeAudio`. `PROJECT.json` says of each hazard which it is.
* The Go samples, the SDK's test fixture, logging, the clock functions of
  `time_util.h`, `MClock.h` beyond the drift, build files and install scripts have
  no state of interest.

## 6. Plan

1. Action properties, from the invariants that are there: that the end of a medium
   is announced once, that an index of the uploader is never given back.
2. The liveness of the barrier and of `uv_once` under weak fairness, by TLC.
3. `DataReciver` and `InlineMediaSource` composed, for `testInline` as a whole.
4. `AudioDecoder`'s resampler, if its buffer sizes can be stated without
   libswresample's arithmetic.
