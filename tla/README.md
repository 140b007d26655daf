# Verification of the concurrent core of MX-FFmpeg

MX-FFmpeg is the FFmpeg 4.2 fork of a video player, with its build scripts and a
number of vendored libraries.  This directory models the parts of it whose
correctness depends on the order in which threads, callbacks and failures meet.
Source paths below are relative to `src/ffmpeg/JNI/ffmpeg`.

## Inventory

| Component | State it keeps | Operations | What is hard | Correct means |
|---|---|---|---|---|
| Thread message queue, `libavutil/threadmessage.c` | FIFO, one sticky error per side, a mutex, two condition variables | send, recv (blocking or not), set_err_send, set_err_recv, flush, free | one signal per message or place with many sleepers; errors against queued data | bounded FIFO, exactly once; nobody sleeps beside work; errors release and come after the data |
| Frame-threaded decoding, `libavcodec/pthread_frame.c` | ring of `PerThreadContext`, two ring indices, `delaying`, five locks, `progress` of frames | decode_frame, flush, free; in the codec get_buffer, get_format, finish_setup, report/await_progress | setups handed from thread to thread, callbacks on the caller's thread, hwaccels serialised by two locks, failures in every step | results in submission order with a bounded delay; one setup at a time, on the context of a serial decoder; every call returns |
| Slice thread pool, `libavutil/slicethread.c` | workers with a mutex and `done` each, two atomic counters, `done` of the batch | create, execute, free | the counter decides who is last; workers woken late; pthread_create failing | every job of a batch once; execute returns when nobody is in it |
| Slice-threaded codecs, `libavcodec/pthread_slice.c` | pool, entries, progress mutexes and conditions | execute, execute2, report_progress2, await_progress2, alloc/reset entries | a condition variable shared by several rows and signalled, not broadcast | rows advance at a distance, nobody is forgotten |
| HEVC wavefront, `libavcodec/hevcdec.c` | `wpp_err`, one local context per thread | hls_slice_data_wpp, hls_decode_entry_wpp | a row that fails must let the others go without pretending data | no block before the blocks it refers to; the slice returns |
| Input threads of ffmpeg, `fftools/ffmpeg.c` | a queue and a thread per input | input_thread, get_input_packet_mt, init/free_input_thread, seek_to_start | stopping a thread blocked in a full queue; restart after a seek | each packet owned once; end of file after the last packet; the demuxer has one user |
| Filter slice threading, `libavfilter/pthread.c` | a pool without main_func | thread_execute | see the pool | see the pool |
| Frame-threaded encoding, `libavcodec/frame_thread_encoder.c` | task FIFO, ring of 128 finished tasks, task and result indices | init, encode, free | ring index against the number of tasks; exit with queued tasks; workers that cannot be created | results in submission order, end after the last, nothing leaked, every call returns |
| Fifo muxer, `libavformat/fifo.c` | message queue, overflow flag, recovery state | write_header, write_packet, write_trailer, consumer thread | recovery, drop on overflow, waiting for a key frame | packets in order, each released once; packets and trailer only behind a header; the trailer ends the thread |
| Background reader, `libavformat/async.c` | ring buffer with history, seek request, two conditions | open, read, seek, close, background thread | seeks within and outside the ring while the thread reads | bytes of the inner protocol at the logical position; no deadlock |
| Buffers and pools, `libavutil/buffer.c` | atomic reference counts of buffers and of the pool, free list | create, ref, unref, make_writable, realloc, pool get/uninit | the last reference against uninit; a count read before the write it permits | freed once, after the last user; who may write is alone; nothing left behind |
| AVFifoBuffer, `libavutil/fifo.c` | two 32-bit counters, two pointers | write, read, grow, drain | wrap-around | the sequence it stores |
| Decoding API, `libavcodec/decode.c`, `encode.c`, `bsf.c` | draining flags, packet in the filter, frame put aside | send_packet, receive_frame, flush | end of stream and errors while draining; a packet accepted while a frame waits | documented state machine, drained completely |
| Retry loop, `libavformat/avio.c` | fast retries, time of the last wait | ffurl_read, read_complete, write | EAGAIN, time-out and interruption against partial data | fewer bytes than `size_min` only at the end of the resource (an error or an interrupt discards what came before it); a call returns when it is interrupted or its time is over |
| Cache protocol, `libavformat/cache.c` | tree of entries, temporary file, five positions | read, seek, size, close | failing disk writes, unknown sizes, positions kept in several copies | the bytes of the inner protocol |
| Buffered I/O, `libavformat/aviobuf.c` | buffer, pointers into it, position of the source, its two sizes, error and end | read, read_partial, seek, feof, ensure_seekback, realloc, rewind after probing; write, flush, close | seeks in, ahead of and behind the buffer; a buffer that grows and shrinks; failures in the middle of a call | the bytes at the position; what is written is where it was meant to be |
| UDP, `libavformat/udp.c` | circular buffer, error, thread | receive thread, read, close | overrun, error after data, space measured without the mutex | whole datagrams in order, data before errors |
| SMB, `libavformat/libsmb2.c` | status, is_finished, bytes_read | open, read, seek, close, callbacks | a time-out followed by a late callback | a reply answers its own call |
| ffplay queues, `fftools/ffplay.c` | packet list with serial, frame ring, finished mark | put, get, flush, peek, next, seek, close | frames from before a seek; serials and counts read without their mutex; closing while all wait | a picture bears the serial of its packet; end of playback after the last picture; close returns |
| Filter graph, `libavfilter/avfilter.c`, `framequeue.c` | per-link queues and status | activate, request, forward status | status against queued frames | status after the frames |
| Codecs, DSP, (de)muxers, scaling, devices, `ffprobe` | | | numerical or format code, sequential | bit-exact output |
| Wrapper headers, vendored libraries (dav1d, libsmb2, libxml2, OpenSSL, Opus, Speex, LAME, libmodplug), build scripts | | | | other projects, or nothing at run time |

Interaction: the decoder's caller drives `pthread_frame.c`, whose workers run codecs
that may use `pthread_slice.c` on the pool of `slicethread.c`; filters use the same
pool.  `ffmpeg.c` reads inputs through the message queue, and `fifo.c` writes outputs
through it.  Protocols stack below the demuxers, under the retry loop of `avio.c`:
async or cache over udp, smb, file; the buffer of `aviobuf.c` is between them and the (de)muxer.  `ffplay.c` puts packets read by one thread into
the decoding API on another and shows the pictures on a third.  Packets and frames
are references to buffers that any of these threads may drop last.
All sharing is by mutexes, condition variables and a few atomics.

The hazards that tests hardly reach are listed, with their lines and the properties
that cover them, in `PROJECT.json`.

## Modules

    MessageChannel <-- ThreadMessageQueue <-- FifoMuxer  <-- QueueUsers   <-- MCQueueUsers
                                  ^---------- InputThread <-----'  ^--------- MCFifoMuxer

    ParallelLoop   <-- SliceThread <-- Wavefront <-- CodecThreads         <-- MCCodecThreads
                       FrameThreadEncoder <--------------'
    DelayedDecoder <-- FrameThread                                        <-- MCFrameThread

    ByteStream     <-- AsyncProtocol <-------.
                 Url <-- UdpProtocol <--- UrlProtocols                    <-- MCUrlProtocols
         AvFifo <----------'                 |
                 Url <-- SmbProtocol <-------'

    AvioRead, AvioWrite, CacheProtocol <-- BufferedIo                     <-- MCBufferedIo

    DecodeApi <-- Ffplay
        ^--------------------------------------------------------------- MCDecodeApi
    BufferPool <-------------------------------------------------------- MCBufferPool

Eight more modules hold proofs: `QueueUsersProofs`, about the queue and its users;
`WavefrontProofs`, about the slice thread pool and the rows on it, and `CodecThreadsProofs`, which extends it and is
also about the encoder; `FrameThreadProofs`, `BufferPoolProofs`, `UrlProtocolsProofs`,
`FfplayProofs` and `BufferedIoProofs`.

`X <-- Y`: Y extends or instantiates X, except in the first column, where `MessageChannel`,
`DelayedDecoder`, `ParallelLoop` and `ByteStream` are the abstract specifications that
the modules next to them implement under a refinement mapping.

`QueueUsers`, `CodecThreads`, `UrlProtocols` and `BufferedIo` put the users of one thing
side by side: a queue has one pair of threads, a codec one kind of threads, a
`URLContext` one protocol, and a buffer is for reading or for writing, so each
behaviour of such a module uses one of its parts, which its initial state chooses,
and the others keep their initial state.  What is asked of all of them (that calls
return, that each packet is dealt with once, that the right bytes are read) is one
property there.

One step of a module is what a thread does between two points where another thread
can see or disturb it: a critical section, an access to an atomic, an unlocked
access used later.  `pthread_cond_wait` is an explicit wait set: the thread gives up
the mutex and enters the set in one step, a signal, a broadcast or a spurious wake-up
takes it out, and it re-evaluates its `while` condition when it has the mutex again.
Operators that mutate a definition the way a slip in the code would are next to it
(`Mutant of ...`); each property is violated by one of them.

### ThreadMessageQueue, MessageChannel

`fifo`, `err_send`, `err_recv` are the fields of `AVThreadMessageQueue`; `status` says
in which wait set a thread is.  `SendLocked` and `RecvLocked` are the bodies of
`av_thread_message_queue_{send,recv}_locked` from the `while` on, used by the first
attempt (`Send`, `Recv`) and after a wake-up (`ResumeSend`, `ResumeRecv`).  Messages
are distinct values; the element size, and a reallocation by `av_fifo_generic_write`,
which cannot happen because room is tested first, are left out.  `sent` and `gone`
are history.  `MessageChannel` has no locks and no wake-ups: a call that cannot be
served is pending.  Its fairness (some pending call that can be served will be) is
part of what is implemented.

### FrameThread, DelayedDecoder

`m` is the calling thread inside `ff_thread_decode_frame`, `ff_thread_flush` or
`ff_frame_thread_free`, `p[t]` a `PerThreadContext` with the program counter of its
worker, `f` the `FrameThreadContext`.  What `update_thread_context` hands on is
abstracted to the use of a hwaccel and the last reference frame.  The codec is any
codec that keeps the rules of `doc/multithreading.txt`; it chooses to ask for a
format or not, to fail before or after its buffer, to output a frame or none.  A
codec without `update_thread_context`, `AV_CODEC_CAP_DELAY`, FFV1's shorter pipeline,
callbacks that must run on the caller's thread and hwaccels that are or are not
async safe are the fields of a record `f.codec`, chosen by the initial state.
`DelayedDecoder` is a queue of bounded length.

### SliceThread, ParallelLoop

A pool runs through `Wavefront`, which also has the pools of other users; that module
says who may create a pool, `CodecThreads` that it may be a codec's.

`Create`, `Handshake`, `Execute`, `Wake`, `AwaitDone`, `Free`, `Stop`, `Join` are the
owner's steps, `Park`, `WakeUp`, `Notify` the worker's, and `Begin`, `RunJob`,
`TakeNext` those of `run_jobs` in either.  The atomic increments of `first_job` and
`current_job` are steps of their own.  The pools to create are a constant.

### Wavefront

Extends `SliceThread`: a job is a row of CTBs, and `RunJob`, one step there, is here
the sequence of steps of `hls_decode_entry_wpp`.  `progWait[k]` is the wait set of
`progress_cond[k]`, from which `ff_thread_report_progress2` takes one thread.  A block
may fail at any point, and the data of a row may end early.

### InputThread

The users of a `ThreadMessageQueue` that are threads of `ffmpeg.c`: `input_thread` and the main thread in
`get_input_packet_mt`, `free_input_thread` and `seek_to_start`.  `av_read_frame` returns
any packet or any error.

### FifoMuxer

Extends `ThreadMessageQueue` with the thread that calls the muxer (`mpc`) and the
consumer thread, whose `FifoThreadContext`, message and return value are the record
`w`.  `WriteHeader`, `WritePacket`, `FlushOutput`, `DispatchMessage` are the functions
`fifo_thread_*`, as the set of what they may make of `w`.  `WriteHeader` has four outcomes:
copying the options fails, opening the output does (`Opens`), writing the header does, which
leaves the output open without a header, or the header is written.  `Dispatch`, `RecoverNot`,
`RecoverWait`, `RecoverAttempt`, `CheckOverflow`, `Receive`, `Received`, `SetError`,
`FinalTrailer` are the consumer's loop.  The underlying muxer may fail in every
function with an error that is recoverable, recoverable on demand, or final; EAGAIN of
the muxer itself, which the code would take for "wait and try again" even at the limit
of attempts, is left out: no muxer's own code in the repository returns it.  So is an
`avformat_write_header` that returns 1 because the muxer was initialised before.  Real time is the fact whether
`recovery_wait_time` has passed since the last failure (`TimePasses`); stream time is
the number of the packet.  `w.log` and `w.output` are history: what became of each
packet, and whether the output is closed, open, or open with a header, or has been given what
does not belong there.  At the
limit of attempts the code gives the packet to nobody: the log says `leaked`.

### AsyncProtocol, ByteStream

`ring` is the `RingBuffer`, `c` the rest of the shared `Context`, `m` the user inside
`async_read`, `async_seek` or `async_close`, `b` the background thread.  A byte is its
position in the inner resource.  Critical sections are steps; `async_seek` looks at
the ring in one step and uses what it saw in the next, and `Fill` appends without the
mutex: `av_fifo_generic_write` publishes its index once, at its end, so the calls of
the inner protocol before it are one step.  The protocol runs under the retry loop, in
`UrlProtocols`.  `ByteStream` is a position, and calls that
deliver bytes from it, the end of file at the end, an error, or a new position.

### Url, UrlProtocols

`h` is the `URLContext` and the call of `ffurl_read` or `ffurl_read_complete` under
way, `h.call` the locals of `retry_transfer_wrapper`.  The protocol answers through
`UrlTransferred`; `UrlLoop` is the top of the loop with the interrupt callback, and
`TimeoutPasses` is `rw_timeout`.  `UrlProtocols` puts three protocols under the loop,
one for each behaviour of the system, and adds the user, the interrupt and fairness.
`async` implements `ByteStream` there too.

### UdpProtocol, AvFifo

`t` is the thread in `circular_buffer_task`, `reader` the user inside `udp_read`,
`fifo` the circular buffer.  `AvFifo` has the buffer of `libavutil/fifo.c` byte by byte,
with two counters that wrap around, because `udp.c` puts a header of four bytes before
each datagram, measures the room for both, and reads them one after the other.  The
thread measures the space, and `udp_read` copies the data and sets the error, without
the mutex; these are steps of their own.  The network is a number of datagrams of
any length up to a bound, a receive error and signals.  `stored` is history: the datagrams
in the buffer, each with its position in the stream of all bytes, against which
`WholeDatagrams` holds the contents of the ring.  `Grow` is `av_fifo_grow`, which `udp.c` does not
call: the sum and the doubled size are unsigned and may wrap around, memory may run out,
and `GrowKeepsContent` asks for every size, in every state, that the buffer keeps its content.

### SmbProtocol

`s` is the `LIBSMB2Context` with the operation under way, `requests` those whose reply
is outstanding.  `SmbService` is `smb2_service`, which runs the callback of the oldest
of them, perhaps one of an earlier call; `SmbBreaks` is its failure.  `wait_for_reply` may give up
when the time is over.

### CacheProtocol

`c` is the `Context` with the contents and the offset of the temporary file and the true
position of the inner protocol; `root` is the set of entries instead of a tree.  A
byte is its position in the resource.  `CacheReads` is the set of the answers that
`cache_read` may give, each with the context it leaves: the disk may refuse to seek,
to read, or to write some or all of the bytes, and the inner protocol may fail.  A
call is one step, except that a seek which reads ahead (`ReadAhead`) takes one per read.
Once a read of the inner protocol has begun anywhere else than where the cache
believes it to be (`strayed`, see Findings), nothing follows.

### AvioRead, AvioWrite

`s` is the `AVIOContext`.  In `AvioRead`, `buffer` is what lies between `buffer` and
`buf_end`, and `Fills` is `fill_buffer`; a turn of the loops of `avio_read` and
`avio_seek` is a step, so that the source may end, fail, or give part of what it is
asked for in each.  `Seek` tells the four branches of `avio_seek` apart; `EnsureSeekback`,
`ReallocBuf` and `Rewind` are `ffio_ensure_seekback`, `ffio_realloc_buf` and
`ffio_rewind_with_probe_data`.  `window` is history: what the caller has been promised.
A context may be direct (`AVIO_FLAG_DIRECT`): `avio_read` then reads around the buffer, and
`avio_seek` does not look into it; `ffio_ensure_seekback` makes no difference.
In `AvioWrite`, `buffer` is what lies before the larger of `buf_ptr` and `buf_ptr_max`; a
position of the file holds the mark of the write last made there, and `meant` what
the user means it to hold.  Both follow the code where a call that fails has moved the
position: `avio_seek` forward beyond the end, after which `avio_feof` skips what is left in
the buffer; `avio_seek` of a writer whose sink cannot be sought, after the flush; `avio_flush`,
which ignores that it could not go back.

### FrameThreadEncoder

The caller's thread is inside one call of `avcodec_send_frame`,
`avcodec_receive_packet` or `ff_frame_thread_encoder_free` (`call`, `api`); a worker is in
`GetTask`, `Encode`, `Store`.  `finished_tasks` is the ring indexed by two counters
modulo `BUFFER_SIZE`.  A frame is encoded to a packet, to none or to an error.

### BufferPool

Each thread holds references to `AVBuffer`s and may do anything that
`libavutil/buffer.h` offers with them.  The steps are the accesses to a count and the
critical sections of the pool, so a thread may be between its decrement and what
follows from it while others go on.  An address may be used again once it is freed.

### DecodeApi, Ffplay

`DecodeApi` is one `AVCodecContext` without frame threads: the packet in the bitstream
filter, the packet being decoded, the frames that the decoder holds back, and the
flags of draining.  A packet gives frames, none or an error.  `MCDecodeApi` calls it
in any order; `Ffplay` calls it from the decoder thread.  There, `rpc`, `dpc` and `mpc` say
where the read, decoder and main thread are.  `serial`, `q_abort`, `size` and `finished` are
read without their mutexes, in steps of their own.  Whether a shown picture is due,
late, or to be dropped is a free choice, and so is when a live input has another packet.

## Runs

| Run | Instance | Shows |
|---|---|---|
| `message_queue` | 3 threads, 2 messages, capacity 1, one error | no lost wake-up, FIFO exactly once, errors release every sleeper, implements `MessageChannel` |
| `frame_two` | 2 threads, 3 packets, 3 codecs, failures | hwaccel and async locks, calls return (callbacks are answered), packets finish |
| `frame_three` | 3 threads, 4 packets, 1 flush, 2 codecs | setup on the serial context, no result overwritten, implements `DelayedDecoder` |
| `codec_threads` | slices: 3 threads without main_func, 2 workers with it, 2 batches of 1 to 4 jobs; wavefront on 3 threads (1 slice) and 2 threads (2 slices), up to 4 rows of 3 CTBs. Encoder: 2 threads, ring of 4, 5 frames | batches exact, never ahead, one waiter per condition, complete rows, implements `ParallelLoop`; results in order and end after all, nothing leaked; calls return |
| `queue_users` | 3 packets, capacity 1; input: blocking and polling, 1 loop; fifo muxer: 6 sets of options, every call may fail | every packet dealt with once and in order, the end after the packets, packets and trailer only in an output with a header, calls return |
| `url_protocols` | reads of 1 or 2 bytes; async: 4 bytes, ring of 2 + 1; udp: 3 datagrams of up to 2 bytes, buffer of 11 bytes, counters modulo 16, 1 signal; smb: 5 requests | ring at the position, implements `ByteStream`; whole datagrams, data before errors, a grown buffer keeps its content; a reply answers its call until one gave up; fewer bytes than asked for at least only at the end; calls return |
| `ffplay` | decoder delay 1, ring of 2, 3 packets, 1 seek | serials match, slots exclusive, end means all shown and no packet left behind, close returns |
| `buffer_pool` | 3 threads, 2 buffers with 2 references, 3 blocks; symmetry | no use after free, writer alone, all freed |
| `buffered_io` | read: 5 bytes, reads of 1 to 3, refills of 2, buffers of 2 and 4, windows of 1 and 2, 6 sources (one each of a file and a stream is direct). Write: 3 bytes, writes of 1 or 2, the same buffers, 2 marks, all sinks. Cache: 3 bytes, reads of 1 or 2, room for 3 bytes on the disk; a file, and a stream that cannot seek | bytes read and written, promised bytes stay (not direct), seeks land, calls return |
| `fifo_rescale` | one set of options | see Findings |
| `decode_drain` | decoder delay 1, 2 frames per packet, 1 error put up with, 3 packets | see Findings |
| `cache_position` | as `buffered_io`, with room for 2 bytes | see Findings |

What a property of a joint module stands for is said by its parts, next to the code they
are about: `EveryPacket` is `PacketsAccounted` and `NoneLostWhenBlocking` of `FifoMuxer` and
`PacketsOwnedOnce` of `InputThread`; `ResultsInOrder` of `CodecThreads` has `EndAfterAll`;
`BytesRead` is `BytesAtPosition`, `BufferMatches` and `BufferFits` of `AvioRead` and
`DataAtPosition` of `CacheProtocol`; `BytesWritten` is `NothingMisplaced`,
`ClosedComplete`, `FailuresKept` and `PlaceKept` of `AvioWrite`; `SeeksLand` is `SeekLands`
of `AvioRead` and `EndCovers` of `CacheProtocol`.

Bounds, and why they are enough.  *Queue*: two sleepers on one side and a third thread
that steals what they were woken for are the smallest case in which a signal can be
wasted; with one place every message meets an empty and a full queue.
*Frame threads*: three threads and four packets make both indices wrap and let a
third thread await a second; two threads suffice for the locks, which only ever
concern the caller and two contenders.  *Pool*: two workers and the owner with up to
four jobs have fewer, as many, and more jobs than threads, and a second batch meets
what the first one left.  *Wavefront*: four rows on three threads share a condition
variable.  More threads are left to the proof (four threads and six rows take TLC too long for
a run; as long as no row fails, it finds two waiters nowhere).  *Input*: with one place the thread blocks after one packet.  *Fifo*: a packet in hand,
one queued and one refused are all the positions a packet can have, and a limit of two
attempts has a first, a last and a recovery that began with an earlier message.
*Async*: four bytes are more than the ring and its read-back hold, so every kind of
seek occurs in both directions, within, at the edge of and outside the ring.
*Udp*: eleven bytes hold two datagrams unless both have two bytes, so the pointers wrap
inside headers and inside data, and some datagrams are overruns; the modulus is the smallest power of two above the capacity, and the
counters pass it.  *Smb*: connecting, opening and examining the file leave two
reads, or a read that gave up and a later one.  *Cache*: three bytes are two entries that touch and one
that overlaps them, and a disk that fills up on the way.  *Buffered I/O*: five bytes are longer
than the larger buffer, so data is lost from either end of it; refills
of two into a buffer of four both append and start again.  Three bytes are written
through a buffer of two, which a write can cross and a seek can leave, or through one
of four, which holds them all.
*Encoder*: five frames on a ring of four
make both indices wrap while two workers finish out of order.  *Ffplay*: with a picture
held by the decoder, one shown and one waiting, both places of the ring are taken; one
seek gives two serials, and can come after the end of the file.  *Buffers*: two threads
that drop a reference and a third that takes or uninitialises the pool are all the
parties to a race on one buffer; a second buffer is the pool's other user.

Fairness.  Every thread that can run does (weak fairness of its steps); no fairness
is assumed of the user, who need not call again, of failures, or of spurious
wake-ups, and there is no strong fairness: when two threads compete for a mutex
only finitely many others can get it first before they must wait themselves.  Where
that argument needs a bound on the work in flight the module says so.  The clock
advances (`TimePasses`, `Clock`), because every wait with a time limit ends.  The
player's main thread goes on showing pictures (`Refresh`), which its event loop does
until it closes.  A seek of the cache and a call of the buffered I/O go on once begun.

Of the muxers behind a thread, and of the protocol below async, only this is assumed:
their functions return, if need be because they are interrupted.  Nothing is assumed
of a network: no datagram and no reply of a server need ever come.  `UrlReturns` therefore
asks that a call returns when it is interrupted or has a time limit, and only
where the code has one (see the last two points of the next section).

## Findings

Three runs show what the code does against what its documentation says; each checks
one property and is expected to find it violated.

* `fifo_rescale`, in `libavformat/fifo.c`: the recovery writes the message whose writing
  failed again, but its timestamps have been rescaled in place, and are rescaled a
  second time (`RescaledOnce`; `av_write_frame` wants them in the stream's time base).
* `decode_drain`, in `libavcodec/bsf.c` and `decode.c`: `avcodec_send_packet` accepts the end
  of the stream while the packet accepted before still waits in the bitstream
  filter (which happens when a frame has been put aside), and the filter then reports
  the end before it hands over that packet: it is never decoded (`DrainedCompletely`).
  Callers that receive until EAGAIN before they send, as `ffplay` and `ffmpeg` do, are not
  affected: `EndMeansAllShown` asks it of the player too, and `DecoderDrains` proves it.
* `cache_position`, in `libavformat/cache.c`: a seek outside what is cached moves the inner
  protocol but not `inner_pos`; when a second seek returns to the old position, the
  next read takes bytes from the wrong place (`ReadsAtPosition`).  The part of `BytesRead`
  about the cache says that this is the only way.

Three more have no run of their own.  `FifoMuxer` states the first and `BufferedIo` the others;
TLC refutes each of them when it takes the place of the invariant in `MCFifoRescale.cfg` or
`MCCachePosition.cfg`:

* `OutputClosed`, in `libavformat/fifo.c`: when the output is opened (line 126) but its header
  cannot be written (line 136), `fifo_thread_write_trailer` returns without closing it (line
  199), because `header_written` is 0.  The recovery opens it again, over the open one, and at
  the end of the thread nobody has closed it; `avformat.h:1378` leaves that to the caller of
  `avformat_write_header`.  `OutputWellFormed` is therefore about an output with a header.
* `SeekbackPossible`, in `libavformat/aviobuf.c`: `ffio_ensure_seekback` (line 1012) also promises a
  window of a direct context that cannot be sought; `avio_read` then reads around the buffer
  and empties it (lines 653 to 672), and `avio_seek` would not look into it anyway (line 284):
  there is no way back (`avio_internal.h:100`).  `SeekbackAvailable` therefore
  excludes direct contexts, explicitly; of every other it says that `avio_read` keeps the
  latest promise.
* `SizeReturned`, in `libavformat/cache.c`: the size of a resource that does not tell it
  (line 235) is the position of its last byte, one too small (`libavformat/url.h:212`).

The models also follow the code, without a property, where it departs from
what is written about it:

* `pthread_slice.c:181`: rows that are a multiple of `nb_threads` apart share a condition
  variable, which a report signals for one waiter.  Until a row fails, two of them never
  wait at once, with any number of threads; with at most three threads they never do at
  all (`OneWaiter`, proved).  With four or more, after a row has failed, they
  may: the signal can wake the one that it is not for, and nobody wakes the other, so that
  the slice never returns (TLC finds it with 4 threads and 6 rows of 1 CTB, 57 steps
  deep).  `CodecReturns` is checked with three threads and does not see this.
* `fifo.c:420` and `fifo.c:548`: the caller drops a packet and raises the overflow flag in
  two steps, and the consumer looks at the flag only between two messages: packets sent
  after the loss can be written before it waits for a key frame (`doc/muxers.texi:2222`).
* `fifo.c:314`: with `recovery_wait_streamtime` the test for a missing timestamp is
  inverted, and the next attempt is made with the next packet (`doc/muxers.texi:2212`).
* `udp.c:627`: a read from the circular buffer that finds it empty waits without a limit;
  `rw_timeout` and `timeout` have no effect on it (`libavformat/url.h:66`,
  `doc/protocols.texi:1767`).  `UrlReturns` asks only for an interrupt to end it.
* `libsmb2.c:62`: after a time-out the request is still outstanding, and its late reply
  ends the wait of the next call with the earlier call's result.  `OwnReply`
  says that this is the only way: until some operation has given up, every reply
  answers its own call.  What happens after that no property asks, nor does `UrlReturns`
  notice it: the call ends, with another one's result.
* `aviobuf.c:736` and `aviobuf.c:1025`: a window promised by `ffio_ensure_seekback` is lost by
  `avio_read_partial`, and by a second promise of less (`avio_internal.h:100`).
* `cache.c:286`: a seek behind the end moves `end` there, to which a later `SEEK_END` is then
  relative; a seek that fails while it reads ahead has moved the position.

## Proofs

`QueueUsersProofs` proves, for every finite set of threads, every capacity
above zero and every set of messages and errors (`QueueAssumption`):

* `TypeCorrect`: `Spec => []TypeOK`.  `TypeOK` is inductive; its last conjunct says
  that a thread holds a message exactly while its send is blocked.
* `NoLostWakeups`: `Spec => []NoLostWakeup`.  The invariant counts: there is never
  more free room than senders woken, nor more messages than receivers woken, while
  somebody sleeps.  It is inductive relative to `TypeOK`; the proof follows what a
  signal does to the cardinality of the wait sets (`WaitSetsAfterSignal`).
* `FifoCorrect`: `Spec => []FifoExactlyOnce`, from lemmas on concatenation.
* `QueueImplementsChannel`: initial states and steps map to those of
  `MessageChannel`, using the invariant that nobody is inside a freed queue.

So far the only assumption is `QueueAssumption`.  On top of it the module proves, for the two
pairs of threads that use a queue, any capacity, any number of packets and of loops over
the input, and any set of options that `fifo_init` accepts (`FifoAssumption`,
`UsersAssumption`; the latter only keeps apart what the model, unlike C, has in one
variable: messages, errors and the other results of a call):

* `UsersInductive`: the inductive invariant `UsersInv`.  First it is shown what a call of
  the queue does to the caller (`SendsAt`, `RecvsAt`): a call that blocks is one step when it
  begins and one when it returns, and both have the outcomes of a call that does not.
  *An input thread and Main* (`InputInv`): `PacketsOwnedOnce` is nearly inductive, but the
  end needs to know how the two errors are set (`InputEnds`): while Main still wants packets only
  the thread sets one, which is what the demuxer ended with; so when Main gets it the
  thread is out of its loop, holds nothing and has refused nothing.
  *The fifo muxer* (`FifoInv`): the messages in the queue are the caller's first ones, in
  order (`CallerInv`); the output has a header just while `header_written` is set, up to the last
  trailer (`Shaped`); the message in the thread's hand is one it took (`WriterInv`); and without
  `drop_pkts_on_overflow` nobody ever waits for a key frame, sets the overflow flag or gets
  EAGAIN, and every packet is written before the next one is taken (`LosslessInv`).
  The consumer's round is proved once on its record (`Outcome`), for all of its ways through
  dispatch and recovery: the packet is kept, or it is settled with one entry in the log.
* `EveryPacketKept`, `OutputsWellFormed`: the invariants of the run, from it.
* `EndsCorrect`: `UsersSpec => EndAfterPackets`, the action property of the run.

`WavefrontProofs` proves, for every set of pools to create (threads asked for, threads
that can be created, with or without main_func), any numbers of threads and jobs
(`SliceThreadAssumption`):

* `PoolCorrect`: the inductive invariant `IInv`.  `TypeOK` alone says nothing of the two
  counters.  What is needed is that the participants of a batch that have not taken
  their first number are as many as the numbers `first_job` has left, and that those
  that have not found `current_job` at its end are as many as the attempts it has left
  (nb_jobs + nb_active in all); so the thread that makes the last attempt finds nobody
  else in the batch, and each job below the counter is run or held by one thread.
* `BatchesAreExact`: `Spec => []BatchesExact`, from it.
* `PoolImplementsLoop`: the pool implements `ParallelLoop`, action by action.

and, on top of it, for any number of rows, width and threads:

* `WaveCorrect`: `WaveAll`, which is `IInv` of the pool (a row is a job that takes many
  steps), with `WaveInv` and `WakeInv`.
* `RowsNeverAhead`, `RowsAreComplete`: `WaveInv` relates, row by row, what is decoded to what is
  reported, to the row above and to where the thread that runs it is; a row that is
  over has reported more than any block waits for.
* `RowsWakeTheRightOne`: `[]OneWaiter`.  Two rows that wait on one condition variable are a
  multiple of `nb_threads` apart.  Until a row fails, rows end in order (`RowOrderInv`: when a row
  has its last CTB decoded, all above it have been run), so that neither the row the first
  one waits for nor any between the two has ended: more rows are in progress than there are
  threads (`Apart`, `NotThatMany`).  After a failure a row may end before those above it, but
  the two, the row the second one waits for and one more still take four threads.

`CodecThreadsProofs` carries these over to the composition that the run checks, whichever
user the pool has.  After a failure `OneWaiter` is stated for at most three threads because it
is false for more: see the first of the departures under Findings.

`FrameThreadProofs` proves, for any number of threads from two on, any set of codecs,
hwaccels and callers, and any number of packets and flushes (`FrameThreadAssumption`;
its one assumption about codecs is that those with a hwaccel hand their context on, which
a comment in `frame_worker_thread` requires):

* `FrameCorrect`: the inductive invariant `FrameInv`.  `RingInv` says that the packets under
  way have consecutive numbers and lie in consecutive threads from `next_finished` on;
  that during a drain, where `next_finished` stands still, the loop has asked those up to
  its own index; and how `next_decoding`, which may stand at the number of threads until a
  result is taken, and `fctx->delaying` follow from how many there are.  `SetupInv` says
  that only the thread of the newest packet may be in its setup, and not while Main passes
  its context on; `StreamInv` that after the setup this context is the serial decoder's;
  `HwInv` who owns `hwaccel_mutex` and the async lock.  `ReadyInv` relates the states of the
  threads to what Main holds: a thread without a result waits for a packet, and all
  are ready once they are parked.
* `HwaccelSerialized`, `ContextIsSerial`, `PacketsOverwriteNothing`: the three safety
  properties of the runs, from it.
* `FrameThreadIsPipeline`: `Spec => ImplementsPipeline`.  The queue of the pipeline is the
  interval of numbers that `RingInv` describes (`QueueIs`), its oldest packet is the one
  whose thread is asked, and it is empty when the decoder answers "no frame, no error".

`CodecThreadsProofs` also proves, for a ring of any even size, at most half as many
threads, and any number of frames (`EncoderAssumption`; 128 and 64 in the code):

* `EncoderCorrect`: the frames between the last one delivered and the last one submitted
  are fewer than the ring has entries, so that two of them have different entries
  (`SlotUnique`, modular arithmetic), and each of them is in the task FIFO, in one
  worker's hands, in its entry, or freed.
* `EncoderResultsInOrder` and `EncoderNothingLeaked`, from it.

`BufferPoolProofs` proves, for any finite set of threads and any number of buffers,
references and blocks of memory (`BufferAssumption`):

* `PoolCounts`: `BufInv`, in which the count of a buffer is the number of references to it,
  except for one that `av_buffer_pool_get` is about to hand out; the count of the pool
  is the number of its buffers that are lent, and one for the handle; the data of the
  buffers and the list of the pool are disjoint, allocated, and all that is allocated.
* `NothingUsedAfterFree`, `WritersAreAlone`, `NothingLeftBehind`: the three invariants of the run.

`UrlProtocolsProofs` proves, for any sizes of the resource, the ring, its read-back part, the
datagrams and their buffer, and any set of URLs (`AsyncAssumption`, `UrlAssumption`,
`UdpAssumption`):

* `ProtocolsCorrect`: the inductive invariant `Inv`.  For async it adds to `DataAtPosition` which
  call is under way (a read that skips has as far to go as its seek), that a request to
  seek is that of this call until it is answered or the protocol is aborted (`SeekInv`), and
  that an end of file is remembered only where the inner protocol still is (`EofInv`); for
  the loop that the bytes handed over in this call are the bytes counted, and fewer than are to
  be returned at least as long as it goes on (`LoopInv`), and that a protocol serves a read only while the loop waits for it (`Serving`); for udp the
  types, which say that what it copies has a length (`ReceiveInv` below says more); for smb that at most the request
  of the operation under way is outstanding, and that the flag and the number which callbacks
  set speak of it (`RequestInv`), until an operation gives up.
* `RingFollowsPosition`, `ReadsAreShortOnlyAtEnd`, `RepliesAreOwn`: three invariants of the run.
* `DatagramsWhole`: `AllSpec => []Receives`, from a second invariant, `ReceiveInv`, that holds
  together with `Inv`.  The buffer is looked at byte by byte: `ByteAt(f, j)` is the j-th byte that
  will be read, and lemmas say what `FifoWrite`, `FifoDrain`, `FifoPeek` and `Grow` do to these
  bytes, wherever the pointers and the counters wrap around (`RingOK`, `Written`, `Drained`,
  `Reallocated`, `Grown`; `SumWrapped` is the test for an overflow).  A history, the datagrams stored and where in the stream of all bytes each lies, says
  what must be in the buffer (`Chained`, `Holds`).  `TaskInv` is why the write fits though the
  space was measured without the mutex: meanwhile only the reader changes it, and it makes
  room.  `ErrorInv` adds that an error is returned when nothing is left and nothing can follow.
* `AsyncIsStream`: `AllSpec => ImplementsStream`.  The user's calls, a skipped part of a seek
  and the returns are the steps of `ByteStream`; the background thread's are stutters.

`FfplayProofs` proves, for any number of packets, seeks and places in the ring of pictures,
any delay of the decoder and any number of frames in a packet (`DecodeAssumption`,
`FfplayAssumption`):

* `PlayCorrect`: the inductive invariant `PlayInv`.  It follows a packet.  In the list,
  serials grow at a flush packet and nowhere else, from that of the packet in hand to
  that of the queue (`QueueInv`).  What is in the decoder bears the serial in hand,
  except while a flush packet is in hand or the queue has gone on to a later serial
  (`ContentsInv`).  When a packet is sent the decoder has room for it, because it was asked
  for frames until it had none (`ApiInv`).  A null packet is read after every packet of
  its serial, so that at the end each of them has been decoded or is under way
  (`OpenInv`, `EndedInv`, `NothingLost`), and nothing is left in the decoder when it
  has said so (`ShownInv`).  The filled places of the ring are those from `rindex` on, as
  many as `size`, but for the place that one of the two threads is about to count
  (`RingInv`).
* `SerialsMatch`, `SlotsAreExclusive`, `EndIsShown`, `DecoderDrains`: the invariants of the
  run, from it.
* `NeverRefused`: the path of `decoder_decode_frame` that keeps a packet which
  `avcodec_send_packet` refused (its comment calls that an API violation) is never taken.

`BufferedIoProofs` proves, for any sizes of the resource, the buffers, the reads, the windows
and the disk, and any sources, sinks and inner protocols, each of which may fail whenever
the code lets it (`IoAssumption`):

* `IoCorrect`: the inductive invariant `IoInv`, a part for each of the three.  *Reading*
  (`ReadInv`): the buffer is the bytes before the position of the source (`Holds`), what the
  call under way has returned begins where it began (`CallInv`), and while a file is probed
  the bytes kept for `ffio_rewind_with_probe_data` end where the user stands (`ProbeInv`).
  The promise of a window needs more than that the buffer begins before it: the buffer must
  have room for the whole of it and a refill behind, so that `fill_buffer` appends, or must
  hold the whole of it already, so that no read in the window refills it (`Covers`).  That holds
  of a context that is not direct.
  *Writing* (`WriteInv`): the file, the buffer laid over it and what the write under way has
  still to put, laid over both, are what the user means the file to be (`MeantInv`), whatever
  part of the write has gone where.  It is inductive because the buffer is never full
  between two turns (`Fits`): a flush in a turn starts with `buf_ptr` at the end of the data,
  also after a seek back into the buffer, so that what follows lies where it was meant.
  *The cache* (`CacheInv`): every entry is backed by the bytes it stands for (`Held`) and none
  lies behind the end; `cache_pos` is where the file is.  To lengthen an entry it takes
  that both its logical and its physical end are where the new bytes go (`Entered`).
* `BytesReadRight`, `BytesWrittenRight`, `SeekbackStays`: the invariants of the run, from it.
* `SeeksDoLand`: `Spec => SeeksLand`, the action property of the run; the step of each way
  to seek is shown to end at the offset with the preservation of `ReadInv`.

The type invariants are part of the inductive ones and no run's property, because the
theorems have them for every instance.  TLC checked each inductive invariant on the
instances of the runs before it was proved, `FrameInv` on those with two threads.

Only model-checked: liveness (`ErrorsRelease`, `CallsReturn`, `CodecReturns`, `UsersReturn`,
`PacketsFinish`, `UrlReturns`, `CloseReturns`) and the fairness part of the refinements, which are
beyond the prover.  Every safety invariant that a passing run checks is stated by a theorem.

## Not modelled

See the components in `PROJECT.json`: codecs, DSP code, parsers, muxers and scaling
are numerical or data dependent; vendored libraries are other projects.  In the
modelled parts, memory is sequentially consistent: `slicethread.c` publishes with
release/acquire and mutexes, and `pthread_frame.c` reads `progress` and `state`
with acquire loads before it takes the mutex; those early reads are part of the same
step as the wait they save.  Out of memory is modelled where the code has a path for it
that changes shared state.

* `pthread_slice.c:213`: `ff_alloc_entries` whose second allocation fails leaves the
  first one and the number of threads behind.
* `ffplay.c`: audio and subtitles, attached pictures, pausing, frames inside a filter
  graph, packets outside the range to be played, and failing allocations.  The
  comparison of serials that drops packets and frames of an earlier seek is modelled,
  but only saves work: pictures bear the serial of their packet without it.
* `udp.c`: writing, and `udp_close`, which frees the buffer (`udp.c:671`) when the thread has
  been cancelled.
* `libsmb2.c`: writing, directories, seeking (a local computation), and the replies that
  libsmb2 makes up when its context is destroyed.
* `avio.c`: writing through the same loop, opening and closing.  An interrupt callback
  that answers once that it wants the call to stop, and later that it does not, would
  send the loop around again; the models keep the answer once given.
* `decode.c`: decoders with their own `receive_frame`, filters other than the null
  filter, and the older API on top.
* `aviobuf.c`: checksums, packets of a fixed or minimal size, data markers, dynamic
  buffers, contexts that read from memory, `read_pause` and `read_seek`.  A write that
  fails is taken not to have written anything.  A direct write after a flush that
  could not go back lands elsewhere (`strayed`); nothing is asked of the file then.
* The queues and states of filter links are not modelled yet.

## Plan

`AvioRead` on top of `CacheProtocol` on top of the retry loop; the queues and states of
filter links.
