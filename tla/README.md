# Verification of the ST 2110 receiver

This directory holds TLA+ models of the receiver in this repository (the
`st2110core` library, the OBS plugin and the MTL receive worker), TLC
configurations that check them on small instances, and proofs for TLAPS.

## 1. The system

An OBS source receives uncompressed video and audio (ST 2110-20/-30) over RTP,
either with plain sockets inside the OBS process or with MTL inside a separate
worker process.

```
 socket path                                       MTL path
 leg 1 thread --.                                  worker process
 leg 2 thread --+-> queue -> downstream thread     MTL session thread
                       |  duplicate merge              |  copy
                       |  reorder buffer               v
                       |  gap policy               shared-memory ring + ready events
                       |  depacketizer                 |
                       v                               v  client handler (reader thread)
                    IFrameSink  <-----------------------'
                       |
             SynchronizedFrameSink: two queues, one playout thread -> OBS
```

| Component | State | Operations | Talks to | What is hard | What makes it correct |
|---|---|---|---|---|---|
| Reorder buffer (`fixed_reorder_buffer.hpp`) | stored packets, next expected number, counters | `push`, `pop_next`, three gap flushes, `reset` | called by the downstream thread only | wrapping distances, resynchronisation after a jump | tracks the true stream position, strictly increasing output, honest counters |
| Socket backend (`socket_rx_single_media_backend_base.hpp`, `linux_socket_rx_port.hpp`) | threads, queue, merge history, health, ports | `start`, `stop`, receive loop, downstream loop | ports, reorder buffer, sink | threads blocked in `recvfrom` during `stop`, two legs racing, failures of one leg | nothing lost by merging, in-order delivery, `stop` returns and silences the sink, health tells the truth |
| Packets and video pipeline (`packet_parse.hpp`, `depacketizer.hpp`, `video_unit_reconstructor.hpp`, `audio_frame_assembler.hpp`) | unit being assembled, coverage, pending half | `push` | called by the downstream thread | optional header parts, boundaries seen through loss, pairing of halves | every byte at its place, no frame mixes two, a complete frame covers every byte |
| Timestamp mapper (`rtp_timestamp_mapper.hpp`) | origin, last timestamp, ticks | `map`, `reset` | called by the sink | wraps, ambiguous differences, overflow | monotone ticks |
| Synchronized sink (`synchronized_frame_sink.hpp`) | two queues, anchor, thread, error | `start`, `stop`, `on_video_frame`, `on_audio_frame`, playout loop | backends call it, it calls OBS | frames, `stop` and the waiting thread interleave | order, no early item, no lost wake-up, quiet after `stop` |
| Shared-memory ring (`mtl_worker_shared_memory_ring.cpp`) | slot states, headers, payloads | begin/publish/abort write, begin/release read | worker session and graph client | two processes, no lock, crashes | one owner per slot, whole frames, no leaked slot |
| Worker sessions (`mtl_video_rx_session.cpp`, `mtl_audio_rx_session.cpp`) | receive thread, next slot, sequence | receive loop, export, `stop_thread` | MTL, ring, event writer | failure after a slot was taken | every slot is published or given back |
| Graph client (`mtl_worker_graph_client.cpp`) | lease, rings, handler, sink, count of starts | `start`, `stop`, `stats`, event handler | manager, control channel, sink | transactions that fail half way, events during `stop` | no call into a detached sink, no leaked lease |
| Control channel (`mtl_worker_process_control_channel.cpp`) | worker process, responses by id, handlers, reader thread, failure flag | `transact_with_fds`, `register`, reader loop, shutdown | worker process | time-outs racing answers, teardown under waiting threads, one graph failing the channel of all | no thread waits for ever, no process is left |
| Framing and codec (`mtl_worker_ipc_framing.cpp`, `mtl_worker_ipc_codec.cpp`) | partial frame, received descriptors | write and read a frame, serialize and deserialize | both ends of the control socket | short sends and receives, torn frames, descriptors | what is handled is what was sent, no descriptor leaks |
| Worker manager (`mtl_worker_manager.cpp`) | workers, graphs per worker | acquire, release, invalidate, shut down | graph clients | concurrent clients, idle retirement | one worker per runtime, a worker in use is never given up by others |
| Worker process (`mtl_worker_process_state.cpp`, `mtl_receive_graph.cpp`) | runtime, graphs, health | request handlers | control channel, sessions | half-created graphs | failed graphs are undone |
| Source runtime (`source_runtime.cpp`, `st2110-source.cpp`) and MTL proxies | settings, request, receive graph | `update`, start and stop buttons, properties, destroy | all of the above | failure in the middle of starting, a query that kills the graph | no dangling sink, the graph is the one of the settings, a source that is down says so |
| Discovery, SDP selection, start configuration, tuning | none | pure functions | source runtime | tags that are prefixes of each other, integer limits | every announced stream is received or the source refused, buffers hold their delay |

## 2. Plan

Order of work, most important first.

1. `ReorderBuffer`, `ReorderStream` and their proofs. *Done.*
2. `SocketReceive`: the socket backend around the buffer. *Done.*
3. `RtpTimestampMapper`, `SynchronizedSink`: playout. *Done.*
4. `MediaChannel`, `SharedRing`: the MTL data path and its refinement, with the
   first ring theorems. *Done.*
5. `WorkerProcess`, `ControlChannel`, `WorkerManager`, `GraphClient`: the control
   plane of the MTL backend. *Done.*
6. `RingLayout`, `VideoFrame`, `IpcMessages`, `IpcCodec`, `WorkerIpc`: what travels on the
   control socket. *Done.*
7. `MediaPackets`, `VideoUnits`, `MediaUnits`: packets to frames. *Done.*
8. `ReceiveTuning`, `SourceSelection`, `SourceRuntime`: one OBS source. *Done.*
9. Proofs: `ReorderStream` with its counters, `SharedRing` and its refinement,
   `RingLayout`, `SynchronizedSink`, `SocketReceive`, `SourceRuntime`, `GraphClient`,
   `WorkerIpc`. *Done.* What stays with TLC is listed at the end of section 6.

## 3. Modules

### ReorderBuffer, ReorderStream

`ReorderBuffer` is `FixedWindowReorderBuffer`. The two C++ instantiations
differ in the width of the number and in the threshold that separates "late"
from "ahead" (`> 0x7FFFFFFF` for 32 bits, `> 0x8000` for 16), so the module has
the constants `SeqModulus` and `LateThreshold`. `packets_` is a set of records.
`push` is one action with a result `ok`; it is split into its three paths
(`push_late`, `push_in_window`, `push_resync`). Calls that return without
touching anything are not steps.

`ReorderStream` adds the sender's true positions (history variables) and lets
the network and the caller do anything: any position less than half of the
sequence space away from the head may be pushed at any time, and pops, flushes and
resets come in any order. That covers every gap policy of the backend.

### SocketReceive

The backend with its threads. Control thread: `StartOk`/`StartFails`, `StopBegin`,
`ClosePort` (one step per leg), `JoinLeg` (one per leg), `CloseQueue`,
`RequestDownstreamStop`, `StopEnd`. Leg thread: `LegTop` (stop token and `is_open()`),
the outcomes of `recvfrom` (`Arrive`, `ArriveJunk`, `ReceiveInterrupted`, `ReceiveFails`,
`ReceiveWoken`), `ProcessDatagram`. Downstream thread: `WaitPop`, `MergeDuplicate`,
`PushRejected`, `PushAccepted`, then `DrainDeliver`/`DrainBlocked`/`DrainFlush`/`DrainReturn`.
A step is an access to shared state; `start()` is one step because no other thread of
the backend exists yet, and the threads it starts may be slow.

Reading the port's members while `close()` resets them is a data race in
`LinuxSocketRxPort`; `ReceiveWoken` chooses between the outcomes (an empty
datagram, an error).

### RtpTimestampMapper, SynchronizedSink

The mapper is a pair of operators per call (what `map` leaves behind and what it
returns); ticks are converted as the code does it, whole seconds first and the rest
rounded down, with the second (`NsPerSecond`) and the range of the result (`NsLimit`)
as constants. The sink is one action per critical section: `OnFrame` (rejected,
unmapped, accepted with insertion and trimming), `Start`, `StopBegin`, `StopEnd`, and
the playout loop (`LoopTop`, `Select`, `Wake`, `Deliver`, `DeliverThrows`). Time is
discrete (`Tick`); `Prompt = TRUE` lets time pass only when the playout thread has
nothing to do, which isolates delays caused by the code from those of the
scheduler. Saturation of the playout time at the end of the clock is left out.

### SharedRing, MediaChannel

One ring with the worker's receive loop and the client's handler. Every access
to shared memory is a step: acquiring (`AcquireSlot`, one attempt per step),
the two ends of the copy, the header, the state, the event; on the other side
the state, the sequence, the compare-exchange, the second look, the delivery,
the release. `payload` is 0 while it is torn. Failures (a frame that does not
fit, a rejected copy or header, an event that cannot be written, a worker that
dies) may strike wherever the code can return an error.

The events travel on the control socket that all graphs of the worker share.
`TakeEvent` is `dispatch_async_event_noexcept`: it calls the handler without the
channel's mutex (so `EnterHandler`, which takes the handler's, is a step of its own)
and drops the event once the channel has failed. `ChannelFails` is a time-out, a
failed send or a shutdown by whichever graph; `ReaderEnds` is the reader thread
that returns. Neither touches this ring's client or its session, which stay active and
healthy.

`MediaChannel` is what the pair promises: a bounded channel that may lose
frames but delivers each one whole, once and in order. `ImplementsChannel` maps
the channel to the events in the pipe plus the one in the handler's hands.

The return in `export_audio_frame_to_ring` for an unknown sample format, which
leaves its slot in `Writing`, is not in the model: the format is validated when
the session is created.

### WorkerProcess, ControlChannel, WorkerManager, GraphClient

The control plane: clients of several sources, one manager, its channels and a
worker process behind each channel. `WorkerProcess` gives the handlers as relations
(state, request) -> possible outcomes; MTL may refuse a runtime or a session, hang
or die. `ControlChannel` is one action per lock section or blocking call of a
transaction and of the teardown, which many threads may run on one channel.
`WorkerManager` gives what each lock section does to the records and when the shared
ownership of a channel ends, and `GraphClient` composes all three: `start`, `stop`,
`stats`, the client's and the manager's destructors. Errors are abstracted to the two classes
the client tells apart (`is_backend_runtime_error`). Request ids and channel slots are
used again once no trace of them is left; that keeps the state finite
and makes a stale answer under a reused id a real possibility.

`aborted` is set where the code assigns to a joinable `std::thread`: a transaction
that passed the test in `ensure_worker_started` may spawn the worker again after
`shutdown_noexcept` by a client that invalidated it. The model reaches this state, and
stops there.

### RingLayout, VideoFrame, IpcMessages, IpcCodec, WorkerIpc

`RingLayout` is the arithmetic of a ring on both sides of the socket (client:
layout; worker: validation), with the width of the integers as a constant.
`IpcMessages` has the messages and their validations, `IpcCodec` writes and reads them
field by field, in the code's order; a number takes as many bytes as on the wire, and a reader out of
step with the writer gets garbage. `WorkerIpc` is the stream
socket: writers under a lock, `sendmsg` and `recvmsg` that move any part of a frame,
descriptors that travel with its first part, torn frames, and the
reader that assembles, decodes and closes. Both directions are covered (`dir`).

### MediaPackets, VideoUnits, MediaUnits

Byte sequences in, frames out. `MediaPackets` parses RTP, payload and row headers at
the code's offsets and decodes samples; `VideoUnits` holds the depacketizer and the
reconstructor as functions of their state; `MediaUnits` composes them with a
sender that cuts frames into packets in several layouts and a network that loses and damages
some. A byte of row `r`, column `b` of frame `f` is `<<"data", f, r, b>>`, so that a byte
out of place is visible. The sender is external and conforming; receive timestamps,
counters and the kind of an error are left out.

### ReceiveTuning, SourceSelection, SourceRuntime

`ReceiveTuning` is the two tuning headers, in exact nanoseconds. `SourceSelection` goes
from a metadata document (opening tags, SDP texts, closing tags) to the streams, the
local interfaces and the MTL ports. `SourceRuntime` is `SourceRuntime::Impl`: a call of
OBS or of the user becomes a list of steps still to do (`todo`), because receive
threads call the sink between them; a step that joins a thread or takes the
handler's mutex waits for that thread to leave the sink. What the client, the
socket backends and the sink do inside is in their own modules. For a media clock
other than `direct` `make_sink_config` reads an empty optional; the model then takes
any offset (`Anchors`).

## 4. Runs

| Run | Instance | Shows |
|---|---|---|
| `reorder` | 16 numbers, window 3, positions 0..18, 5 pushes per reset | `TypeOK`, `SequenceTracking`, `Accounting`, `InOrderDelivery`, `ResyncSound` |
| `socket_merge` | 2 legs, window 3, 4 positions across the wrap, 5 datagrams, gaps of up to 2, the three flushing policies | `PacketConservation`, `MergeNeverLoses`, `DrainComplete` |
| `socket_redundant` | 2 legs, window 3, skew 2, 5 positions, 9 datagrams | `SeamlessMerge` |
| `socket_lifecycle` | 2 legs, 2 starts, 1 failure, 2 datagrams per start, fairness | `HealthIsTrue`, `SinkQuietAfterStop`; `ThreadsProgress`: `stop()` returns and the queue is served |
| `sink_playout` | video queue 1, audio queue 2, 4 timestamps, 3 frames per stream, rates 2 and 3 (one of them rounded), times of at most 2 | `ItemConservation`, `NeverEarly`, `PlayoutInOrder` |
| `sink_lifecycle` | 2 starts, errors, fairness | `ErrorStopsSink`, `QuietAfterStop`; `PlayoutProgresses`: `stop()` returns and no wake-up is lost |
| `sink_on_time` | prompt scheduler | **violated**, see below |
| `ring` | 2 slots, 4 frames, all failures of the worker and of the shared control channel, fairness | `SlotOwnership`, `EventsMatchSlots`, `NoSlotLeak`, `SinkPinned`, the refinement `ImplementsChannel`, `SlotsComeBack` |
| `worker_control` | 2 clients, 2 runtimes, 4 channel slots, 3 calls of `start` or `stats`, 1 fault | `LeasesAreSound`: one worker per runtime, active graphs hold leases; `WorkersServeTheirClients`: no orphan graph, running means receiving; `NothingIsForgotten`: no process left over (`ProcessesAreEnded`), no waiting thread that nothing would wake (`WaitsEnd`); `SharedWorkerSpared` |
| `ipc` | 2 writers, 3 frames of every message type, frames cut in 2 places, 1 failed send, 10-bit integers, fairness of the reader | `FramesArriveIntact`; `ReaderIsSound`: no legal frame refused, no descriptor leaked; `PreparedRingsAreMapped`, `FramesAreHandled` |
| `media_units` | 4x3 pictures in 4 formats, 3 scan modes, both partial-unit policies, 16- and 24-bit audio, 3 frames, 3 faults | `FramesAreFaithful`: bytes at their place, complete means whole, no mixed frames; `FramesComeThrough`: order, what arrived is delivered; `SamplesKeepTheirValue` |
| `source` | 8 metadata layouts, 3 networks, both backends, 2 gap policies, 5 calls, 2 failures | `CallbacksFindTheSink`, `StartsAreCounted`; `StatusIsTrue`: stopped means quiet, a source that is down says so; `GraphIsTheOneAskedFor` by settings and metadata; `BuffersHoldTheirDelay` |

A property that is a conjunction is stated in its module as named parts, each with
its own comment.

Why the bounds are enough. The numbers wrap in every run that has numbers
(positions start just below the modulus, or the timestamps' modulus is 4).
The window is smaller than the number of positions, so that overflow,
resynchronisation and lateness all happen. Two legs and two slots are the smallest
counts at which legs race and slots are reused; four frames wrap the ring
twice. Each run's properties are known to fail on a mutated model (`PROJECT.json`,
"mutants"), so none holds for lack of behaviour.

`SeamlessMerge` holds for a skew of up to the window minus one; with a skew equal
to the window TLC finds a hole, because a leg may hold a datagram that it has
received and not yet queued.

Two clients and two runtimes are the smallest numbers with which workers are
shared, raced for and retired; the picture has an odd number of rows, so that
its halves differ; 3 frames let a unit be lost between two that arrive; the frame
limit of `ipc` is the length of its longest message. The reorder and playout tunings
are compared with the delays they have to cover for 25 and 60 frames per second,
as TLC's integers have 32 bits.

`CHECK_DEADLOCK` is off for the ring, `ipc` and `media_units`: the worker's thread, the
reader or the sender ends, and then nothing is left to do. In `worker_control` and
`source` it is on, so that a call that can never return is an error: the only
states without a next step are those after the process or the source is gone (and after
`aborted`), which loop. Together with `WaitsEnd` this is the deadlock freedom of
the control plane.

### The violated run

`sink_on_time` checks what `docs/plugin_pipeline.md` says of the sink: a new frame
wakes the playout thread (lines 1375 and 1396), which always chooses the nearest
item (line 1494). The predicate of `wait_until` in `run_playout_loop` is
`stop_requested_` alone, so a thread that waits for a video deadline sleeps on
although an earlier audio block has arrived in the meantime; the block is played
when the video is due.

## 5. Fairness

* `SocketReceive`: weak fairness of the control thread inside `stop()`, of each
  leg's own steps and of the downstream thread: these are running threads. No
  fairness for the network, for `start()`, or for failures.
* `SynchronizedSink`: the clock advances, the playout thread is scheduled (and OBS
  returns from a delivery), a join of an ended thread returns.
* `SharedRing`: the receive thread (once it has a frame) and the reader thread are
  scheduled. Nothing is assumed about frames arriving or about the caller.
* `WorkerIpc`: the reader's process keeps running its loop. Nothing is assumed about
  writers.

## 6. Proofs

Every theorem holds for every value of the constants that the named
assumptions allow. Each component's proof is in a module of its own that extends the
component's module. What an invariant of a run needs to be inductive stands at the
end of the component's module, because it is a statement about the code like the
invariant itself: which thread lives in which phase, what a queue may contain.
TLC has checked these strengthenings on the runs' instances before they were proved.

### The reorder buffer (`ReorderBufferProofs`, `ReorderStreamProofs`)

Assumed: `WindowAssumption` (the window fits on both sides of the threshold, as the
tuning code guarantees). `ReorderBufferProofs` holds the arithmetic of wrapping
distances and what each operator of the buffer returns; the backend's proof uses it too.

* `BufferTypeCorrect`, `TracksTheStream`, `DeliversInOrder`, `ResyncIsSound`:
  `TypeOK`, `SequenceTracking`, `InOrderDelivery`, `ResyncSound`
* `CountsBalance`: `Accounting`

The inductive invariant is `IndInv == TypeOK /\ SequenceTracking /\ HeadOrder`.
`SequenceTracking` alone is not inductive: nothing would keep an uninitialised
buffer empty, and in-order delivery needs that the position handed out last is
below the head (`HeadOrder`). The argument: for an unambiguous position the
wrapped distance to the head is the true distance when the packet is ahead, and
exceeds the threshold when it is behind (`ForwardDist`, `BackwardDist`); so every
comparison in `push` decides about true positions.

`Accounting` is about cardinalities. The hard step is a resynchronisation, which
erases some packets, skips numbers and stores one packet, and may be refused
half way: `ReplacedCount` gives the size of the set that remains, and `SequenceTracking`
says that no number is both erased and counted as missing.

### The socket backend (`SocketReceiveProofs`)

Assumed: `WindowAssumption` and `SocketAssumption` (the positions in flight are
fewer than either side of the threshold).

* `PacketsAreCounted`: `PacketConservation`
* `DrainsAreComplete`: `DrainComplete`
* `HealthTellsTheTruth`: `HealthIsTrue`
* `SinkIsQuietAfterStop`: `SinkQuietAfterStop`
* `MergingLosesNothing`: `MergeNeverLoses`
* `SeamlesslyMerged`: `SeamlessMerge`, under hypotheses (below)

for every number of legs, window, gap policy and number of failures. The invariant
`SocketInv` has two halves that are proved one after the other. `ControlInv` says which threads live in which
step of `stop()` (`Lifecycle`) and needs nothing about packets; it gives `HealthIsTrue` and the silence of the
sink. `DataInv` says what the packets may be: the head of the buffer has a true position
above everything delivered (`HeadFollowsStream`), the merge history holds only numbers of accepted
packets (`HistoryAccepted`), and what the last drain left behind is still
undeliverable when the next packet is processed (`Drained`). `MergeNeverLoses` follows from
`HistoryAccepted`, which alone is not inductive: a number in the history must not
stand for two positions.

`SeamlessMerge` is not a property of every configuration, and `RedundantStream` says of which: two legs or more
that do not all lose a packet, a skew below the window (with one equal to the window TLC
finds a hole), the policy that waits for a missing packet (the others skip gaps on purpose),
and the first `start()`, because what a leg carried before a restart is gone with the old queue. The
burst a leg loses, how far back it repeats or reorders, the failures and `stop()` are free. `SeamlessInv` follows each
position from the network to the sink: what a leg has carried is lost on it, in its hands, queued, or
has reached the buffer (`CarriedArrives`). From this comes `NothingOvertaken`: a packet in hand, in the queue or in process has
behind it every position that is more than the skew before it. When a packet arrives some
other leg is already past such a position, with at most its last packet still in hand; and if that leg
lost the position, this one has carried it. So a packet beyond the window would
find the head stored, which the last drain excludes (`Drained`): the buffer never resynchronises, a refused packet is one it has,
and the head is always the position after the one delivered last (`HeadIsNext`).

The proof corrected an assumption. With 16-bit numbers the threshold is exactly half of the
space and a distance equal to it still counts as ahead, so with as many positions as the
threshold a packet behind the head by exactly half of the space would be taken for
one ahead. `SocketAssumption` therefore asks for `PositionCount < SeqModulus - LateThreshold`.

### The synchronized sink (`SynchronizedSinkProofs`)

Assumed: `MapperAssumption`, `SinkAssumption`; any clock rate, queue limit and delay.

* `SinkLosesNothing`: `ItemConservation`
* `SinkIsNeverEarly`: `NeverEarly`
* `ErrorLeavesSinkStopped`: `ErrorStopsSink`
* `QuietOnceStopped`: `QuietAfterStop`
* `PlayoutKeepsOrder`: `PlayoutInOrder`
* `FramesAreAppended`: the search of `insert_sorted_by_media_timestamp` never finds
  a place further in front

The invariant `SinkInv` adds `MediaOrder` (the item delivered last, the one being delivered, the queue and
the newest timestamp of the mapper are in this order) and `QueuedAnchored`
(whatever is queued has an anchor). `NeverEarly` needs the second one: the anchor an item
waited for must be the one in force when it is handed out. `PlayoutInOrder` needs
the first: the mapper's times never step back, so an insertion is an append, and dropping the front keeps the order.

### The shared-memory ring (`SharedRingProofs`)

Assumed: `RingAssumption`; with and without failures.

* `RingTypeCorrect`, `ExclusiveSlots`, `EventsAlwaysMatch`, `NoSlotForgotten`, `SinkStaysAttached`:
  `TypeOK`, `SlotOwnership`, `EventsMatchSlots`, `NoSlotLeak`, `SinkPinned`
* `RingImplementsChannel`: `ImplementsChannel`, the refinement to `MediaChannel`

`NoSlotForgotten` covers the failure of the shared channel: a slot in Writing or Reading
is never forgotten, a Ready one not before some graph has failed the channel. After
that the code does forget Ready slots (section 7).

The inductive invariant `RingInv` is the conjunction of the first five with `EventsFresh` and
`SearchBounded`. Ownership alone is not inductive: the compare-exchange takes the
slot its event names, and only `EventsFresh` says that the slot is not taken by
anybody: announced events, the event in hand and the slot about to be announced
are pairwise different slots, each still as it was published. There is one lemma per step of either
process; the steps that write a slot are argued from its state, which excludes
every slot an event names. For the refinement each step maps to a step of the
channel or to a stutter: an announcement sends, a delivery takes the frame out, an event
given up, or dropped by a failed channel, loses it, everything else stutters. That the payload delivered is the frame announced needs `PayloadsIntact` (the
payload of every announced slot is whole and is the event's frame), which rests on `RingInv`.

### The control socket and the rings it announces (`WorkerIpcProofs`)

Assumed: `LayoutAssumption` (the header is aligned and fits) for the arithmetic on both sides of the socket:

* `ValidRingsAreSound`: in a ring the worker's validation accepts, every header and payload
  lies in the mapping and in its own slot, computed in integers that wrap
* `MadeRingsAreSound`: what the client makes is sound and has the slots and the capacity asked for
* `FittingRingsAreMade`: the client refuses no ring whose true size fits

Together: the checks are neither too weak nor too strong, for every width of the integers.

Assumed besides: `IpcAssumption` and `MessageAssumption`, for the socket itself:

* `FramesAlwaysArriveIntact`: `FramesArriveIntact`
* `ReaderAlwaysSound`: `ReaderIsSound`
* `PreparedRingsAlwaysMapped`: `PreparedRingsAreMapped`

for any number of writers, frames and segments, any limits, and every way the sends and receives
cut the frames. Two hypotheses about the messages stand in the theorems. `CodecRoundTrips` says that what the
receiver's codec makes of a payload is what the sender's was given. The codec is a fold over the
fields of a message, so this is induction over data; the `ipc` run checks it for its
messages, because each has to be handled as itself. `RingsArePrepared` says that
the rings of a StartSessions request are those `prepare_media_rings` made for a picture
and a block whose sizes are of type `uint64_t`, as in `MtlWorkerGraphClient::start`; `MCWorkerIpc` asserts it of its messages.

The invariant `IpcInv` follows the bytes. `NextWrite` and `NextRead` are the two ends of
what is in the socket: `StreamInv` says that the parts between them were written and lie one
behind the other, each first part of a frame with that frame's descriptors. `InStep` says that as long as no frame was
torn (`NoneTorn`) the reader has of the current frame exactly the bytes before `NextRead`, which gives
`HandledInv`, that what was handled was sent. After a torn frame nothing of this
holds, because the reader takes bytes of one frame for those of another. What remains is the reader's
account of its descriptors, and `CauseInv`: it ends for a torn frame or a shutdown. `ReaderIsSound` is
not inductive, because a legal frame could still be refused: by its size, by a header
pieced together, or by more descriptors than allowed; `InStep` excludes all three. For
`PreparedRingsAreMapped` the frame handled may also come after a torn one. There
`PayloadInv` helps: a payload that is read from its first byte has its own descriptors,
since the first part of the frame is taken together with them, and a payload pieced
together is no message.

### The source (`SourceRuntimeProofs`)

Assumed: `OffersAssumption`.

* `CallbacksAreSafe`: `CallbacksFindTheSink`
* `StartsAreRight`: `StartsAreCounted`
* `StatusIsRight`: `StatusIsTrue`
* `SettingsAreFollowed`: between calls the graph was built from the current settings
* `AllStreamsAreReceived`: between calls an active source has a started backend for
  every stream of its settings, and a running sink and MTL client
* `QueuesHoldTheDelay`, `WindowsHoldTheBudget`: the tuning, for any one set of streams
* `BuffersAlwaysHold`: `BuffersHoldTheirDelay`, under `StreamsAreParsed` and `WindowsFit`
* `GraphAlwaysAsAsked`: `GraphIsTheOneAskedFor`, under `StreamsAreParsed` and `SelectionIsComplete`

`SourceInv` is the outline of a program. `Between` is what a call finds and leaves: the graph is in
place or clean, and if the source is down it says so. `Before(step)` is what holds when the step is the next one of the call, with the
list of the steps that follow it (`todo`) as the program counter: the
tail of the list is fixed by the step, up to the alternatives the code has. `Entered`, `BackendsWhole` and
`ClientWhole` hold everywhere: who may enter the sink finds it running; a proxy holds the sink
only while it is started or starting; the client's count is that of the started proxies unless it has lost
its worker. `CallbacksFindTheSink` alone is not inductive, because it says nothing about the
threads that could enter next; `Entered` does. One lemma per kind of step shows that
it establishes what the next one needs.

The sizes of the buffers rest on the rounding in `CeilDiv`: a queue of `CeilDiv(delay, item)` items and one more lasts longer than the delay,
and a window computed from a packet spacing that is rounded down is only the larger for it.
`BuiltChecked` carries this to the running source: a graph is built from a checked
configuration only, and its width is that of its picture until the sink is gone. Three hypotheses
say what is left to the data. `StreamsAreParsed`: the numbers of a stream are positive, as the parsers
demand. `WindowsFit`: the jitter budget and the margin fit into the largest
window. This is a real limit: a picture of more than 8176 packets per 5 ms gets a window cut
at 8192 that need not hold the budget. `MCSourceRuntime` asserts both of its offers. `SelectionIsComplete`: every
stream that a selected document announces is among the graph's, unless the
configuration is refused; this is an induction over the document, and the `source` run checks its consequence.

### The control plane (`GraphClientProofs`)

Assumed: `ControlAssumption` (channels and ids are numbers, the destructor's thread is
no client, sources are configured for known runtimes).

* `LeasesAreAlwaysSound`: `LeasesAreSound`
* `SharedWorkersAreSpared`: `SharedWorkerSpared`
* `NothingIsEverForgotten`: `NothingIsForgotten`; its first half `ProcessesAreEnded` is
  `NoWorkerIsLeftBehind`
* `WorkersAlwaysServe`: `WorkersServeTheirClients`

for every number of sources, runtimes, channels, calls and faults. The invariant
`LeaseInv` is again the outline of a program, here of every thread: `OutlineOf` lists the seven
situations a thread can be in (resting, acquiring, in a handshake, on its lease, retiring workers, leaving
a channel, finished), with what it holds in each; a transaction counts as the place it returns to.
`LeasesAreSound` alone is not inductive. `RecordsCount` says that a lease in a record is counted, and
that the record's worker was once started (`Begun`): a channel that was started can only lose its
health, so a worker that was passed over as unusable never becomes a rival of the
one registered in its place (`OneWorkerPerRuntime`). `SpawnedAlone` keeps others
away from a channel in its handshake, so registering it adds a record of its own, and
`RetiredUnrecorded` keeps a worker that is being shut down out of the records.
`ExitIsAlone` lets the destructor clear the records, and `OpenIsReferred` follows the
shared ownership of the channels: whoever drops the last reference of an open channel closes it.

The proof has one lemma per step. What a step of a thread has to show is stated once
(`StepKeeps`, and `ClientKeeps` for steps that touch no socket): what becomes of the records, of the
channels, and of what the thread refers to. The steps of the reader and of the
worker process keep the invariant because they only close and fail channels (`ChannelKeeps`).
The workers shut down together come in any order in the model, as the
code's vector of records is a set there.

For the threads that wait the invariant is `LeaseInv /\ WaitInv`. `Heard` says that whoever waits is
`Attended`: its request or one with its id is on the way to the worker, an event with its id
on the way back or filed, or the channel or the worker is done for. That is not the bare `WaitsEnd`, because ids are
not unique: the clients and the manager count apart, so an answer may be taken by the wrong one
of two requests. `AnswerShared` shows who that can be: only a Shutdown shares a channel with a client's
request, and a Shutdown waits for the end of the worker rather than for its answer; so for a
Shutdown an event never counts, and while it waits the loser's request id is still on the way. `ReadersServe`
gives every usable channel its reader, `WaitsBegun` says that nobody waits on a channel whose worker can still be
started (which would empty the sockets), and `ReadersStay` that a reader is joined only by the
thread that shuts the worker down, so that no transaction starts the worker again before.
Again one lemma per step; the premises common to the steps of a thread are in `WaitsKept`.

`WorkersServeTheirClients` is about what the queues carry rather than which ids: what the worker did for
the request an answer belongs to, and what may still happen to the graph before the answer
is read. `ServeInv`, on top of the other two, says it for each place in the life of a
request. `ClientsStand` is its core: on its way, an answer is already true
when its client reads it (after `Started` the worker has the graph, after `Stopped` or a refused start it has not), and a client
at rest knows whether it has a graph. For this no other request may come in between. `OwnRequests`
lets a request about a graph be on its way only while its client waits for it or has
given up together with the channel; `IdsOnce` says that an id in the sockets stands for one
request, so that reused ids find no stale answer; `ManagerSilent` that the manager asks nothing on a
recorded channel, and a Shutdown's answer is the worker's last; `HandshakesEmpty` that a channel enters the
records with an empty worker and empty sockets. `NoOrphans` is the first half of the property
for the channels of the records, and a client that loses an answer gives up the
channel, which takes it out of them.

### What is only model-checked

* Liveness and fairness (`ThreadsProgress`, `PlayoutProgresses`, `SlotsComeBack`, `FramesAreHandled`): out
  of the prover's reach.
* Of `GraphIsTheOneAskedFor`: that the selection from a document is complete (`SelectionIsComplete`).
* What the codec (`IpcCodec`) and the media pipeline (`MediaUnits`) compute: folds over fields or
  bytes, again induction over data. The framing around the codec is proved.

## 7. Not modelled

* The syntax of single SDP lines and of XML attributes, NDI, the text of the
  properties dialog, the numbers in statistics, OBS structures: pure text or I/O.
* A restart of the timestamp clock after a long pause (`start()` of the sink keeps
  the mappers), and a restart of a backend that still holds a half-assembled unit.
* The byte order of the IPC fields and the content of strings (widths are modelled).
* memfd, seals and mmap, multicast membership and bind, MTL itself.
* A recycled file descriptor under a racing `recvfrom`; a sender that restarts
  and repeats numbers within the window of the merge history.
* Which libobs thread calls `update`, the buttons, `get_properties` and
  `get_width`: the calls of `SourceRuntime` come one at a time.
* The death of a worker as seen by its source: `running()` stays true until the
  next query or stop, because nothing tells the source.
* What a failed control channel does to the other graphs of its worker, beyond the ring:
  one graph's time-out or failed send marks the shared channel as failed, and from then on the
  reader thread drops the ready events of all of them. Their slots stay Ready, and
  once a ring has no Empty slot its session drops every further frame while it
  counts as healthy. `SharedRing` shows the state and that nothing worse follows;
  that it lasts until the client's next transaction fails and gives the worker up, and
  that nothing tells the source before, is outside the properties.
* `unwrap_cdata_copy` (`src/plugins/obs_st2110/src/discovery_provider.cpp:63`) keeps a
  `string_view` to a temporary and copies from it after it is gone. `RawSdp` is the text
  the function is meant to return; damaged text is covered as far as it is a
  document with ill-formed sections (`wellFormed`), which is among the inputs.
* Segments of a payload header that lie outside the picture: the sender conforms.
* The development tools under `apps/st2110_mtl_send_test` and `apps/st2110_rx_dump`.
