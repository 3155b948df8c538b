----------------------------- MODULE SharedRing -----------------------------
(***************************************************************************)
(* One media ring of the MTL path.  The receive thread of the worker       *)
(* process copies a frame into a slot of shared memory, publishes the slot *)
(* and announces it with an event on the control socket; the plugin's      *)
(* client handles the event under its mutex, reads the slot, calls the     *)
(* sink and releases the slot.  The two processes share only the slot      *)
(* headers, the payloads and the event stream, and the stream is shared    *)
(* with every other graph of the worker: their failures drop this ring's   *)
(* events.  A step is one access to shared memory.                         *)
(***************************************************************************)
EXTENDS Integers, Sequences, FiniteSets

CONSTANTS
    SlotCount,   \* slot_count of the ring's descriptor
    MaxFrames,   \* bound: frames the worker receives
    MayFail      \* TRUE: exports, deliveries, the worker and the control channel may fail

ASSUME RingAssumption ==
    /\ SlotCount \in Nat \ {0}
    /\ MaxFrames \in Nat
    /\ MayFail \in BOOLEAN

Slots == 0 .. SlotCount - 1

VARIABLES
    \* shared memory
    state,     \* [Slots -> slot state]
    sequence,  \* [Slots -> Nat] sequence of the slot header
    filled,    \* [Slots -> BOOLEAN] payload_size and metadata are valid
    payload,   \* [Slots -> the frame copied there, 0 while it is torn]
    pipe,      \* ready events on the control socket
    \* the worker's receive thread
    writer,    \* "get", "acquire", "copy", "copying", "publish", "store",
               \* "announce", "put", "exited"
    frame,     \* number of the frame being exported
    attempt, slot, next_slot, next_sequence,
    stop_requested,
    healthy,   \* the session's health
    dropped,   \* record_video_frame_dropped
    \* the plugin's reader thread and handler
    control,   \* "open", "failed" (reader_failed or shutdown_requested: events
               \* are read and dropped), "ended" (the reader thread is gone)
    reader,    \* "idle", "entering" (the handler's mutex not taken yet), "state",
               \* "sequence", "cas", "recheck", "deliver", "calling", "release"
    event,     \* the event being dispatched or handled
    active,    \* AsyncState::active
    sink,      \* a sink is attached
    unread,    \* ignored_events, stale_ready_events and release_failures
    \* what the properties remember
    sent,      \* newest frame announced
    last       \* frame handed to the sink last

memVars == <<state, sequence, filled, payload>>
writerVars == <<writer, frame, attempt, slot, next_slot, next_sequence, healthy, dropped>>
readerVars == <<reader, event, unread>>
clientVars == <<active, sink, control>>

vars == <<memVars, pipe, writerVars, stop_requested, readerVars, clientVars, sent, last>>

NoEvent == [slot |-> 0, sequence |-> 0, frame |-> 0]

\* initialize_slot_headers, and a session and a client that have just started.
Init ==
    /\ state = [s \in Slots |-> "Empty"]
    /\ sequence = [s \in Slots |-> 0]
    /\ filled = [s \in Slots |-> FALSE]
    /\ payload = [s \in Slots |-> 0]
    /\ pipe = <<>>
    /\ writer = "get" /\ frame = 0 /\ attempt = 0 /\ slot = 0
    /\ next_slot = 0 /\ next_sequence = 1
    /\ stop_requested = FALSE /\ healthy = TRUE /\ dropped = 0
    /\ control = "open" /\ reader = "idle" /\ event = NoEvent /\ unread = 0
    /\ active = TRUE /\ sink = TRUE
    /\ sent = 0 /\ last = 0

-----------------------------------------------------------------------------
(* receive_loop_noexcept and export_*_frame_to_ring.                       *)

writerFrame == <<stop_requested, readerVars, clientVars, last>>

\* The loop ends with the session unhealthy.
ExportFails == writer' = "exited" /\ healthy' = FALSE

GetFrame ==
    /\ writer = "get" /\ ~stop_requested /\ frame < MaxFrames
    /\ frame' = frame + 1 /\ attempt' = 0
    /\ writer' = "acquire"
    /\ UNCHANGED <<writerFrame, memVars, pipe, sent, slot, next_slot, next_sequence, healthy, dropped>>

LoopEnds ==
    /\ writer = "get" /\ stop_requested
    /\ writer' = "exited"
    /\ UNCHANGED <<writerFrame, memVars, pipe, sent, frame, attempt, slot, next_slot,
                   next_sequence, healthy, dropped>>

\* Variant that takes a slot whose frame nobody has read yet.
MayWrite_Overwrites(s) == state[s] \in {"Empty", "Ready"}

\* The comparison of begin_write_slot.
MayWrite(s) == state[s] = "Empty"

Candidate == (next_slot + attempt) % SlotCount

NextSlot(s) == (s + 1) % SlotCount

\* The frame is empty or larger than a slot: it is dropped at once.
FrameRefused ==
    /\ MayFail /\ writer = "acquire" /\ attempt = 0
    /\ dropped' = dropped + 1
    /\ writer' = "put"
    /\ UNCHANGED <<writerFrame, memVars, pipe, sent, frame, attempt, slot, next_slot,
                   next_sequence, healthy>>

\* One attempt of acquire_*_ring_slot; the last one that fails drops the frame.
AcquireSlot ==
    /\ writer = "acquire"
    /\ IF MayWrite(Candidate)
       THEN /\ state' = [state EXCEPT ![Candidate] = "Writing"]
            /\ slot' = Candidate
            /\ next_slot' = NextSlot(Candidate)
            /\ writer' = "copy"
            /\ UNCHANGED <<attempt, dropped>>
       ELSE /\ attempt' = attempt + 1
            /\ writer' = IF attempt + 1 = SlotCount THEN "put" ELSE writer
            /\ dropped' = IF attempt + 1 = SlotCount THEN dropped + 1 ELSE dropped
            /\ UNCHANGED <<state, slot, next_slot>>
    /\ UNCHANGED <<writerFrame, sequence, filled, payload, pipe, sent, frame, next_sequence, healthy>>

CopyBegin ==
    /\ writer = "copy"
    /\ payload' = [payload EXCEPT ![slot] = 0]
    /\ writer' = "copying"
    /\ UNCHANGED <<writerFrame, state, sequence, filled, pipe, sent, frame, attempt, slot,
                   next_slot, next_sequence, healthy, dropped>>

CopyEnd ==
    /\ writer = "copying"
    /\ payload' = [payload EXCEPT ![slot] = frame]
    /\ writer' = "publish"
    /\ UNCHANGED <<writerFrame, state, sequence, filled, pipe, sent, frame, attempt, slot,
                   next_slot, next_sequence, healthy, dropped>>

\* Variant that forgets to give the slot back.
AbortWrite_KeepsSlot == UNCHANGED <<state, filled>>

\* abort_write_slot
AbortWrite ==
    /\ filled' = [filled EXCEPT ![slot] = FALSE]
    /\ state' = [state EXCEPT ![slot] = "Empty"]

\* The copy yields nothing usable: the slot is given back and the frame
\* dropped, and the loop goes on or ends.
CopyRejected(fatal) ==
    /\ MayFail /\ writer = "copying"
    /\ AbortWrite
    /\ dropped' = dropped + 1
    /\ IF fatal THEN ExportFails ELSE writer' = "put" /\ UNCHANGED healthy
    /\ UNCHANGED <<writerFrame, sequence, payload, pipe, sent, frame, attempt, slot,
                   next_slot, next_sequence>>

\* publish_written_slot: the header ...
PublishHeader ==
    /\ writer = "publish"
    /\ sequence' = [sequence EXCEPT ![slot] = next_sequence]
    /\ filled' = [filled EXCEPT ![slot] = TRUE]
    /\ next_sequence' = next_sequence + 1
    /\ writer' = "store"
    /\ UNCHANGED <<writerFrame, state, payload, pipe, sent, frame, attempt, slot, next_slot,
                   healthy, dropped>>

\* ... and then the state.
PublishState ==
    /\ writer = "store"
    /\ state' = [state EXCEPT ![slot] = "Ready"]
    /\ writer' = "announce"
    /\ UNCHANGED <<writerFrame, sequence, filled, payload, pipe, sent, frame, attempt, slot,
                   next_slot, next_sequence, healthy, dropped>>

\* The metadata does not pass validate_slot_media_metadata.
PublishRejected ==
    /\ MayFail /\ writer = "publish"
    /\ next_sequence' = next_sequence + 1
    /\ AbortWrite
    /\ dropped' = dropped + 1
    /\ ExportFails
    /\ UNCHANGED <<writerFrame, sequence, payload, pipe, sent, frame, attempt, slot, next_slot>>

Announce ==
    /\ writer = "announce"
    /\ pipe' = Append(pipe, [slot |-> slot, sequence |-> sequence[slot], frame |-> frame])
    /\ sent' = frame
    /\ writer' = "put"
    /\ UNCHANGED <<writerFrame, memVars, frame, attempt, slot, next_slot, next_sequence,
                   healthy, dropped>>

\* The event cannot be written: the published slot stays Ready for good.
AnnounceFails ==
    /\ MayFail /\ writer = "announce"
    /\ dropped' = dropped + 1
    /\ ExportFails
    /\ UNCHANGED <<writerFrame, memVars, pipe, sent, frame, attempt, slot, next_slot, next_sequence>>

\* st20p_rx_put_frame / st30p_rx_put_frame
PutFrame(ok) ==
    /\ writer = "put"
    /\ ok \/ MayFail
    /\ IF ok THEN writer' = "get" /\ UNCHANGED healthy ELSE ExportFails
    /\ UNCHANGED <<writerFrame, memVars, pipe, sent, frame, attempt, slot, next_slot,
                   next_sequence, dropped>>

StopRequest ==
    /\ ~stop_requested
    /\ stop_requested' = TRUE
    /\ UNCHANGED <<memVars, pipe, writerVars, readerVars, clientVars, sent, last>>

\* The worker process dies between any two steps.
WorkerCrash ==
    /\ MayFail /\ writer # "exited"
    /\ ExportFails
    /\ UNCHANGED <<writerFrame, memVars, pipe, sent, frame, attempt, slot, next_slot,
                   next_sequence, dropped>>

-----------------------------------------------------------------------------
(* reader_loop_noexcept and handle_event_noexcept.                         *)

readerFrame == <<writerVars, stop_requested, clientVars, sent>>

\* dispatch_async_event_noexcept: once the channel has failed the event is
\* dropped and its slot stays as it is, however well this client and its
\* session are.  Otherwise the handler is called, the channel's mutex free; it
\* is registered for as long as its client is active.
TakeEvent ==
    /\ reader = "idle" /\ control # "ended" /\ pipe # <<>>
    /\ pipe' = Tail(pipe)
    /\ IF control = "open" THEN reader' = "entering" /\ event' = Head(pipe)
                           ELSE UNCHANGED <<reader, event>>
    /\ UNCHANGED <<readerFrame, memVars, unread, last>>

\* The handler takes its mutex and drops the event of an inactive client.
EnterHandler ==
    /\ reader = "entering"
    /\ reader' = IF active THEN "state" ELSE "idle"
    /\ UNCHANGED <<readerFrame, memVars, pipe, event, unread, last>>

\* begin_read_slot_if_matches: each test that fails gives the event up.
GiveUpUnless(test, next) ==
    /\ reader' = IF test THEN next ELSE "idle"
    /\ unread' = IF test THEN unread ELSE unread + 1
    /\ UNCHANGED event

ReadState ==
    /\ reader = "state"
    /\ GiveUpUnless(state[event.slot] = "Ready", "sequence")
    /\ UNCHANGED <<readerFrame, memVars, pipe, last>>

ReadSequence ==
    /\ reader = "sequence"
    /\ GiveUpUnless(sequence[event.slot] = event.sequence, "cas")
    /\ UNCHANGED <<readerFrame, memVars, pipe, last>>

CompareExchange ==
    /\ reader = "cas"
    /\ GiveUpUnless(state[event.slot] = "Ready", "recheck")
    /\ state' = IF state[event.slot] = "Ready" THEN [state EXCEPT ![event.slot] = "Reading"]
                                               ELSE state
    /\ UNCHANGED <<readerFrame, sequence, filled, payload, pipe, last>>

\* The slot stays in Reading when this test fails.
RecheckSlot ==
    /\ reader = "recheck"
    /\ GiveUpUnless(sequence[event.slot] = event.sequence /\ filled[event.slot], "deliver")
    /\ UNCHANGED <<readerFrame, memVars, pipe, last>>

\* deliver_*_no_lock: the frame is copied out and the sink called (ok), unless
\* the sink is detached or the slot does not fit the configuration.
DeliverFrame(ok) ==
    /\ reader = "deliver"
    /\ IF ok THEN sink ELSE ~sink \/ MayFail
    /\ last' = IF ok THEN payload[event.slot] ELSE last
    /\ reader' = IF ok THEN "calling" ELSE "release"
    /\ UNCHANGED <<readerFrame, memVars, pipe, event, unread>>

\* on_video_frame / on_audio_frame returns or throws, which is caught.
SinkReturns ==
    /\ reader = "calling"
    /\ reader' = "release"
    /\ UNCHANGED <<readerFrame, memVars, pipe, event, unread, last>>

\* Variant that lets the writer have the slot back while it is being read.
ReleaseSlot_Early ==
    /\ reader = "deliver" \/ reader = "release"
    /\ filled' = [filled EXCEPT ![event.slot] = FALSE]
    /\ state' = [state EXCEPT ![event.slot] = "Empty"]
    /\ reader' = IF reader = "release" THEN "idle" ELSE reader
    /\ UNCHANGED <<readerFrame, sequence, payload, pipe, event, unread, last>>

\* Variant that forgets the slot once its frame is delivered.
ReleaseSlot_Forgotten ==
    /\ reader = "release"
    /\ reader' = "idle"
    /\ UNCHANGED <<readerFrame, memVars, pipe, event, unread, last>>

\* release_read_slot
ReleaseSlot ==
    /\ reader = "release"
    /\ filled' = [filled EXCEPT ![event.slot] = FALSE]
    /\ state' = [state EXCEPT ![event.slot] = "Empty"]
    /\ reader' = "idle"
    /\ UNCHANGED <<readerFrame, sequence, payload, pipe, event, unread, last>>

\* A transaction of any graph on the channel times out or cannot be sent, or
\* the channel is shut down: it stays failed for all of them.
ChannelFails ==
    /\ MayFail /\ control = "open"
    /\ control' = "failed"
    /\ UNCHANGED <<memVars, pipe, writerVars, stop_requested, readerVars, active, sink, sent, last>>

\* The reader thread returns: a frame cannot be read or decoded, or an answer
\* arrives on a channel that has failed.
ReaderEnds ==
    /\ MayFail /\ reader = "idle" /\ control # "ended"
    /\ control' = "ended"
    /\ UNCHANGED <<memVars, pipe, writerVars, stop_requested, readerVars, active, sink, sent, last>>

\* The handler's mutex, which deactivate_noexcept and detach_sink_noexcept take.
HandlerMutexFree == reader \in {"idle", "entering"}

Deactivate ==
    /\ HandlerMutexFree /\ active
    /\ active' = FALSE /\ sink' = FALSE
    /\ UNCHANGED <<memVars, pipe, writerVars, stop_requested, readerVars, control, sent, last>>

\* Variant that does not wait for the handler.
DetachSink_NoLock ==
    /\ sink
    /\ sink' = FALSE
    /\ UNCHANGED <<memVars, pipe, writerVars, stop_requested, readerVars, active, control, sent, last>>

DetachSink ==
    /\ HandlerMutexFree /\ sink
    /\ sink' = FALSE
    /\ UNCHANGED <<memVars, pipe, writerVars, stop_requested, readerVars, active, control, sent, last>>

-----------------------------------------------------------------------------
WriterStep ==
    \/ LoopEnds \/ AcquireSlot \/ CopyBegin \/ CopyEnd
    \/ PublishHeader \/ PublishState \/ Announce \/ PutFrame(TRUE)

WriterFault ==
    \/ FrameRefused
    \/ \E fatal \in BOOLEAN : CopyRejected(fatal)
    \/ PublishRejected \/ AnnounceFails \/ PutFrame(FALSE) \/ WorkerCrash

ReaderStep ==
    \/ TakeEvent \/ EnterHandler \/ ReadState \/ ReadSequence \/ CompareExchange \/ RecheckSlot
    \/ \E ok \in BOOLEAN : DeliverFrame(ok)
    \/ SinkReturns \/ ReleaseSlot

Next ==
    \/ GetFrame \/ WriterStep \/ WriterFault
    \/ ReaderStep
    \/ ChannelFails \/ ReaderEnds
    \/ StopRequest \/ Deactivate \/ DetachSink

Spec == Init /\ [][Next]_vars

\* Both threads are scheduled; nothing is assumed of the network or the caller.
FairSpec == Spec /\ WF_vars(WriterStep) /\ WF_vars(ReaderStep)

-----------------------------------------------------------------------------
Writing == writer \in {"copy", "copying", "publish", "store"}
Reading == reader \in {"recheck", "deliver", "calling", "release"}
InHand == reader \in {"entering", "state", "sequence", "cas", "recheck", "deliver"}

\* Type invariant.
TypeOK ==
    /\ state \in [Slots -> {"Empty", "Writing", "Ready", "Reading"}]
    /\ sequence \in [Slots -> Nat] /\ filled \in [Slots -> BOOLEAN] /\ payload \in [Slots -> Nat]
    /\ pipe \in Seq([slot : Slots, sequence : Nat, frame : Nat])
    /\ writer \in {"get", "acquire", "copy", "copying", "publish", "store", "announce", "put", "exited"}
    /\ reader \in {"idle", "entering", "state", "sequence", "cas", "recheck", "deliver",
                   "calling", "release"}
    /\ control \in {"open", "failed", "ended"}
    /\ slot \in Slots /\ next_slot \in Slots /\ attempt \in 0 .. SlotCount
    /\ next_sequence \in Nat /\ frame \in Nat /\ dropped \in Nat /\ unread \in Nat
    /\ event \in [slot : Slots, sequence : Nat, frame : Nat]
    /\ sent \in Nat /\ last \in Nat
    /\ stop_requested \in BOOLEAN /\ healthy \in BOOLEAN
    /\ active \in BOOLEAN /\ sink \in BOOLEAN

\* The two processes never hold the same slot: its state says which of them
\* may touch the payload, however their accesses interleave.
SlotOwnership ==
    /\ Writing => state[slot] = "Writing"
    /\ Reading => state[event.slot] = "Reading"

\* Every event an active client handles finds its slot Ready, with its own
\* sequence and valid metadata: the tests of begin_read_slot_if_matches never
\* give an event up, so that no slot is left behind in Ready or Reading.
EventsMatchSlots == unread = 0

\* No slot is forgotten while both sides are well: the thread that took it
\* still has it, and as long as the control channel stands a published slot is
\* being announced, announced, or in the handler's hands.  Once any graph has
\* failed the channel, Ready slots are forgotten, and only those.
NoSlotLeak ==
    (active /\ healthy) =>
        \A s \in Slots :
            /\ state[s] = "Writing" => Writing /\ slot = s
            /\ state[s] = "Reading" => Reading /\ event.slot = s
            /\ state[s] = "Ready" /\ control = "open" =>
                 \/ writer = "announce" /\ slot = s
                 \/ InHand /\ event.slot = s
                 \/ \E i \in 1 .. Len(pipe) : pipe[i].slot = s

\* The sink is never detached under a running on_video_frame or
\* on_audio_frame: once detach or deactivate has returned, its owner may
\* destroy it although the worker's events keep coming.
SinkPinned == reader = "calling" => sink

\* The frames announced and not yet handed to the sink, oldest first.
InFlight ==
    (IF InHand THEN <<event.frame>> ELSE <<>>) \o [i \in 1 .. Len(pipe) |-> pipe[i].frame]

\* The ring and its events implement a bounded channel that delivers whole
\* frames in order and at most once.
Channel == INSTANCE MediaChannel WITH
    Frames <- 1 .. MaxFrames,
    Capacity <- SlotCount,
    chan <- InFlight,
    sent <- sent,
    last <- last

ImplementsChannel == Channel!Spec

\* Every slot taken becomes free again, so that the worker cannot run out of
\* slots for good, unless the client stops, the worker fails or a graph fails
\* the control channel; and a slot the handler has taken is given back even
\* then, whatever happens during the delivery.
SlotsComeBack ==
    \A s \in Slots :
        /\ (state[s] # "Empty") ~> (state[s] = "Empty" \/ ~active \/ ~healthy \/ control # "open")
        /\ (state[s] = "Reading") ~> (state[s] = "Empty")

-----------------------------------------------------------------------------
(* What the invariants above need to be inductive.                         *)

\* The event's slot is as publish_written_slot left it.
Fits(e) == state[e.slot] = "Ready" /\ sequence[e.slot] = e.sequence /\ filled[e.slot]

\* The handler has an event whose slot it has not taken yet.
Claiming == reader \in {"entering", "state", "sequence", "cas"}

\* Events announced, in hand or about to be announced concern different
\* slots, each of them still as it was published.
EventsFresh ==
    /\ \A i \in 1 .. Len(pipe) : Fits(pipe[i])
    /\ \A i, j \in 1 .. Len(pipe) : pipe[i].slot = pipe[j].slot => i = j
    /\ Claiming => Fits(event) /\ \A i \in 1 .. Len(pipe) : pipe[i].slot # event.slot
    /\ reader = "recheck" => sequence[event.slot] = event.sequence /\ filled[event.slot]
    /\ writer = "announce" =>
         /\ state[slot] = "Ready" /\ filled[slot]
         /\ Claiming => event.slot # slot
         /\ \A i \in 1 .. Len(pipe) : pipe[i].slot # slot
    /\ writer = "store" => filled[slot]

\* The search for a slot has not tried every slot yet.
SearchBounded == writer = "acquire" => attempt < SlotCount

RingInv ==
    SearchBounded /\ TypeOK /\ SlotOwnership /\ EventsFresh /\ EventsMatchSlots /\ NoSlotLeak /\ SinkPinned

\* The event's slot still holds the frame it was announced with.
Carries(e) == payload[e.slot] = e.frame

\* What the refinement needs besides: no payload changes between its copy and
\* its delivery, and the frames are announced in the order of their numbers.
PayloadsIntact ==
    /\ \A i \in 1 .. Len(pipe) : Carries(pipe[i])
    /\ InHand => Carries(event)
    /\ writer \in {"publish", "store", "announce"} => payload[slot] = frame
    /\ sent <= frame /\ frame <= MaxFrames
    /\ writer \in {"acquire", "copy", "copying", "publish", "store", "announce"} => sent < frame

=============================================================================
