-------------------------- MODULE SynchronizedSink --------------------------
(***************************************************************************)
(* SynchronizedFrameSink: the receive threads of the video and the audio   *)
(* backend put mapped frames into two bounded queues; one playout thread   *)
(* takes the item with the smallest media timestamp and hands it to OBS    *)
(* when its local playout time has come; the control thread calls start()  *)
(* and stop().  A step is one critical section of mutex_.  Time is         *)
(* discrete.                                                               *)
(***************************************************************************)
EXTENDS RtpTimestampMapper, Sequences, FiniteSets

CONSTANTS
    Enabled,         \* streams enabled in the configuration
    MapperConfig,    \* [Enabled -> MapperConfigs]
    MaxQueued,       \* [Enabled -> Nat] max_queued_video_frames, _audio_blocks
    PlayoutDelay,    \* playout_delay_ns
    FrameSteps,      \* bound: how far a stream's clock moves between frames
    Backwards,       \* TRUE: a frame may carry an older timestamp
    Prompt,          \* TRUE: the playout thread runs as soon as it can
    MaxFrames,       \* bound: frames offered per stream
    MaxTime,         \* bound on the clock
    IntakeTime,      \* bound: no frame is offered later than this
    MaxStarts        \* bound: calls of start()

ASSUME SinkAssumption ==
    /\ Enabled \subseteq {"video", "audio"}
    /\ MapperConfig \in [Enabled -> MapperConfigs]
    /\ MaxQueued \in [Enabled -> Nat]
    /\ PlayoutDelay \in Nat
    /\ FrameSteps \subseteq Nat
    /\ Backwards \in BOOLEAN /\ Prompt \in BOOLEAN

VARIABLES
    ctl,             \* control thread: "idle", "started", "stopping"
    starts,
    running,         \* running_
    stop_requested,  \* stop_requested_
    output_error,    \* output_error_ is set
    queue,           \* video_queue_ and audio_queue_, by stream
    mapper,          \* video_mapper_ and audio_mapper_, by stream
    anchor,          \* playout_anchor_: the empty set or a singleton
    counters,        \* the counters of SynchronizedFrameSinkStats, by stream
    thread,          \* "none", "top", "select", "wait_item", "wait_deadline",
                     \* "deliver", "exited"
    deadline,        \* what wait_until waits for
    item,            \* the item being delivered: the empty set or a singleton
    now,             \* Clock::now()
    source_time,     \* [Enabled -> ticks] the streams' own clocks
    uncounted,       \* [Enabled -> items thrown away by start(), stop() or OBS]
    last_ts          \* [Enabled -> media timestamp delivered last, or -1]

vars == <<ctl, starts, running, stop_requested, output_error, queue, mapper, anchor,
          counters, thread, deadline, item, now, source_time, uncounted, last_ts>>

intakeVars == <<queue, mapper, anchor, counters>>
seenVars == <<now, source_time, uncounted, last_ts>>

ZeroCounters == [ offered |-> 0, accepted |-> 0, delivered |-> 0, dropped |-> 0 ]

Init ==
    /\ ctl = "idle" /\ starts = 0
    /\ running = FALSE /\ stop_requested = FALSE /\ output_error = FALSE
    /\ queue = [s \in Enabled |-> <<>>]
    /\ mapper = [s \in Enabled |-> NewMapper]
    /\ anchor = {}
    /\ counters = [s \in Enabled |-> ZeroCounters]
    /\ thread = "none" /\ deadline = 0 /\ item = {}
    /\ now = 0
    /\ source_time = [s \in Enabled |-> 0]
    /\ uncounted = [s \in Enabled |-> 0]
    /\ last_ts = [s \in Enabled |-> -1]

-----------------------------------------------------------------------------
(* on_video_frame and on_audio_frame.                                      *)

\* insert_sorted_by_media_timestamp: behind every item that is not newer.
InsertSorted(q, ts) ==
    LET before == Cardinality({ i \in 1 .. Len(q) : q[i] <= ts })
    IN  SubSeq(q, 1, before) \o <<ts>> \o SubSeq(q, before + 1, Len(q))

\* trim_*_queue_locked drops the oldest items.
Trim(s, q) == IF Len(q) > MaxQueued[s] THEN SubSeq(q, Len(q) - MaxQueued[s] + 1, Len(q)) ELSE q

\* The anchor in force, or one that would play ts PlayoutDelay from now.
AnchorFor(ts) == IF anchor # {} THEN anchor ELSE {[ts |-> ts, time |-> now + PlayoutDelay]}

Bump(s, field, n) == [counters EXCEPT ![s][field] = @ + n, ![s].offered = @ + 1]

OnFrameRejected(s) ==
    /\ ~running \/ output_error
    /\ counters' = Bump(s, "dropped", 1)
    /\ UNCHANGED <<queue, mapper, anchor>>

OnFrameUnmapped(s, rtp) ==
    /\ running /\ ~output_error
    /\ ~MapSucceeds(MapperConfig[s], mapper[s], rtp)
    /\ mapper' = [mapper EXCEPT ![s] = MapperAfter(MapperConfig[s], @, rtp)]
    /\ counters' = Bump(s, "dropped", 1)
    /\ UNCHANGED <<queue, anchor>>

\* Variant that forgets to count the items it trims.
OnFrameAccepted_TrimUncounted(s, rtp) ==
    /\ running /\ ~output_error
    /\ MapSucceeds(MapperConfig[s], mapper[s], rtp)
    /\ mapper' = [mapper EXCEPT ![s] = MapperAfter(MapperConfig[s], @, rtp)]
    /\ LET ts   == MappedNs(MapperConfig[s], mapper[s], rtp)
           full == InsertSorted(queue[s], ts)
           kept == Trim(s, full)
       IN  /\ anchor' = AnchorFor(ts)
           /\ queue' = [queue EXCEPT ![s] = kept]
           /\ counters' = [Bump(s, "accepted", 1) EXCEPT ![s].dropped = @]

OnFrameAccepted(s, rtp) ==
    /\ running /\ ~output_error
    /\ MapSucceeds(MapperConfig[s], mapper[s], rtp)
    /\ mapper' = [mapper EXCEPT ![s] = MapperAfter(MapperConfig[s], @, rtp)]
    /\ LET ts   == MappedNs(MapperConfig[s], mapper[s], rtp)
           full == InsertSorted(queue[s], ts)
           kept == Trim(s, full)
       IN  /\ anchor' = AnchorFor(ts)
           /\ queue' = [queue EXCEPT ![s] = kept]
           /\ counters' = [Bump(s, "accepted", 1) EXCEPT ![s].dropped = @ + Len(full) - Len(kept)]

\* A frame of stream s whose timestamp is the stream's clock moved by step,
\* or one tick older than the frame before it.
OnFrame(s, step) ==
    /\ counters[s].offered < MaxFrames /\ now <= IntakeTime
    /\ \E rtp \in { (source_time[s] + step) % RtpModulus }
             \cup (IF Backwards THEN { (source_time[s] + RtpModulus - 1) % RtpModulus } ELSE {}) :
         \/ OnFrameRejected(s)
         \/ OnFrameUnmapped(s, rtp)
         \/ OnFrameAccepted(s, rtp)
    /\ source_time' = [source_time EXCEPT ![s] = @ + step]
    /\ UNCHANGED <<ctl, starts, running, stop_requested, output_error, thread, deadline,
                   item, now, uncounted, last_ts>>

-----------------------------------------------------------------------------
(* start() and stop().                                                     *)

\* Items thrown away with the queues, which no counter of the code records.
Discard ==
    /\ queue' = [s \in Enabled |-> <<>>]
    /\ uncounted' = [s \in Enabled |-> uncounted[s] + Len(queue[s])]

\* start(), which also follows a playout thread that ended with an error.
Start ==
    /\ ctl \in {"idle", "started"} /\ ~running /\ starts < MaxStarts
    /\ ctl' = "started" /\ starts' = starts + 1
    /\ running' = TRUE /\ stop_requested' = FALSE /\ output_error' = FALSE
    /\ anchor' = {}
    /\ Discard
    /\ thread' = "top"
    /\ UNCHANGED <<mapper, counters, deadline, item, now, source_time, last_ts>>

StopBegin ==
    /\ ctl \in {"idle", "started"} /\ starts > 0
    /\ ctl' = "stopping"
    /\ stop_requested' = TRUE /\ running' = FALSE
    /\ UNCHANGED <<starts, output_error, intakeVars, thread, deadline, item, seenVars>>

\* Variant that does not wait for the playout thread.
PlayoutJoined_Detached == TRUE

PlayoutJoined == thread \in {"none", "exited"}

StopEnd ==
    /\ ctl = "stopping" /\ PlayoutJoined
    /\ Discard
    /\ anchor' = {}
    /\ ctl' = "idle"
    /\ thread' = IF thread = "exited" THEN "none" ELSE thread
    /\ UNCHANGED <<starts, running, stop_requested, output_error, mapper, counters, deadline,
                   item, now, source_time, last_ts>>

-----------------------------------------------------------------------------
(* run_playout_loop.                                                       *)

playFrame == <<ctl, starts, mapper, anchor, now, source_time>>

StopSeen == stop_requested \/ ctl = "stopping"

Pending == { s \in Enabled : queue[s] # <<>> }

\* Variant that always prefers audio.
NextPending_AudioFirst ==
    IF "audio" \in Pending THEN {"audio"} ELSE Pending

\* next_pending_item_locked: the stream whose front is older, video on a tie.
NextPending ==
    { s \in Pending : \A r \in Pending :
        \/ Head(queue[s]) < Head(queue[r])
        \/ Head(queue[s]) = Head(queue[r]) /\ (s = r \/ s = "video") }

\* Variant that forgets the playout delay.
PlayoutTime_NoDelay(ts) ==
    IF anchor = {} THEN now
    ELSE LET a == CHOOSE x \in anchor : TRUE
         IN  a.time - PlayoutDelay + (IF ts <= a.ts THEN 0 ELSE ts - a.ts)

\* playout_time_for_locked; saturation at the end of the clock is left out.
PlayoutTime(ts) ==
    IF anchor = {} THEN now
    ELSE LET a == CHOOSE x \in anchor : TRUE
         IN  a.time + (IF ts <= a.ts THEN 0 ELSE ts - a.ts)

LoopTop ==
    /\ thread = "top"
    /\ thread' = IF ctl = "stopping" THEN "exited" ELSE "select"
    /\ UNCHANGED <<playFrame, running, stop_requested, output_error, queue, counters,
                   deadline, item, uncounted, last_ts>>

\* One round of the inner loop, under the lock.
Select ==
    /\ thread = "select"
    /\ \/ /\ StopSeen
          /\ thread' = "exited"
          /\ UNCHANGED <<queue, deadline, item>>
       \/ /\ ~StopSeen /\ Pending = {}
          /\ thread' = "wait_item"
          /\ UNCHANGED <<queue, deadline, item>>
       \/ /\ ~StopSeen
          /\ \E s \in NextPending : LET ts == Head(queue[s]) IN
               \/ /\ PlayoutTime(ts) > now
                  /\ thread' = "wait_deadline" /\ deadline' = PlayoutTime(ts)
                  /\ UNCHANGED <<queue, item>>
               \/ /\ PlayoutTime(ts) <= now
                  /\ thread' = "deliver"
                  /\ item' = {[stream |-> s, ts |-> ts]}
                  /\ queue' = [queue EXCEPT ![s] = Tail(@)]
                  /\ UNCHANGED deadline
    /\ UNCHANGED <<playFrame, running, stop_requested, output_error, counters, uncounted, last_ts>>

\* Variant whose predicate looks at the video queue only.
ItemWaitOver_VideoOnly == StopSeen \/ "video" \in Pending

\* The two predicates of the condition variable.
ItemWaitOver == StopSeen \/ Pending # {}

DeadlineWaitOver == StopSeen \/ now >= deadline

Wake ==
    /\ \/ thread = "wait_item" /\ ItemWaitOver
       \/ thread = "wait_deadline" /\ DeadlineWaitOver
    /\ thread' = "select"
    /\ UNCHANGED <<playFrame, running, stop_requested, output_error, queue, counters,
                   deadline, item, uncounted, last_ts>>

\* deliver_*_to_obs, outside the lock, and the counter after it.
Deliver ==
    /\ thread = "deliver"
    /\ \E it \in item :
         /\ counters' = [counters EXCEPT ![it.stream].delivered = @ + 1]
         /\ last_ts' = [last_ts EXCEPT ![it.stream] = it.ts]
    /\ item' = {} /\ thread' = "top"
    /\ UNCHANGED <<playFrame, running, stop_requested, output_error, queue, deadline, uncounted>>

\* Variant that records the exception but keeps accepting frames.
DeliverThrows_KeepsRunning ==
    /\ thread = "deliver"
    /\ \E it \in item : uncounted' = [uncounted EXCEPT ![it.stream] = @ + 1]
    /\ output_error' = TRUE
    /\ item' = {} /\ thread' = "exited"
    /\ UNCHANGED <<playFrame, running, stop_requested, queue, counters, deadline, last_ts>>

\* The delivery throws: store_output_exception_and_stop.
DeliverThrows ==
    /\ thread = "deliver"
    /\ \E it \in item : uncounted' = [uncounted EXCEPT ![it.stream] = @ + 1]
    /\ output_error' = TRUE /\ stop_requested' = TRUE /\ running' = FALSE
    /\ item' = {} /\ thread' = "exited"
    /\ UNCHANGED <<playFrame, queue, counters, deadline, last_ts>>

PlayoutStep == LoopTop \/ Select \/ Wake \/ Deliver

-----------------------------------------------------------------------------
\* The playout thread has something to do now.
Runnable ==
    \/ thread \in {"top", "select", "deliver"}
    \/ thread = "wait_item" /\ ItemWaitOver
    \/ thread = "wait_deadline" /\ DeadlineWaitOver

Tick ==
    /\ now < MaxTime
    /\ Prompt => ~Runnable
    /\ now' = now + 1
    /\ UNCHANGED <<ctl, starts, running, stop_requested, output_error, intakeVars, thread,
                   deadline, item, source_time, uncounted, last_ts>>

Next ==
    \/ \E s \in Enabled, step \in FrameSteps : OnFrame(s, step)
    \/ Start \/ StopBegin \/ StopEnd
    \/ PlayoutStep \/ DeliverThrows
    \/ Tick

Spec == Init /\ [][Next]_vars

\* The clock goes on, the playout thread is scheduled (and OBS returns from a
\* delivery), and a join whose thread has ended returns.
Fairness == WF_vars(Tick) /\ WF_vars(PlayoutStep) /\ WF_vars(StopEnd)

FairSpec == Spec /\ Fairness

-----------------------------------------------------------------------------
\* Type invariant; the queues respect their limits.
TypeOK ==
    /\ ctl \in {"idle", "started", "stopping"}
    /\ thread \in {"none", "top", "select", "wait_item", "wait_deadline", "deliver", "exited"}
    /\ \A s \in Enabled : Len(queue[s]) <= MaxQueued[s]
    /\ anchor \subseteq [ts : Nat, time : Nat] /\ Cardinality(anchor) <= 1
    /\ item \subseteq [stream : Enabled, ts : Nat] /\ Cardinality(item) <= 1
    /\ (thread = "deliver") = (item # {})

\* Every frame offered to on_*_frame is delivered, counted as dropped, queued,
\* being delivered, or was thrown away by start(), stop() or an output error;
\* the queues respect their limits.
ItemConservation ==
    /\ TypeOK
    /\ \A s \in Enabled :
         counters[s].offered =
             counters[s].delivered + counters[s].dropped + Len(queue[s])
               + Cardinality({ it \in item : it.stream = s }) + uncounted[s]

\* Each stream reaches OBS in the order of its media time, across overflowing
\* queues, rejected timestamps, restarts and wraps of the RTP timestamp; and
\* the item taken for delivery is the oldest of both queues, however the two
\* streams' frames arrived while the thread was waiting.
PlayoutInOrder ==
    [][\A s \in Enabled :
         /\ last_ts'[s] >= last_ts[s]
         /\ \A it \in item' \ item : \A i \in 1 .. Len(queue'[s]) : it.ts <= queue'[s][i]]_vars

\* Nothing is handed to OBS before the local time its anchor assigns to it:
\* the first item waits the whole playout delay, later ones keep their
\* distance to it.
NeverEarly ==
    \A it \in item : anchor # {} /\ \A a \in anchor :
        now >= a.time + (IF it.ts > a.ts THEN it.ts - a.ts ELSE 0)

\* Nothing is handed to OBS once stop() has returned, although frames keep
\* coming in.
QuietAfterStop ==
    [][(\E s \in Enabled : counters'[s].delivered > counters[s].delivered)
          => ctl # "idle"]_vars

\* An output error ends the playout thread and leaves the sink stopped, so
\* that frames are dropped and start(), which does nothing while running_ is
\* set, can start it again.
ErrorStopsSink == output_error => ~running /\ thread \in {"none", "exited"}

\* While the playout thread waits for a deadline, no queued item is overdue:
\* a new frame wakes the thread ("Разбудить playout thread"), which then
\* chooses the nearest item again.
NothingOverdueWhileWaiting ==
    thread = "wait_deadline" =>
        \A s \in Enabled : \A i \in 1 .. Len(queue[s]) : now <= PlayoutTime(queue[s][i])

\* stop() returns, and as long as the sink runs queued items are played: no
\* wake-up is lost.
PlayoutProgresses ==
    /\ (ctl = "stopping") ~> (ctl = "idle")
    /\ (running /\ Pending # {}) ~> (Pending = {} \/ ~running)

-----------------------------------------------------------------------------
(* What the invariants above need to be inductive.                         *)

\* The states of the other variables, and sets that are optional values.
SinkTypes ==
    /\ starts \in Nat /\ now \in Nat
    /\ running \in BOOLEAN /\ stop_requested \in BOOLEAN /\ output_error \in BOOLEAN
    /\ queue \in [Enabled -> Seq(Nat)]
    /\ mapper \in [Enabled -> Mappers]
    /\ counters \in [Enabled -> [offered : Nat, accepted : Nat, delivered : Nat, dropped : Nat]]
    /\ source_time \in [Enabled -> Nat] /\ uncounted \in [Enabled -> Nat]
    /\ last_ts \in [Enabled -> Nat \cup {-1}]
    /\ \A a, b \in anchor : a = b
    /\ \A a, b \in item : a = b

\* start() finds no playout thread, and only start() makes the sink run.
Lifecycle ==
    /\ ctl = "idle" => thread = "none"
    /\ ctl # "started" => ~running
    /\ ~running /\ ctl = "started" => thread = "exited"

\* The newest media timestamp stream s can have handed out so far.
Newest(s) ==
    IF mapper[s].has_origin THEN TicksToNs(MapperConfig[s], mapper[s].ticks) ELSE -1

\* A stream's items are sorted from the one delivered last over the one being
\* delivered and the queue to the newest timestamp of its mapper.
MediaOrder ==
    \A s \in Enabled :
        /\ last_ts[s] <= Newest(s)
        /\ \A i \in 1 .. Len(queue[s]) : last_ts[s] <= queue[s][i] /\ queue[s][i] <= Newest(s)
        /\ \A i, j \in 1 .. Len(queue[s]) : i <= j => queue[s][i] <= queue[s][j]
        /\ \A it \in item : it.stream = s =>
             /\ last_ts[s] <= it.ts /\ it.ts <= Newest(s)
             /\ \A i \in 1 .. Len(queue[s]) : it.ts <= queue[s][i]

\* Whatever is queued has an anchor.
QueuedAnchored == \A s \in Enabled : queue[s] # <<>> => anchor # {}

SinkInv ==
    /\ SinkTypes /\ Lifecycle /\ MediaOrder /\ QueuedAnchored
    /\ ItemConservation /\ NeverEarly /\ ErrorStopsSink

=============================================================================
