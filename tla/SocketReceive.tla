---------------------------- MODULE SocketReceive ----------------------------
(***************************************************************************)
(* SocketRxSingleMediaBackendBase with its ports: one receive thread per   *)
(* leg, a queue, one downstream thread that merges the legs' duplicates,   *)
(* pushes into the reorder buffer and drains it towards the sink, and the  *)
(* control thread that calls start() and stop().                           *)
(*                                                                         *)
(* The sender numbers its packets by true positions; a leg's network       *)
(* loses, repeats and reorders them.  Positions are only used by the       *)
(* properties, the code sees the wire number.                              *)
(***************************************************************************)
EXTENDS ReorderBuffer, Sequences

CONSTANTS
    LegCount,        \* open_configs_.size()
    Policies,        \* gap policies the configuration may choose
    FlushAfter,      \* flush_after_n_packets of the configuration
    FirstPosition,   \* first position the sender uses
    PositionCount,   \* bound: number of positions
    JunkKinds,       \* kinds of datagrams that carry no media packet
    MarkerPositions, \* positions whose packet has the RTP marker
    Burst,           \* bound: consecutive packets a leg may lose
    Back,            \* bound: how far back a leg may repeat or reorder
    Redundant,       \* TRUE: no packet is lost on every leg
    Skew,            \* when Redundant: how far one leg may run ahead
    MaxStarts,       \* bound: calls of start()
    Stoppable,       \* bound: whether stop() is called
    MaxFaults,       \* bound: failures of open, close and receive
    MaxDatagrams     \* bound: datagrams received between start() and stop()

GapPolicies ==
    {"WaitForMissing", "FlushGapOnce", "FlushAfterNPackets", "FlushOnMarkerBoundary"}

ASSUME SocketAssumption ==
    /\ LegCount \in Nat \ {0}
    /\ Policies \subseteq GapPolicies
    /\ {FirstPosition, PositionCount, FlushAfter, Burst, Back, Skew} \subseteq Nat
    /\ {MaxStarts, MaxFaults, MaxDatagrams} \subseteq Nat
    /\ PositionCount <= LateThreshold   \* no wire number is ambiguous
    /\ PositionCount < SeqModulus - LateThreshold
    /\ JunkKinds \subseteq {"control", "malformed", "nonmedia"}
    /\ Redundant \in BOOLEAN /\ Stoppable \in BOOLEAN

Legs == 1 .. LegCount
Positions == FirstPosition .. FirstPosition + PositionCount - 1

VARIABLES
    policy,     \* reorder_tolerance_policy_, set by the constructor
    \* the control thread
    ctl,        \* "idle", "running", then the steps of stop()
    k,          \* loop index of stop()
    close_err,  \* first_err of stop() is set
    starts,     \* calls of start() so far
    faults,     \* failures injected so far
    \* shared state
    stopping,   \* stopping_
    healthy,    \* healthy_
    diag,       \* BackendStats
    port_open,  \* [Legs -> BOOLEAN] is_open() of a leg's port
    queue,      \* packet_queue_.packets_
    closed,     \* packet_queue_.closed_
    \* the receive threads
    leg,        \* [Legs -> "none", "top", "recv", "have", "exited"]
    datagram,   \* [Legs -> the datagram received last]
    \* the downstream thread
    down,       \* "none", "top", "wait", "process", "drain", "policy", "exited"
    cur,        \* the packet popped from the queue
    gap_flush_used,
    merge_enabled, \* duplicate_merge_enabled_
    history,       \* duplicate_merge_history_.ordered_sequences
    \* the network, and what the properties remember
    cursor,     \* [Legs -> next position a leg carries]
    lost,       \* [Legs -> positions a leg lost]
    accepted,   \* positions the reorder buffer took since start()
    merges,     \* packets dropped as duplicates since start()
    delivered,  \* number of packets handed to deliver_media since start()
    last_pos,   \* position handed to deliver_media last, or -1
    cause       \* something failed since start()

ctlVars == <<ctl, k, close_err, starts>>
legVars == <<leg, datagram>>
downVars == <<down, cur, gap_flush_used, history>>
netVars == <<cursor, lost>>
seenVars == <<accepted, merges, delivered, last_pos>>

vars == <<bufferVars, policy, ctlVars, stopping, healthy, diag, port_open, queue, closed,
          legVars, downVars, merge_enabled, netVars, seenVars, cause, faults>>

MediaPacket(pos) ==
    [pos |-> pos, seq |-> SeqOf(pos), marker |-> pos \in MarkerPositions]

Media(pos) == [kind |-> "media", pos |-> pos]
Junk(kind) == [kind |-> kind, pos |-> 0]
NoDatagram == Junk("none")
NoPacket == MediaPacket(FirstPosition)

ZeroDiag == [ datagrams_received |-> 0, control_datagrams_ignored |-> 0,
              nonmedia_datagrams_ignored |-> 0, packets_rejected |-> 0,
              packets_parsed_ok |-> 0, datagrams_dropped |-> 0 ]

Count(counter) == diag' = [diag EXCEPT ![counter] = @ + 1]

Fault ==
    /\ faults < MaxFaults
    /\ faults' = faults + 1
    /\ cause' = TRUE

NothingSeen ==
    /\ accepted' = {} /\ merges' = 0 /\ delivered' = 0 /\ last_pos' = -1

Init ==
    /\ BufferInit
    /\ policy \in Policies
    /\ ctl = "idle" /\ k = 1 /\ close_err = FALSE /\ starts = 0 /\ faults = 0
    /\ stopping = FALSE /\ healthy = TRUE /\ diag = ZeroDiag
    /\ port_open = [l \in Legs |-> FALSE]
    /\ queue = <<>> /\ closed = TRUE
    /\ leg = [l \in Legs |-> "none"] /\ datagram = [l \in Legs |-> NoDatagram]
    /\ down = "none" /\ cur = NoPacket
    /\ gap_flush_used = FALSE /\ merge_enabled = FALSE /\ history = <<>>
    /\ cursor = [l \in Legs |-> FirstPosition] /\ lost = [l \in Legs |-> {}]
    /\ accepted = {} /\ merges = 0 /\ delivered = 0 /\ last_pos = -1
    /\ cause = FALSE

-----------------------------------------------------------------------------
(* start().  No thread of the backend runs while it executes, and threads  *)
(* it has started may be slow, so it is one step.                          *)

\* Variant that leaves stopping_ set by the previous stop().
StartPrologue_StillStopping ==
    /\ ctl = "idle" /\ starts < MaxStarts
    /\ starts' = starts + 1
    /\ reset
    /\ UNCHANGED stopping /\ diag' = ZeroDiag
    /\ history' = <<>>
    /\ NothingSeen
    /\ UNCHANGED <<k, close_err, policy, netVars, cur, gap_flush_used, datagram>>

StartPrologue ==
    /\ ctl = "idle" /\ starts < MaxStarts
    /\ starts' = starts + 1
    /\ reset                       \* a new FixedWindowReorderBuffer
    /\ stopping' = FALSE /\ diag' = ZeroDiag
    /\ history' = <<>>
    /\ NothingSeen
    /\ UNCHANGED <<k, close_err, policy, netVars, cur, gap_flush_used, datagram>>

StartOk ==
    /\ StartPrologue
    /\ ctl' = "running"
    /\ healthy' = TRUE /\ cause' = FALSE /\ UNCHANGED faults
    /\ port_open' = [l \in Legs |-> TRUE]
    /\ queue' = <<>> /\ closed' = FALSE
    /\ merge_enabled' = (LegCount > 1)
    /\ down' = "top" /\ leg' = [l \in Legs |-> "top"]

\* A port cannot be created or opened: the staged legs are destroyed, which
\* closes their ports, and neither the queue nor a thread is touched.
StartFails ==
    /\ StartPrologue
    /\ healthy' = FALSE /\ Fault
    /\ UNCHANGED <<ctl, port_open, queue, closed, merge_enabled, down, leg>>

-----------------------------------------------------------------------------
(* stop(), callable in every state the caller can see.                     *)

\* Variant that joins the receive threads before their ports are closed.
StopBegin_JoinFirst ==
    /\ ctl \in {"idle", "running"} /\ starts > 0 /\ Stoppable
    /\ stopping' = TRUE
    /\ ctl' = "joining" /\ k' = 1 /\ close_err' = FALSE
    /\ UNCHANGED <<bufferVars, starts, healthy, diag, faults, port_open, queue, closed, legVars,
                   downVars, merge_enabled, policy, netVars, seenVars, cause>>

StopBegin ==
    /\ ctl \in {"idle", "running"} /\ starts > 0 /\ Stoppable
    /\ stopping' = TRUE
    /\ ctl' = "closing" /\ k' = 1 /\ close_err' = FALSE
    /\ UNCHANGED <<bufferVars, starts, healthy, diag, faults, port_open, queue, closed, legVars,
                   downVars, merge_enabled, policy, netVars, seenVars, cause>>

\* close() of leg k's port, which reports err but always ends up closed.
ClosePort(err) ==
    /\ ctl = "closing" /\ k \in Legs
    /\ err => port_open[k]
    /\ port_open' = [port_open EXCEPT ![k] = FALSE]
    /\ close_err' = (close_err \/ err)
    /\ IF err THEN Fault ELSE UNCHANGED <<cause, faults>>
    /\ ctl' = IF k = LegCount THEN "joining" ELSE ctl
    /\ k' = IF k = LegCount THEN 1 ELSE k + 1
    /\ UNCHANGED <<bufferVars, starts, stopping, healthy, diag, queue, closed, legVars,
                   downVars, merge_enabled, policy, netVars, seenVars>>

\* runtime_legs_.clear() destroys the legs in order: the jthread of leg k is
\* asked to stop and joined before leg k+1 is reached.
StopRequested(l) == ctl = "joining" /\ k >= l

JoinLeg ==
    /\ ctl = "joining" /\ k \in Legs
    /\ leg[k] \in {"none", "exited"}
    /\ leg' = [leg EXCEPT ![k] = "none"]
    /\ ctl' = IF k = LegCount THEN "joined" ELSE ctl
    /\ k' = IF k = LegCount THEN 1 ELSE k + 1
    /\ UNCHANGED <<bufferVars, close_err, starts, faults, stopping, healthy, diag, port_open, queue,
                   closed, datagram, downVars, merge_enabled, policy, netVars, seenVars, cause>>

CloseQueue ==
    /\ ctl = "joined"
    /\ closed' = TRUE
    /\ ctl' = "queue_closed"
    /\ UNCHANGED <<bufferVars, k, close_err, starts, faults, stopping, healthy, diag, port_open, queue,
                   legVars, downVars, merge_enabled, policy, netVars, seenVars, cause>>

\* downstream_thread_ = {}: ask it to stop, then join it.
RequestDownstreamStop ==
    /\ ctl = "queue_closed"
    /\ ctl' = "downstream"
    /\ UNCHANGED <<bufferVars, k, close_err, starts, faults, stopping, healthy, diag, port_open, queue,
                   closed, legVars, downVars, merge_enabled, policy, netVars, seenVars, cause>>

\* Variant that does not wait for the downstream thread.
DownstreamJoined_Detached == TRUE

DownstreamJoined == down \in {"none", "exited"}

StopEnd ==
    /\ ctl = "downstream" /\ DownstreamJoined
    /\ history' = <<>>
    /\ reset
    /\ merge_enabled' = FALSE
    /\ healthy' = (healthy /\ ~close_err)
    /\ ctl' = "idle"
    /\ down' = IF down = "exited" THEN "none" ELSE down
    /\ UNCHANGED <<k, close_err, starts, faults, stopping, diag, port_open, queue, closed, legVars,
                   cur, gap_flush_used, policy, netVars, seenVars, cause>>

-----------------------------------------------------------------------------
(* run_receive_loop of leg l.                                              *)

legFrame == <<policy, bufferVars, ctlVars, stopping, port_open, closed, downVars, merge_enabled, seenVars>>

\* mark_receive_leg_unhealthy_noexcept
MarkUnhealthy == healthy' = (healthy /\ stopping)

LegExit(l) == leg' = [leg EXCEPT ![l] = "exited"]

\* The loop test, and the is_open() test receive() begins with.
LegTop(l) ==
    /\ leg[l] = "top"
    /\ \/ StopRequested(l) /\ LegExit(l) /\ UNCHANGED healthy
       \/ ~StopRequested(l) /\ ~port_open[l] /\ LegExit(l) /\ MarkUnhealthy
       \/ ~StopRequested(l) /\ port_open[l] /\ leg' = [leg EXCEPT ![l] = "recv"] /\ UNCHANGED healthy
    /\ UNCHANGED <<legFrame, diag, queue, datagram, netVars, cause, faults>>

\* What the network may deliver next on leg l.
Carries(l, pos) ==
    /\ pos \in Positions
    /\ pos >= cursor[l] - Back /\ pos <= cursor[l] + Burst
    /\ Redundant =>
         \A m \in Legs \ {l} : /\ pos - cursor[m] < Skew
                               /\ (cursor[l] .. pos - 1) \cap lost[m] = {}

Received(l, d) ==
    /\ leg' = [leg EXCEPT ![l] = "have"]
    /\ datagram' = [datagram EXCEPT ![l] = d]
    /\ Count("datagrams_received")

Arrive(l, pos) ==
    /\ leg[l] = "recv" /\ port_open[l] /\ Carries(l, pos)
    /\ diag.datagrams_received < MaxDatagrams
    /\ Received(l, Media(pos))
    /\ cursor' = [cursor EXCEPT ![l] = IF pos < @ THEN @ ELSE pos + 1]
    /\ lost' = [lost EXCEPT ![l] = @ \cup (cursor[l] .. pos - 1)]
    /\ UNCHANGED <<legFrame, healthy, queue, cause, faults>>

ArriveJunk(l, kind) ==
    /\ leg[l] = "recv" /\ port_open[l]
    /\ diag.datagrams_received < MaxDatagrams
    /\ Received(l, Junk(kind))
    /\ UNCHANGED <<legFrame, healthy, queue, netVars, cause, faults>>

\* recvfrom interrupted by a signal: the loop goes on.
ReceiveInterrupted(l) ==
    /\ leg[l] = "recv"
    /\ leg' = [leg EXCEPT ![l] = "top"]
    /\ UNCHANGED <<legFrame, healthy, diag, queue, datagram, netVars, cause, faults>>

ReceiveFails(l) ==
    /\ leg[l] = "recv" /\ port_open[l]
    /\ LegExit(l) /\ MarkUnhealthy /\ Fault
    /\ UNCHANGED <<legFrame, diag, queue, datagram, netVars>>

\* The port was closed under a blocked recvfrom, whose members it reads while
\* close() resets them: it returns an empty datagram or an error.
ReceiveWoken(l) ==
    /\ leg[l] = "recv" /\ ~port_open[l]
    /\ \/ Received(l, Junk("malformed")) /\ UNCHANGED healthy
       \/ LegExit(l) /\ MarkUnhealthy /\ UNCHANGED <<diag, datagram>>
    /\ UNCHANGED <<legFrame, queue, netVars, cause, faults>>

\* process_received_datagram
ProcessDatagram(l) ==
    /\ leg[l] = "have"
    /\ leg' = [leg EXCEPT ![l] = "top"]
    /\ LET d == datagram[l] IN
         \/ d.kind = "control" /\ Count("control_datagrams_ignored") /\ UNCHANGED queue
         \/ d.kind = "malformed" /\ Count("packets_rejected") /\ UNCHANGED queue
         \/ d.kind = "nonmedia" /\ Count("nonmedia_datagrams_ignored") /\ UNCHANGED queue
         \/ /\ d.kind = "media"
            /\ queue' = IF closed THEN queue ELSE Append(queue, MediaPacket(d.pos))
            /\ diag' = [diag EXCEPT !.packets_parsed_ok = @ + 1,
                                    !.datagrams_dropped = IF closed THEN @ + 1 ELSE @]
    /\ datagram' = [datagram EXCEPT ![l] = NoDatagram]
    /\ UNCHANGED <<legFrame, healthy, netVars, cause, faults>>

-----------------------------------------------------------------------------
(* run_downstream_loop.                                                    *)

downFrame == <<policy, ctlVars, stopping, healthy, port_open, closed, legVars, merge_enabled, netVars, cause, faults>>

DownstreamStopRequested == ctl = "downstream"

DownTop ==
    /\ down = "top"
    /\ down' = IF DownstreamStopRequested THEN "exited" ELSE "wait"
    /\ UNCHANGED <<downFrame, bufferVars, diag, queue, cur, gap_flush_used, history, seenVars>>

\* wait_pop returning nullptr.
WaitPopEmpty ==
    /\ down = "wait" /\ queue = <<>>
    /\ closed \/ DownstreamStopRequested
    /\ down' = "exited"
    /\ UNCHANGED <<downFrame, bufferVars, diag, queue, cur, gap_flush_used, history, seenVars>>

\* wait_pop returning a packet; a pending stop request does not prevent it.
WaitPop ==
    /\ down = "wait" /\ queue # <<>>
    /\ cur' = Head(queue) /\ queue' = Tail(queue)
    /\ down' = "process"
    /\ UNCHANGED <<downFrame, bufferVars, diag, gap_flush_used, history, seenVars>>

\* DuplicateMergeHistory::contains and remember (capacity WindowSize).
HistoryContains(seq) == \E i \in 1 .. Len(history) : history[i] = seq

Remember(seq) ==
    LET h == Append(history, seq)
    IN  history' = IF Len(h) > WindowSize THEN Tail(h) ELSE h

MergeDuplicate ==
    /\ down = "process" /\ merge_enabled /\ HistoryContains(cur.seq)
    /\ down' = "top" /\ cur' = NoPacket
    /\ merges' = merges + 1
    /\ UNCHANGED <<downFrame, bufferVars, diag, queue, gap_flush_used, history,
                   accepted, delivered, last_pos>>

\* Variant that remembers a packet whether or not the buffer takes it.
PushRejected_Remembered ==
    /\ down = "process" /\ ~(merge_enabled /\ HistoryContains(cur.seq))
    /\ push(cur, FALSE)
    /\ Count("datagrams_dropped")
    /\ down' = "top" /\ cur' = NoPacket
    /\ IF merge_enabled THEN Remember(cur.seq) ELSE UNCHANGED history
    /\ UNCHANGED <<downFrame, queue, gap_flush_used, seenVars>>

\* Variant that drops the packet without counting it.
PushRejected_Uncounted ==
    /\ down = "process" /\ ~(merge_enabled /\ HistoryContains(cur.seq))
    /\ push(cur, FALSE)
    /\ down' = "top" /\ cur' = NoPacket
    /\ UNCHANGED <<downFrame, diag, queue, gap_flush_used, history, seenVars>>

PushRejected ==
    /\ down = "process" /\ ~(merge_enabled /\ HistoryContains(cur.seq))
    /\ push(cur, FALSE)
    /\ Count("datagrams_dropped")
    /\ down' = "top" /\ cur' = NoPacket
    /\ UNCHANGED <<downFrame, queue, gap_flush_used, history, seenVars>>

PushAccepted ==
    /\ down = "process" /\ ~(merge_enabled /\ HistoryContains(cur.seq))
    /\ push(cur, TRUE)
    /\ IF merge_enabled THEN Remember(cur.seq) ELSE UNCHANGED history
    /\ accepted' = accepted \cup {cur.pos}
    /\ down' = "drain" /\ gap_flush_used' = FALSE /\ cur' = NoPacket
    /\ UNCHANGED <<downFrame, diag, queue, merges, delivered, last_pos>>

\* drain_reorder_buffer_to_sink: a packet is popped and delivered ...
DrainDeliver ==
    /\ down = "drain"
    /\ \E p \in packets : pop_next(p) /\ last_pos' = p.pos
    /\ delivered' = delivered + 1
    /\ UNCHANGED <<downFrame, downVars, diag, queue, accepted, merges>>

\* ... or there is none to pop.
DrainBlocked ==
    /\ down = "drain" /\ ~HeadStored
    /\ IF HeadMissing THEN pop_next_missing ELSE UNCHANGED bufferVars
    /\ down' = "policy"
    /\ UNCHANGED <<downFrame, diag, queue, cur, gap_flush_used, history, seenVars>>

\* allow_multiple_gap_flushes
MultipleFlushes == policy \in {"FlushAfterNPackets", "FlushOnMarkerBoundary"}

\* Variant that flushes once per drain under every policy.
MayFlush_Once == ~gap_flush_used

MayFlush == gap_flush_used => MultipleFlushes

\* Variant in which every other policy flushes as well.
PolicyFlushes_ByDefault ==
    \/ policy = "FlushAfterNPackets" /\ flush_after_n_packets(FlushAfter)
    \/ policy = "FlushOnMarkerBoundary" /\ flush_missing_until_marker_boundary
    \/ policy \in {"WaitForMissing", "FlushGapOnce"} /\ flush_missing_once

\* The part of apply_reorder_buffer_policy that changes the buffer.
PolicyFlushes ==
    \/ policy = "FlushGapOnce" /\ flush_missing_once
    \/ policy = "FlushAfterNPackets" /\ flush_after_n_packets(FlushAfter)
    \/ policy = "FlushOnMarkerBoundary" /\ flush_missing_until_marker_boundary

PolicyDeclines ==
    \/ policy = "WaitForMissing"
    \/ ~HeadMissing
    \/ policy = "FlushAfterNPackets" /\ ~FlushThresholdReached(FlushAfter)
    \/ policy = "FlushOnMarkerBoundary" /\ ~HasMarkerBoundaryPacket

DrainFlush ==
    /\ down = "policy" /\ MayFlush
    /\ PolicyFlushes
    /\ down' = "drain" /\ gap_flush_used' = TRUE
    /\ UNCHANGED <<downFrame, diag, queue, cur, history, seenVars>>

DrainReturn ==
    /\ down = "policy"
    /\ ~MayFlush \/ PolicyDeclines
    /\ down' = "top"
    /\ UNCHANGED <<downFrame, bufferVars, diag, queue, cur, gap_flush_used, history, seenVars>>

-----------------------------------------------------------------------------
StopStep ==
    \/ \E err \in BOOLEAN : ClosePort(err)
    \/ JoinLeg
    \/ CloseQueue
    \/ RequestDownstreamStop
    \/ StopEnd

\* What leg l does by itself, whatever the network sends.
LegStep(l) == LegTop(l) \/ ReceiveWoken(l) \/ ProcessDatagram(l)

LegInput(l) ==
    \/ \E pos \in Positions : Arrive(l, pos)
    \/ \E kind \in JunkKinds : ArriveJunk(l, kind)
    \/ ReceiveInterrupted(l)
    \/ ReceiveFails(l)

DownStep ==
    \/ DownTop \/ WaitPopEmpty \/ WaitPop
    \/ MergeDuplicate \/ PushRejected \/ PushAccepted
    \/ DrainDeliver \/ DrainBlocked \/ DrainFlush \/ DrainReturn

Next ==
    \/ StartOk \/ StartFails
    \/ StopBegin
    \/ StopStep
    \/ \E l \in Legs : LegStep(l) \/ LegInput(l)
    \/ DownStep

Spec == Init /\ [][Next]_vars

\* Every thread that can run is scheduled; nothing is assumed of the network
\* or of the caller of start() and stop().
Fairness ==
    /\ WF_vars(StopStep)
    /\ \A l \in Legs : WF_vars(LegStep(l))
    /\ WF_vars(DownStep)

FairSpec == Spec /\ Fairness

-----------------------------------------------------------------------------
\* Type invariant.
TypeOK ==
    /\ ctl \in {"idle", "running", "closing", "joining", "joined", "queue_closed", "downstream"}
    /\ k \in Legs /\ close_err \in BOOLEAN /\ starts \in 0 .. MaxStarts
    /\ stopping \in BOOLEAN /\ healthy \in BOOLEAN /\ cause \in BOOLEAN
    /\ port_open \in [Legs -> BOOLEAN]
    /\ leg \in [Legs -> {"none", "top", "recv", "have", "exited"}]
    /\ down \in {"none", "top", "wait", "process", "drain", "policy", "exited"}
    /\ Len(history) <= WindowSize
    /\ next_expected_seq \in WireSeq /\ stats \in ReorderBufferStats

\* The merge history only drops a packet the reorder buffer has already taken
\* from another leg since start(), so that merging loses nothing; and the sink
\* sees each position at most once and in order, whatever the legs repeat,
\* reorder or lose and however their threads interleave.
MergeNeverLoses ==
    [][/\ merges' > merges => cur.pos \in accepted
       /\ delivered' = delivered + 1 => last_pos' > last_pos]_vars

\* Every media packet received since start() is still queued, being processed
\* or counted under exactly one outcome.
EveryPacketCounted ==
    down # "none" =>
        diag.packets_parsed_ok =
            Len(queue) + merges + diag.datagrams_dropped + Cardinality(accepted)
              + (IF down = "process" THEN 1 ELSE 0)

\* No packet is lost on the way to the buffer, and the state has its type: the
\* merge history, above all, stays within the window.
PacketConservation == TypeOK /\ EveryPacketCounted

\* A drain ends with nothing left that the gap policy lets through: when the
\* downstream thread waits, the head is not stored, no complete marker
\* boundary and no full threshold of packets is held back.
DrainComplete ==
    (down \in {"top", "wait"} /\ initialized) =>
        /\ ~HeadStored
        /\ policy = "FlushOnMarkerBoundary" => ~HasMarkerBoundaryPacket
        /\ policy = "FlushAfterNPackets" => ~FlushThresholdReached(FlushAfter)

\* healthy() turns false only when something failed: closing the ports under
\* the blocked receive threads, as stop() does, is not reported as a failure.
\* And a receive thread that has died while the backend runs shows in
\* healthy(), although the other legs keep delivering.
HealthIsTrue ==
    /\ ~healthy => cause
    /\ (ctl = "running" /\ \E l \in Legs : leg[l] = "exited") => ~healthy

\* Nothing is delivered to the sink once stop() has returned.
SinkQuietAfterStop ==
    [][delivered' > delivered => ctl # "idle"]_vars

\* When every packet survives on some leg and the legs' skew stays below the
\* window, the legs together deliver a stream without a hole, although each
\* of them loses packets and the buffer would skip a gap if it overflowed.
SeamlessMerge ==
    [][(delivered' = delivered + 1 /\ delivered > 0) => last_pos' = last_pos + 1]_vars

\* stop() returns: closing the ports wakes every receive thread, and the
\* downstream thread ends whatever is queued.  Until then a queued packet is
\* processed.
ThreadsProgress ==
    /\ (ctl \notin {"idle", "running"}) ~> (ctl = "idle")
    /\ (queue # <<>> /\ ctl = "running") ~> (queue = <<>> \/ ctl # "running")

-----------------------------------------------------------------------------
(* What the safety properties need to be inductive.                        *)

\* The types of the control thread's state and of what the threads share
\* with it.
ControlTypes ==
    /\ ctl \in {"idle", "running", "closing", "joining", "joined", "queue_closed", "downstream"}
    /\ k \in Legs /\ close_err \in BOOLEAN /\ starts \in 0 .. MaxStarts
    /\ stopping \in BOOLEAN /\ healthy \in BOOLEAN /\ cause \in BOOLEAN
    /\ port_open \in [Legs -> BOOLEAN]
    /\ leg \in [Legs -> {"none", "top", "recv", "have", "exited"}]
    /\ down \in {"none", "top", "wait", "process", "drain", "policy", "exited"}

\* Which threads live in which step of start() and stop(), and that a port
\* closes under a receive thread only after stopping_ was set.
Lifecycle ==
    /\ ctl = "idle" => down = "none"
    /\ ctl \in {"idle", "joined", "queue_closed", "downstream"} => \A l \in Legs : leg[l] = "none"
    /\ ctl = "joining" => \A l \in Legs : l < k => leg[l] = "none"
    /\ ctl = "running" => ~stopping /\ \A l \in Legs : port_open[l]
    /\ \A l \in Legs : leg[l] # "none" /\ ~port_open[l] => stopping
    /\ ctl \notin {"idle", "running"} => stopping /\ (close_err => cause)

ControlInv == ControlTypes /\ Lifecycle /\ HealthIsTrue

BackendStats == [ datagrams_received : Nat, control_datagrams_ignored : Nat,
                  nonmedia_datagrams_ignored : Nat, packets_rejected : Nat,
                  packets_parsed_ok : Nat, datagrams_dropped : Nat ]

MediaPackets == {MediaPacket(pos) : pos \in Positions}

\* The types of the data the packets pass through.
DataTypes ==
    /\ policy \in GapPolicies /\ initialized \in BOOLEAN /\ closed \in BOOLEAN
    /\ merge_enabled \in BOOLEAN /\ gap_flush_used \in BOOLEAN
    /\ next_expected_seq \in WireSeq /\ stats \in ReorderBufferStats
    /\ packets \subseteq MediaPackets
    /\ queue \in Seq(MediaPackets)
    /\ history \in Seq(WireSeq) /\ Len(history) <= WindowSize
    /\ diag \in BackendStats
    /\ datagram \in [Legs -> [kind : {"none", "media"} \cup JunkKinds \cup {"malformed"}, pos : Nat]]
    /\ \A l \in Legs : datagram[l].kind = "media" => datagram[l].pos \in Positions
    /\ down = "process" => cur \in MediaPackets
    /\ accepted \subseteq Positions
    /\ merges \in Nat /\ delivered \in Nat /\ last_pos \in Int

\* The head of the buffer has a position: nothing at or past it has been
\* delivered, and what was accepted it has passed or is stored.
HeadFollowsStream ==
    /\ initialized =>
         \E h \in FirstPosition .. FirstPosition + PositionCount :
            /\ HeadAt(h) /\ last_pos < h
            /\ \A pos \in accepted : pos < h \/ \E q \in packets : q.pos = pos
    /\ ~initialized => packets = {} /\ (down # "none" => accepted = {} /\ last_pos = -1)

\* The merge history holds only what the buffer has accepted.
HistoryAccepted ==
    \A i \in 1 .. Len(history) : \E pos \in accepted : history[i] = SeqOf(pos)

\* What the last drain left behind is still so when the next packet is
\* processed, and while the gap policy decides.
Drained ==
    /\ (down \in {"top", "wait", "process"} /\ initialized) =>
          /\ ~HeadStored
          /\ policy = "FlushOnMarkerBoundary" => ~HasMarkerBoundaryPacket
          /\ policy = "FlushAfterNPackets" => ~FlushThresholdReached(FlushAfter)
    /\ down = "policy" => ~HeadStored

DataInv == DataTypes /\ HeadFollowsStream /\ HistoryAccepted /\ Drained /\ EveryPacketCounted

SocketInv == ControlInv /\ DataInv

-----------------------------------------------------------------------------
(* What makes SeamlessMerge inductive.                                     *)

\* What the proof assumes: redundant legs in step, the policy that flushes no
\* gap, and the first start(); a leg goes on after a restart where it was, and
\* what it carried before is gone.
RedundantStream ==
    Redundant /\ LegCount >= 2 /\ Skew < WindowSize /\ Policies \subseteq {"WaitForMissing"} /\ MaxStarts <= 1

\* The buffer with its head at h has handed out, passed or stored position p.
Taken(h, p) == p < h \/ \E q \in packets : q.pos = p
Reached(h, p) == Taken(h, p) \/ (down = "process" /\ cur.pos = p)
Queued(p) == \E i \in 1 .. Len(queue) : queue[i].pos = p

InHand(l) == datagram[l].kind = "media"

\* The positions a packet of position pos must not overtake.
Earlier(pos) == FirstPosition .. pos - Skew - 1

\* What a leg has carried has reached the buffer or the queue; only the last
\* packet may still be in the leg's hands.
CarriedArrives(h) ==
    \A l \in Legs : \A p \in FirstPosition .. cursor[l] - 1 :
        p \in lost[l] \/ Reached(h, p) \/ Queued(p) \/ (InHand(l) /\ datagram[l].pos = p /\ cursor[l] = p + 1)

\* No packet overtakes one that is more than the skew before it, on any leg:
\* not in a leg's hands, in the queue, or on its way into the buffer.
NothingOvertaken(h) ==
    /\ \A l \in Legs : InHand(l) => \A p \in Earlier(datagram[l].pos) : Reached(h, p) \/ Queued(p)
    /\ \A i \in 1 .. Len(queue) : \A p \in Earlier(queue[i].pos) :
         Reached(h, p) \/ \E j \in 1 .. i - 1 : queue[j].pos = p
    /\ down = "process" => \A p \in Earlier(cur.pos) : Taken(h, p)

\* The buffer's head follows the packet delivered last.
HeadIsNext(h) ==
    IF initialized THEN HeadAt(h) /\ (delivered > 0 => last_pos = h - 1)
    ELSE h = FirstPosition /\ delivered = 0

\* What the legs have carried and lost: no packet on more than one leg.
LegsCarry ==
    /\ cursor \in [Legs -> Nat] /\ lost \in [Legs -> SUBSET Nat]
    /\ \A l \in Legs : /\ cursor[l] >= FirstPosition
                       /\ \A p \in lost[l] : p < cursor[l]
                       /\ InHand(l) => leg[l] = "have"
    /\ \A l, m \in Legs : l # m => lost[l] \cap lost[m] = {}
    /\ starts = 0 => ctl = "idle" /\ \A l \in Legs : cursor[l] = FirstPosition
    /\ closed => \A l \in Legs : leg[l] = "none"
    /\ policy = "WaitForMissing"

Heads == FirstPosition .. FirstPosition + PositionCount

SeamlessInv ==
    /\ LegsCarry
    /\ down # "none" =>
         \E h \in Heads : HeadIsNext(h) /\ CarriedArrives(h) /\ NothingOvertaken(h)

=============================================================================
