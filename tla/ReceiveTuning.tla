--------------------------- MODULE ReceiveTuning ---------------------------
(***************************************************************************)
(* How a receive graph is dimensioned from the signalled streams: the      *)
(* reorder window of a socket backend, and the playout delay and the queue *)
(* sizes of the synchronized sink.  Times are nanoseconds.  A stream is a  *)
(* record of the fields of its media description that matter here.         *)
(***************************************************************************)
EXTENDS Integers, FiniteSetsExt

CeilDiv(n, d) == IF d = 0 THEN 0 ELSE n \div d + (IF n % d = 0 THEN 0 ELSE 1)

Clamp(n, low, high) == IF n < low THEN low ELSE IF n > high THEN high ELSE n

Larger(a, b) == IF a >= b THEN a ELSE b

FramePeriodNs(s) == IF s.fpsNum = 0 \/ s.fpsDen = 0 THEN 0 ELSE CeilDiv(1000000000 * s.fpsDen, s.fpsNum)

PacketTimeNs(s) == s.packetTimeUs * 1000

-----------------------------------------------------------------------------
\* socket_reorder_tuning.hpp

JitterBudgetNs == 5000000

\* Minimum, maximum and margin of the reorder window, by kind of stream.
Window == [video |-> [min |-> 64, max |-> 8192, margin |-> 16],
           audio |-> [min |-> 8, max |-> 512, margin |-> 4]]

\* Twice socket_reorder_video_bits_per_pixel_ratio.
HalfBitsPerPixel(s) ==
    CASE s.sampling \in {"YCbCr420", "CLYCbCr420", "ICtCp420"} -> 3 * s.bits
      [] s.sampling \in {"YCbCr422", "CLYCbCr422", "ICtCp422"} -> 4 * s.bits
      [] s.sampling = "Key" -> 2 * s.bits
      [] OTHER -> 6 * s.bits

ActiveFrameBytes(s) == CeilDiv(s.width * s.height * HalfBitsPerPixel(s), 16)

\* UDP, RTP and payload header.
HeaderOverhead == 8 + 12 + 8

\* socketDefaultMaxUdpDatagramBytes, for a leg that names no size (0).
DefaultMaxUdp == 1460

EffectivePayload(maxUdp) ==
    LET bytes == IF maxUdp = 0 THEN DefaultMaxUdp ELSE maxUdp
    IN IF bytes <= HeaderOverhead THEN 1 ELSE bytes - HeaderOverhead

PacketsPerFrame(s, maxUdp) == Larger(1, CeilDiv(ActiveFrameBytes(s), EffectivePayload(maxUdp)))

\* The time from one packet of the stream to the next, rounded down.
PacketSpacingNs(kind, s, maxUdp) ==
    IF kind = "audio" THEN PacketTimeNs(s)
    ELSE IF FramePeriodNs(s) = 0 THEN 0
    ELSE Larger(1, FramePeriodNs(s) \div PacketsPerFrame(s, maxUdp))

\* derive_socket_video_reorder_window_packets, ..._audio_...
ReorderWindow(kind, s, maxUdp) ==
    LET spacing == PacketSpacingNs(kind, s, maxUdp)
        w == Window[kind]
    IN IF spacing = 0 THEN w.min
       ELSE Clamp(CeilDiv(JitterBudgetNs, spacing) + w.margin, w.min, w.max)

\* derive_socket_video_reorder_buffer_config, ..._audio_...: audio packets
\* have no marker to flush at.
ReorderConfig(kind, s, maxUdp, policy) ==
    LET window == ReorderWindow(kind, s, maxUdp)
    IN [window |-> window, flushAfterN |-> Larger(1, window \div 4),
        policy |-> IF kind = "audio" /\ policy = "FlushOnMarkerBoundary"
                   THEN "FlushAfterNPackets" ELSE policy]

-----------------------------------------------------------------------------
\* synchronized_playout_tuning.hpp: streams maps each kind that is received
\* to its stream.

ItemTimeNs(kind, s) == IF kind = "video" THEN FramePeriodNs(s) ELSE PacketTimeNs(s)

Queue == [video |-> [min |-> 4, margin |-> 2], audio |-> [min |-> 32, margin |-> 8]]

\* derive_video_playout_delay_ns, derive_audio_playout_delay_ns
StreamDelayNs(kind, s) ==
    IF kind = "video" THEN FramePeriodNs(s) + 5000000
    ELSE Larger(20000000, PacketTimeNs(s) * 20)

PlayoutDelayNs(streams) == Max({StreamDelayNs(kind, streams[kind]) : kind \in DOMAIN streams} \cup {0})

\* Mutant: a queue is made for the delay of its own stream.
MaxQueued_OwnDelay(kind, streams) ==
    LET item == ItemTimeNs(kind, streams[kind])
    IN IF item = 0 THEN Queue[kind].min
       ELSE Larger(Queue[kind].min,
                   CeilDiv(StreamDelayNs(kind, streams[kind]), item) + Queue[kind].margin)

\* derive_max_queued_video_frames, derive_max_queued_audio_blocks
MaxQueued(kind, streams) ==
    LET item == ItemTimeNs(kind, streams[kind])
    IN IF item = 0 THEN Queue[kind].min
       ELSE Larger(Queue[kind].min, CeilDiv(PlayoutDelayNs(streams), item) + Queue[kind].margin)

\* derive_synchronized_playout_tuning
PlayoutTuning(streams) ==
    [delay |-> PlayoutDelayNs(streams),
     queued |-> [kind \in DOMAIN streams |-> MaxQueued(kind, streams)]]
=============================================================================
