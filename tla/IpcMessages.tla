---------------------------- MODULE IpcMessages ----------------------------
(***************************************************************************)
(* The messages of the control protocol: serialize_* and deserialize_* for *)
(* requests and events.  A message is [tag, f], f the function from paths  *)
(* to numbers.                                                             *)
(***************************************************************************)
EXTENDS IpcCodec, VideoFrame

CONSTANTS
    Second   \* nanoseconds of a second

ASSUME SecondAssumption == Second \in Nat \ {0}

\* The statistics of a graph as the worker writes them...
StatsWritten ==
    << <<"u64", <<"request_id", "graph_id", "video_frames_received", "audio_blocks_received",
         "video_frames_dropped", "audio_blocks_dropped", "video_frame_packets_total",
         "video_frame_packets_received_primary", "video_frame_packets_received_redundant",
         "video_reconstructed_frames", "video_corrupted_frames", "video_complete_frames">>>>,
       <<"bool", <<"video_session_stats_available">>>>,
       <<"rx", <<"video_session", "primary">>>>, <<"rx", <<"video_session", "redundant">>>>,
       <<"u64", <<"video_session_packets_received", "video_session_packets_out_of_order",
         "video_session_packets_wrong_ssrc_dropped", "video_session_packets_wrong_payload_type_dropped",
         "video_session_bytes_received", "video_session_frames_dropped",
         "video_session_frames_packets_missed", "video_session_packets_wrong_length_dropped",
         "video_session_slot_get_frame_failures", "video_session_stats_query_failures">>>> >>
    \o St20Written \o
    << <<"u64", <<"audio_block_bytes_received", "audio_block_packets_total",
         "audio_block_packets_received_primary", "audio_block_packets_received_redundant">>>>,
       <<"bool", <<"audio_session_stats_available">>>>,
       <<"rx", <<"audio_session", "primary">>>>, <<"rx", <<"audio_session", "redundant">>>>,
       <<"u64", <<"audio_session_packets_received", "audio_session_packets_out_of_order",
         "audio_session_packets_wrong_ssrc_dropped", "audio_session_packets_wrong_payload_type_dropped",
         "audio_session_packets_redundant", "audio_session_packets_dropped",
         "audio_session_packets_length_mismatch_dropped", "audio_session_slot_get_frame_failures",
         "audio_session_stats_query_failures">>>>,
       <<"bool", <<"mtl_primary_port_stats_available">>>>, <<"device", <<"mtl_primary_port">>>>,
       <<"bool", <<"mtl_redundant_port_stats_available">>>>, <<"device", <<"mtl_redundant_port">>>>,
       <<"u64", <<"mtl_port_stats_query_failures", "frame_ready_events", "audio_block_ready_events",
         "video_frames_delivered", "audio_blocks_delivered", "released_slots", "malformed_ready_events",
         "stale_ready_events", "delivery_failures", "release_failures", "ignored_events">>>> >>

\* ... and as the client reads them.
VideoStatsRead ==
    << <<"u64", <<"request_id", "graph_id", "video_frames_received", "audio_blocks_received",
         "video_frames_dropped", "audio_blocks_dropped", "video_frame_packets_total",
         "video_frame_packets_received_primary", "video_frame_packets_received_redundant",
         "video_reconstructed_frames", "video_corrupted_frames", "video_complete_frames">>>>,
       <<"bool", <<"video_session_stats_available">>>>,
       <<"rx", <<"video_session", "primary">>>>, <<"rx", <<"video_session", "redundant">>>>,
       <<"u64", <<"video_session_packets_received", "video_session_packets_out_of_order",
         "video_session_packets_wrong_ssrc_dropped", "video_session_packets_wrong_payload_type_dropped",
         "video_session_bytes_received", "video_session_frames_dropped",
         "video_session_frames_packets_missed", "video_session_packets_wrong_length_dropped",
         "video_session_slot_get_frame_failures", "video_session_stats_query_failures">>>> >>
    \o St20Read
AudioAndPortStatsRead ==
    << <<"u64", <<"audio_block_bytes_received", "audio_block_packets_total",
         "audio_block_packets_received_primary", "audio_block_packets_received_redundant">>>>,
       <<"bool", <<"audio_session_stats_available">>>>,
       <<"rx", <<"audio_session", "primary">>>>, <<"rx", <<"audio_session", "redundant">>>>,
       <<"u64", <<"audio_session_packets_received", "audio_session_packets_out_of_order",
         "audio_session_packets_wrong_ssrc_dropped", "audio_session_packets_wrong_payload_type_dropped",
         "audio_session_packets_redundant", "audio_session_packets_dropped",
         "audio_session_packets_length_mismatch_dropped", "audio_session_slot_get_frame_failures",
         "audio_session_stats_query_failures">>>>,
       <<"bool", <<"mtl_primary_port_stats_available">>>>, <<"device", <<"mtl_primary_port">>>>,
       <<"bool", <<"mtl_redundant_port_stats_available">>>>, <<"device", <<"mtl_redundant_port">>>>,
       <<"u64", <<"mtl_port_stats_query_failures", "frame_ready_events", "audio_block_ready_events",
         "video_frames_delivered", "audio_blocks_delivered", "released_slots", "malformed_ready_events",
         "stale_ready_events", "delivery_failures", "release_failures", "ignored_events">>>> >>
StatsRead == VideoStatsRead \o AudioAndPortStatsRead

-----------------------------------------------------------------------------
\* Requests.  The result is the set of payloads, empty when refused.

Present(f, p) == f[Append(p, "present")] = 1

StartSessionsValid(f) == RingsValid(RingsOf(f), Present(f, <<"video">>), Present(f, <<"audio">>))

WriteStartSessions(f) ==
    LET video(p) == WriteVideoStartConfig(f, p)
        audio(p) == WriteAudioStartConfig(f, p)
    IN Write(f, <<>>, U64s(<<"request_id", "graph_id">>))
       \o WriteOptional(f, <<"video">>, video) \o WriteOptional(f, <<"audio">>, audio) \o WriteRings(f)

RequestPayload(m) ==
    CASE m.tag = "ConfigHandshake" ->
           Write(m.f, <<>>, U64s(<<"request_id">>)) \o WriteRuntimeConfig(m.f, <<"runtime">>)
      [] m.tag = "StartSessions" -> WriteStartSessions(m.f)
      [] m.tag \in {"StopSessions", "Stats"} -> Write(m.f, <<>>, U64s(<<"request_id", "graph_id">>))
      [] m.tag \in {"HealthCheck", "Shutdown"} -> Write(m.f, <<>>, U64s(<<"request_id">>))

\* prepare_media_rings: a ring for each medium of a StartSessions request, with
\* the descriptor of ring i going as the i-th file descriptor.

VideoCapacity(video) ==
    IF FrameExists(video.width, video.height, video.output_format)
    THEN {SizeBytes(video.width, video.height, video.output_format)} ELSE {}

\* Empty where a product does not fit: rate times duration in seconds, rounded
\* up, times channels, times the bytes of a sample.
Product(a, b) == IF MulOverflows(a, b) THEN {} ELSE {Times(a, b)}
CeilDiv(a, b) == IF a % b = 0 THEN a \div b ELSE (a \div b) + 1
AudioCapacity(audio) ==
    IF audio.sampling_rate_hz = 0 \/ audio.channel_count = 0 \/ audio.frame_buffer_duration_ns = 0 THEN {}
    ELSE UNION {UNION {Product(all, audio.bytes_per_sample) : all \in Product(CeilDiv(p, Second), audio.channel_count)}
                : p \in Product(audio.sampling_rate_hz, audio.frame_buffer_duration_ns)}

\* MtlWorkerSharedMemoryRingOwner::create: the memory's size is an off_t.
CreateRing(cfg) == {d \in MakeDescriptor(cfg) : d.mapped_size <= MaxU64 \div 2}

SlotCount(frame_buffer_count) == IF frame_buffer_count < 2 THEN 2 ELSE frame_buffer_count
AppendRing(rings, kind, capacities, frame_buffer_count) ==
    UNION {{Append(r, d) : d \in UNION {CreateRing([ring_id |-> kind + 1, media_kind |-> kind, fd_index |-> Len(r),
                                                   slot_count |-> SlotCount(frame_buffer_count), capacity |-> c])
                                   : c \in capacities}}
           : r \in rings}
\* video and audio are empty or hold one configuration; so does the result.
PrepareMediaRings(video, audio) ==
    LET none == {<<>>}
        one == IF video = {} THEN none
               ELSE UNION {AppendRing(none, 0, VideoCapacity(v), v.frame_buffer_count) : v \in video}
    IN IF audio = {} THEN one
       ELSE UNION {AppendRing(one, 1, AudioCapacity(a), a.frame_buffer_count) : a \in audio}

SerializeRequest(m) ==
    IF m.tag = "StartSessions" /\ ~StartSessionsValid(m.f) THEN {}
    ELSE {Put(1, RequestTags[m.tag]) \o RequestPayload(m)}

\* The worker accepts a StartSessions request only with one medium at least.
ValidStart(r) ==
    IF r.ok /\ StartSessionsValid(r.got) /\ (Present(r.got, <<"video">>) \/ Present(r.got, <<"audio">>))
    THEN r ELSE Refuse(r)
ReadStartSessions(r) ==
    ValidStart(ReadRings(
        ReadOptional(ReadOptional(Read(r, <<>>, U64s(<<"request_id", "graph_id">>)),
                                  <<"video">>, ReadVideoStartConfig),
                     <<"audio">>, ReadAudioStartConfig)))

ReadRequest(tag, r) ==
    CASE tag = "ConfigHandshake" -> ReadRuntimeConfig(Read(r, <<>>, U64s(<<"request_id">>)), <<"runtime">>)
      [] tag = "StartSessions" -> ReadStartSessions(r)
      [] tag \in {"StopSessions", "Stats"} -> Read(r, <<>>, U64s(<<"request_id", "graph_id">>))
      [] tag \in {"HealthCheck", "Shutdown"} -> Read(r, <<>>, U64s(<<"request_id">>))

\* The tag, then the message it names; no byte may be left over.
Deserialize(payload, tags, ReadMessage(_, _)) ==
    LET r == Take(Reader(payload), <<"tag">>, 1) IN
    {[tag |-> u[1], f |-> u[2].got] :
       u \in {w \in {<<t, ReadMessage(t, [r EXCEPT !.got = <<>>])>>
                     : t \in {v \in DOMAIN tags : r.ok /\ tags[v] = r.got[<<"tag">>]}}
              : Consumed(w[2])}}
DeserializeRequest(payload) == Deserialize(payload, RequestTags, ReadRequest)

-----------------------------------------------------------------------------
\* Events

EventPayload(m) ==
    CASE m.tag = "HealthEvent" ->
           Write(m.f, <<>>, U64s(<<"request_id">>) \o U8(<<"healthy">>)) \o WriteString(m.f, <<>>, "message")
      [] m.tag = "ErrorEvent" ->
           Write(m.f, <<>>, U64s(<<"request_id", "graph_id">>) \o U32(<<"error">>))
           \o WriteString(m.f, <<>>, "message")
      [] m.tag \in {"StartedEvent", "StoppedEvent"} -> Write(m.f, <<>>, U64s(<<"request_id", "graph_id">>))
      [] m.tag = "StatsEvent" ->
           FlattenSeq([i \in DOMAIN StatsWritten |-> WriteStatsBlock(m.f, StatsWritten[i])])
      [] m.tag \in {"FrameReadyEvent", "AudioBlockReadyEvent"} ->
           Write(m.f, <<>>, U64s(<<"graph_id", "ring_id", "slot_id", "sequence">>))

SerializeEvent(m) == {Put(1, EventTags[m.tag]) \o EventPayload(m)}

\* FrameReady and AudioBlockReady
ReadReadyEvent(r) == Read(r, <<>>, U64s(<<"graph_id", "ring_id", "slot_id", "sequence">>))

ReadEvent(tag, r) ==
    CASE tag = "HealthEvent" ->
           ReadString(ReadBool(Read(r, <<>>, U64s(<<"request_id">>)), <<"healthy">>), <<>>, "message")
      [] tag = "ErrorEvent" ->
           ReadString(Read(r, <<>>, U64s(<<"request_id", "graph_id">>) \o U32(<<"error">>)), <<>>, "message")
      [] tag \in {"StartedEvent", "StoppedEvent"} -> Read(r, <<>>, U64s(<<"request_id", "graph_id">>))
      [] tag = "StatsEvent" -> FoldLeft(ReadStatsBlock, r, StatsRead)
      [] tag \in {"FrameReadyEvent", "AudioBlockReadyEvent"} -> ReadReadyEvent(r)

DeserializeEvent(payload) == Deserialize(payload, EventTags, ReadEvent)
=============================================================================
