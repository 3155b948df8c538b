---------------------------- MODULE MCWorkerIpc ----------------------------
(* The messages of the protocol, each field with a number of its own.       *)
EXTENDS WorkerIpc

Numbered(paths) == [p \in Range(paths) |-> 10 + (CHOOSE i \in DOMAIN paths : paths[i] = p)]
At(prefix, names) == [i \in DOMAIN names |-> prefix \o names[i]]
\* Optional parts: absent, or present with these fields.
Flag(p, value) == Append(p, "present") :> value

RuntimePaths(p, redundant) ==
    At(p, << <<"primary_port", "port_name">>, <<"primary_port", "sip_addr">> >>)
    \o (IF redundant THEN At(p, << <<"redundant_port", "port_name">>, <<"redundant_port", "sip_addr">> >>) ELSE <<>>)
PortPaths(p, source) ==
    At(p, << <<"ip_addr">>, <<"udp_port">> >>) \o (IF source THEN At(p, << <<"source_ip", "address">> >>) ELSE <<>>)
\* A session with a second port has a source filter on the second one.
PortsPaths(p, redundant) ==
    RuntimePaths(p \o <<"runtime">>, redundant) \o PortPaths(p \o <<"primary">>, ~redundant)
    \o (IF redundant THEN PortPaths(p \o <<"redundant">>, TRUE) ELSE <<>>)
Bit(b) == IF b THEN 1 ELSE 0
PortsFlags(p, redundant) ==
    Flag(p \o <<"runtime", "redundant_port">>, Bit(redundant)) @@ Flag(p \o <<"primary", "source_ip">>, Bit(~redundant))
    @@ Flag(p \o <<"redundant">>, Bit(redundant))
    @@ (IF redundant THEN Flag(p \o <<"redundant", "source_ip">>, 1) ELSE <<>>)

One(names) == [i \in DOMAIN names |-> <<names[i]>>]
VideoPaths(redundant) ==
    PortsPaths(<<"video">>, redundant)
    \o At(<<"video">>, One(<<"expected_payload_type", "width", "height", "fps", "scan_mode", "transport_format",
                             "output_format", "frame_buffer_count">>))
AudioPaths(redundant) ==
    PortsPaths(<<"audio">>, redundant)
    \o At(<<"audio", "media">>, One(<<"pcm_encoding", "pcm_bit_depth", "sampling_rate_hz", "packet_time_us",
                                      "channel_count">>))
    \o At(<<"audio">>, One(<<"expected_payload_type", "samples_per_packet", "pcm_format", "sampling", "packet_time",
                             "frame_buffer_count", "frame_buffer_duration_ns">>))

\* Rings: what prepare_media_rings makes of the configurations, as fields.
RingFields(rings) ==
    (<<"rings", "count">> :> Len(rings))
    @@ [p \in {Append(RingPath(i), n) : i \in DOMAIN rings, n \in DOMAIN rings[1]} |-> rings[p[2]][p[3]]]

Videos == [small |-> [width |-> 4, height |-> 2, output_format |-> "UYVY", frame_buffer_count |-> 3],
           \* five slots of 256 bytes: one more than the numbers hold
           wide |-> [width |-> 60, height |-> 2, output_format |-> "UYVY", frame_buffer_count |-> 5],
           planar |-> [width |-> 6, height |-> 2, output_format |-> "YUV420PLANAR8", frame_buffer_count |-> 1]]
Audios == [few |-> [sampling_rate_hz |-> 48, channel_count |-> 2, bytes_per_sample |-> 3,
                    frame_buffer_duration_ns |-> 3, frame_buffer_count |-> 2],
           many |-> [sampling_rate_hz |-> 48, channel_count |-> 16, bytes_per_sample |-> 2,
                     frame_buffer_duration_ns |-> 20, frame_buffer_count |-> 4]]

Start(video, audio, redundant) ==
    {[tag |-> "StartSessions",
      f |-> RingFields(r) @@ Flag(<<"video">>, Bit(video # {})) @@ Flag(<<"audio">>, Bit(audio # {}))
            @@ (IF video = {} THEN <<>> ELSE PortsFlags(<<"video">>, redundant))
            @@ (IF audio = {} THEN <<>> ELSE PortsFlags(<<"audio">>, redundant))
            @@ Numbered(One(<<"request_id", "graph_id">>)
                        \o (IF video = {} THEN <<>> ELSE VideoPaths(redundant))
                        \o (IF audio = {} THEN <<>> ELSE AudioPaths(redundant)))]
     : r \in PrepareMediaRings(video, audio)}

Plain(tag, names) == [tag |-> tag, f |-> Numbered(One(names))]
Handshake(redundant) ==
    [tag |-> "ConfigHandshake",
     f |-> Numbered(<< <<"request_id">> >> \o RuntimePaths(<<"runtime">>, redundant))
           @@ Flag(<<"runtime", "redundant_port">>, Bit(redundant))]

StatsPaths(block) ==
    CASE block[1] \in {"u64", "bool"} -> One(block[2])
      [] block[1] = "rx"     -> At(block[2], One(RxPortStats))
      [] block[1] = "device" -> At(block[2], One(DeviceRxPortStats))
      [] block[1] = "st20"   -> At(<<"st20">>, One(block[2]))
Flags == {<<"healthy">>, <<"video_session_stats_available">>, <<"audio_session_stats_available">>,
          <<"mtl_primary_port_stats_available">>, <<"mtl_redundant_port_stats_available">>}
StatsMessage ==
    [tag |-> "StatsEvent",
     f |-> [p \in Flags \ {<<"healthy">>} |-> 1]
           @@ Numbered(FlattenSeq([i \in DOMAIN StatsWritten |-> StatsPaths(StatsWritten[i])]))]

\* Names of prepared starts; one whose rings cannot be laid out does not exist.
Starts == [StartBoth |-> Start({Videos.small}, {Audios.few}, TRUE), StartVideo |-> Start({Videos.planar}, {}, FALSE),
           StartAudio |-> Start({}, {Audios.few}, FALSE), StartWide |-> Start({Videos.wide}, {}, FALSE),
           StartMany |-> Start({}, {Audios.many}, TRUE)]
Prepared == {s \in DOMAIN Starts : Starts[s] # {}}

MCMsg == [s \in Prepared |-> CHOOSE m \in Starts[s] : TRUE]
    @@ [Handshake1 |-> Handshake(FALSE), Handshake2 |-> Handshake(TRUE),
        Stop |-> Plain("StopSessions", <<"request_id", "graph_id">>), StatsRequest |-> Plain("Stats", <<"request_id", "graph_id">>),
        Health |-> Plain("HealthCheck", <<"request_id">>), ShutdownRequest |-> Plain("Shutdown", <<"request_id">>),
        Healthy |-> [tag |-> "HealthEvent", f |-> (<<"healthy">> :> 1) @@ Numbered(One(<<"request_id", "message">>))],
        Error |-> Plain("ErrorEvent", <<"request_id", "graph_id", "error", "message">>),
        Started |-> Plain("StartedEvent", <<"request_id", "graph_id">>), Stopped |-> Plain("StoppedEvent", <<"request_id", "graph_id">>),
        StatsReply |-> StatsMessage,
        FrameReady |-> Plain("FrameReadyEvent", <<"graph_id", "ring_id", "slot_id", "sequence">>),
        AudioReady |-> Plain("AudioBlockReadyEvent", <<"graph_id", "ring_id", "slot_id", "sequence">>)]

\* The hypothesis of the proofs about rings holds of these messages.
ASSUME MCRingsArePrepared ==
    \A s \in Prepared :
      \E video \in {{}} \cup {{v} : v \in Range(Videos)}, audio \in {{}} \cup {{a} : a \in Range(Audios)} :
        /\ RingsIn(MCMsg[s]) \in PrepareMediaRings(video, audio)
        /\ \A v \in video : v.frame_buffer_count \in U64 /\ VideoCapacity(v) \subseteq U64
        /\ \A a \in audio : a.frame_buffer_count \in U64 /\ AudioCapacity(a) \subseteq U64

\* One thread sends everything, the other one starts, stops or announces.
MCMessagesOf ==
    [requests |-> [t1 |-> Prepared \cup {"Handshake1", "Handshake2", "Stop", "StatsRequest", "Health", "ShutdownRequest"},
                   t2 |-> {"StartBoth", "Stop"} \cap DOMAIN MCMsg],
     events |-> [t1 |-> {"Healthy", "Error", "Started", "Stopped", "StatsReply"}, t2 |-> {"FrameReady", "AudioReady"}]]
=============================================================================
