------------------------------ MODULE IpcCodec ------------------------------
(***************************************************************************)
(* The wire format of the worker control protocol.  A message is a tag and *)
(* a function from the paths of its fields to numbers; the wire is a       *)
(* sequence of bytes <<v, k, w>>, the k-th of the w bytes of the number v, *)
(* so that a reader which is out of step with the writer gets Garbage.     *)
(*                                                                         *)
(* Writer and reader are two translations: the write functions of the code *)
(* give what is appended, the read functions what is taken, in their own   *)
(* order.  A field that is optional has the path <<..., "present">>.       *)
(***************************************************************************)
EXTENDS RingLayout, Sequences, SequencesExt, TLC

CONSTANTS
    MaxDescriptors   \* defaultMtlWorkerMaxSharedMemoryRingDescriptors

RequestTags == [ConfigHandshake |-> 1, StartSessions |-> 2, StopSessions |-> 3,
                Shutdown |-> 4, Stats |-> 5, HealthCheck |-> 6]
EventTags == [HealthEvent |-> 101, ErrorEvent |-> 102, StartedEvent |-> 103, StoppedEvent |-> 104,
              StatsEvent |-> 105, FrameReadyEvent |-> 106, AudioBlockReadyEvent |-> 107]

Garbage == -1   \* not the value of any field
Text    == -2   \* the bytes of a string, whose content nobody looks at

\* Fields of one width, in the order of a tuple of names.
U8(names)  == [i \in DOMAIN names |-> <<names[i], 1>>]
U16(names) == [i \in DOMAIN names |-> <<names[i], 2>>]
U32(names) == [i \in DOMAIN names |-> <<names[i], 4>>]
U64s(names) == [i \in DOMAIN names |-> <<names[i], 8>>]

-----------------------------------------------------------------------------
\* Writer: m is the function of a message, p the path of the struct written.

Put(width, value) == [k \in 1..width |-> <<value, k, width>>]
Write(m, p, fields) ==
    FlattenSeq([i \in DOMAIN fields |-> Put(fields[i][2], m[Append(p, fields[i][1])])])

\* A length and that many bytes.
WriteString(m, p, name) ==
    Put(4, m[Append(p, name)]) \o Put(m[Append(p, name)], Text)

WriteOptional(m, p, Content(_)) ==
    Put(1, m[Append(p, "present")]) \o (IF m[Append(p, "present")] = 1 THEN Content(p) ELSE <<>>)

-----------------------------------------------------------------------------
\* Reader: r.at bytes of r.wire are taken, r.got are the fields so far.

Reader(wire) == [wire |-> wire, at |-> 0, ok |-> TRUE, got |-> <<>>]
Refuse(r) == [r EXCEPT !.ok = FALSE]
Remaining(r) == Len(r.wire) - r.at

ValueAt(r, width) ==
    LET v == r.wire[r.at + 1][1] IN
    IF \A k \in 1..width : r.wire[r.at + k] = <<v, k, width>> THEN v ELSE Garbage

Take(r, path, width) ==
    IF ~r.ok \/ Remaining(r) < width THEN Refuse(r)
    ELSE [r EXCEPT !.at = @ + width, !.got = @ @@ (path :> ValueAt(r, width))]

Read(r, p, fields) ==
    FoldLeft(LAMBDA s, f : Take(s, Append(p, f[1]), f[2]), r, fields)

\* As many bytes as the length at path says.
SkipText(r, path) ==
    IF ~r.ok \/ r.got[path] \notin 0..Remaining(r) THEN Refuse(r)
    ELSE [r EXCEPT !.at = @ + r.got[path]]
ReadString(r, p, name) == SkipText(Take(r, Append(p, name), 4), Append(p, name))

\* read_bool_u8, and the check of an enumeration
OneOf(r, path, values) == IF r.ok /\ r.got[path] \in values THEN r ELSE Refuse(r)
ReadOneOf(r, path, width, values) == OneOf(Take(r, path, width), path, values)
ReadBool(r, path) == ReadOneOf(r, path, 1, {0, 1})

IsPresent(r, p) == r.ok /\ r.got[Append(p, "present")] = 1
ReadIfPresent(r, p, Content(_, _)) == IF IsPresent(r, p) THEN Content(r, p) ELSE r
ReadOptional(r, p, Content(_, _)) == ReadIfPresent(ReadBool(r, Append(p, "present")), p, Content)

\* ensure_consumed
Consumed(r) == r.ok /\ Remaining(r) = 0

-----------------------------------------------------------------------------
\* Runtime and session configurations

WriteRuntimePort(m, p) ==
    WriteString(m, p, "port_name") \o Write(m, p, U32(<<"sip_addr">>))
ReadRuntimePort(r, p) ==
    Read(ReadString(r, p, "port_name"), p, U32(<<"sip_addr">>))

WriteRuntimeConfig(m, p) ==
    LET port(q) == WriteRuntimePort(m, q)
    IN WriteRuntimePort(m, p \o <<"primary_port">>) \o WriteOptional(m, p \o <<"redundant_port">>, port)
ReadRuntimeConfig(r, p) ==
    ReadOptional(ReadRuntimePort(r, p \o <<"primary_port">>), p \o <<"redundant_port">>, ReadRuntimePort)

\* The same for both media: address, optional source, port.
WriteSessionPort(m, p) ==
    LET address(q) == Write(m, q, U32(<<"address">>))
    IN Write(m, p, U32(<<"ip_addr">>)) \o WriteOptional(m, p \o <<"source_ip">>, address)
       \o Write(m, p, U16(<<"udp_port">>))
ReadSessionPort(r, p) ==
    LET address(s, q) == Read(s, q, U32(<<"address">>))
    IN Read(ReadOptional(Read(r, p, U32(<<"ip_addr">>)), p \o <<"source_ip">>, address),
            p, U16(<<"udp_port">>))

WritePorts(m, p) ==
    LET port(q) == WriteSessionPort(m, q)
    IN WriteRuntimeConfig(m, p \o <<"runtime">>) \o WriteSessionPort(m, p \o <<"primary">>)
       \o WriteOptional(m, p \o <<"redundant">>, port)
ReadPorts(r, p) ==
    ReadOptional(ReadSessionPort(ReadRuntimeConfig(r, p \o <<"runtime">>), p \o <<"primary">>),
                 p \o <<"redundant">>, ReadSessionPort)

\* Mutant: the transport format is read before the scan mode.
ReadVideoStartConfig_Swapped(r, p) ==
    Read(ReadPorts(r, p), p,
         U8(<<"expected_payload_type">>)
         \o U32(<<"width", "height", "fps", "transport_format", "scan_mode", "output_format">>)
         \o U16(<<"frame_buffer_count">>))

WriteVideoStartConfig(m, p) ==
    WritePorts(m, p)
    \o Write(m, p, U8(<<"expected_payload_type">>)
                   \o U32(<<"width", "height", "fps", "scan_mode", "transport_format", "output_format">>)
                   \o U16(<<"frame_buffer_count">>))
ReadVideoStartConfig(r, p) ==
    Read(ReadPorts(r, p), p,
         U8(<<"expected_payload_type">>)
         \o U32(<<"width", "height", "fps", "scan_mode", "transport_format", "output_format">>)
         \o U16(<<"frame_buffer_count">>))

WriteAudioMediaDescription(m, p) ==
    Write(m, p, U32(<<"pcm_encoding", "pcm_bit_depth", "sampling_rate_hz", "packet_time_us">>)
                \o U16(<<"channel_count">>))
ReadAudioMediaDescription(r, p) ==
    Read(r, p, U32(<<"pcm_encoding", "pcm_bit_depth", "sampling_rate_hz", "packet_time_us">>)
               \o U16(<<"channel_count">>))

WriteAudioStartConfig(m, p) ==
    WritePorts(m, p)
    \o Write(m, p, U8(<<"expected_payload_type">>))
    \o WriteAudioMediaDescription(m, p \o <<"media">>)
    \o Write(m, p, U32(<<"samples_per_packet", "pcm_format", "sampling", "packet_time">>)
                   \o U16(<<"frame_buffer_count">>) \o U64s(<<"frame_buffer_duration_ns">>))
ReadAudioStartConfig(r, p) ==
    Read(ReadAudioMediaDescription(Read(ReadPorts(r, p), p, U8(<<"expected_payload_type">>)),
                                   p \o <<"media">>),
         p, U32(<<"samples_per_packet", "pcm_format", "sampling", "packet_time">>)
            \o U16(<<"frame_buffer_count">>) \o U64s(<<"frame_buffer_duration_ns">>))

-----------------------------------------------------------------------------
\* Ring descriptors: paths <<"rings", i>>

RingPath(i) == <<"rings", i>>
RingAt(f, i) ==
    [n \in {"ring_id", "media_kind", "fd_index", "layout_version", "mapped_size", "slot_region_offset",
            "slot_count", "slot_stride", "slot_payload_offset", "slot_payload_capacity"}
     |-> f[Append(RingPath(i), n)]]
RingsOf(f) == [i \in 1..f[<<"rings", "count">>] |-> RingAt(f, i)]

\* validate_start_sessions_media_rings and validate_shared_memory_ring_descriptors
RingsValid(rings, hasVideo, hasAudio) ==
    /\ Len(rings) <= MaxDescriptors
    /\ \A i \in DOMAIN rings :
         /\ DescriptorValid(rings[i])
         /\ \A j \in 1..(i - 1) : rings[j].ring_id # rings[i].ring_id
         /\ IF rings[i].media_kind = 0 THEN hasVideo ELSE hasAudio

WriteRing(m, i) ==
    Write(m, RingPath(i),
          U64s(<<"ring_id">>) \o U32(<<"media_kind", "fd_index", "layout_version">>)
          \o U64s(<<"mapped_size", "slot_region_offset">>) \o U32(<<"slot_count">>)
          \o U64s(<<"slot_stride", "slot_payload_offset", "slot_payload_capacity">>))
ValidRing(r, i) == IF r.ok /\ DescriptorValid(RingAt(r.got, i)) THEN r ELSE Refuse(r)
ReadRing(r, i) ==
    ValidRing(Read(ReadOneOf(Read(r, RingPath(i), U64s(<<"ring_id">>)), Append(RingPath(i), "media_kind"), 4, MediaKinds),
                   RingPath(i), U32(<<"fd_index", "layout_version">>)
                                \o U64s(<<"mapped_size", "slot_region_offset">>) \o U32(<<"slot_count">>)
                                \o U64s(<<"slot_stride", "slot_payload_offset", "slot_payload_capacity">>)), i)

WriteRings(m) ==
    Put(4, m[<<"rings", "count">>]) \o FlattenSeq([i \in 1..m[<<"rings", "count">>] |-> WriteRing(m, i)])
ReadCounted(r) == IF r.ok THEN FoldLeft(ReadRing, r, [i \in 1..r.got[<<"rings", "count">>] |-> i]) ELSE r
ReadRings(r) == ReadCounted(ReadOneOf(r, <<"rings", "count">>, 4, 0..MaxDescriptors))

-----------------------------------------------------------------------------
\* Statistics: blocks <<kind, path or names>>, in the order written and in the
\* order read.

RxPortStats == <<"packets", "bytes", "frames", "incomplete_frames", "err_packets", "out_of_order_packets">>
DeviceRxPortStats == <<"rx_packets", "rx_bytes", "rx_err_packets", "rx_hw_dropped_packets", "rx_nombuf_packets">>

WriteStatsBlock(m, block) ==
    CASE block[1] = "u64"    -> Write(m, <<>>, U64s(block[2]))
      [] block[1] = "bool"   -> Write(m, <<>>, U8(block[2]))
      [] block[1] = "rx"     -> Write(m, block[2], U64s(RxPortStats))
      [] block[1] = "device" -> Write(m, block[2], U64s(DeviceRxPortStats))
      [] block[1] = "st20"   -> Write(m, <<"st20">>, U64s(block[2]))
ReadStatsBlock(r, block) ==
    CASE block[1] = "u64"    -> Read(r, <<>>, U64s(block[2]))
      [] block[1] = "bool"   -> ReadBool(r, block[2])
      [] block[1] = "rx"     -> Read(r, block[2], U64s(RxPortStats))
      [] block[1] = "device" -> Read(r, block[2], U64s(DeviceRxPortStats))
      [] block[1] = "st20"   -> Read(r, <<"st20">>, U64s(block[2]))

\* write_st20_rx_user_stats and read_st20_rx_user_stats
St20Written == <<
    <<"rx", <<"st20", "primary">>>>, <<"rx", <<"st20", "redundant">>>>,
    <<"st20", <<"pkts_received", "pkts_out_of_order", "pkts_wrong_ssrc_dropped", "pkts_wrong_pt_dropped",
      "bytes_received", "slices_received", "pkts_idx_dropped", "pkts_offset_dropped", "frames_dropped",
      "pkts_idx_oo_bitmap", "frames_pks_missed", "pkts_rtp_ring_full", "pkts_no_slot",
      "pkts_redundant_dropped", "pkts_wrong_interlace_dropped", "pkts_wrong_len_dropped",
      "pkts_enqueue_fallback", "pkts_dma", "pkts_slice_fail", "pkts_slice_merged",
      "pkts_multi_segments_received", "pkts_not_bpm", "pkts_wrong_payload_hdr_split",
      "mismatch_hdr_split_frame", "pkts_copy_hdr_split", "vsync_mismatch", "slot_get_frame_fail",
      "slot_query_ext_fail", "pkts_simulate_loss", "pkts_user_meta", "pkts_user_meta_err",
      "pkts_retransmit", "interlace_first_field", "interlace_second_field", "st22_boxes",
      "burst_pkts_max", "burst_succ_cnt", "burst_pkts_sum", "incomplete_frames_cnt",
      "pkts_wrong_kmod_dropped">>>> >>
St20Read == <<
    <<"rx", <<"st20", "primary">>>>, <<"rx", <<"st20", "redundant">>>>,
    <<"st20", <<"pkts_received", "pkts_out_of_order", "pkts_wrong_ssrc_dropped", "pkts_wrong_pt_dropped",
      "bytes_received", "slices_received", "pkts_idx_dropped", "pkts_offset_dropped", "frames_dropped",
      "pkts_idx_oo_bitmap", "frames_pks_missed", "pkts_rtp_ring_full", "pkts_no_slot",
      "pkts_redundant_dropped", "pkts_wrong_interlace_dropped", "pkts_wrong_len_dropped",
      "pkts_enqueue_fallback", "pkts_dma", "pkts_slice_fail", "pkts_slice_merged",
      "pkts_multi_segments_received", "pkts_not_bpm", "pkts_wrong_payload_hdr_split",
      "mismatch_hdr_split_frame", "pkts_copy_hdr_split", "vsync_mismatch", "slot_get_frame_fail",
      "slot_query_ext_fail", "pkts_simulate_loss", "pkts_user_meta", "pkts_user_meta_err",
      "pkts_retransmit", "interlace_first_field", "interlace_second_field", "st22_boxes",
      "burst_pkts_max", "burst_succ_cnt", "burst_pkts_sum", "incomplete_frames_cnt",
      "pkts_wrong_kmod_dropped">>>> >>
=============================================================================
