-------------------------- MODULE SourceSelection --------------------------
(***************************************************************************)
(* From the metadata of a discovered source to what a receive graph is     *)
(* built from: the SDP objects in the metadata, the one video and the one  *)
(* audio stream among them, the local interface of every leg, and the MTL  *)
(* ports.  Texts are token sequences: a metadata document is a sequence of *)
(* opening tags, SDP texts and closing tags; an SDP text is its group line *)
(* and its media sections.                                                 *)
(***************************************************************************)
EXTENDS ReceiveTuning, Sequences, SequencesExt

\* An absent optional; the media set of a source that was refused.
None == "none"
Refused == [kind \in {} |-> {}]

Kinds == {"video", "audio"}

-----------------------------------------------------------------------------
\* collect_sdp_metadata_elements

\* metadata.find("<" + tag_name): "<st2110_sdp" also begins the longer tags.
Opens(token, tag) == token.type = "open" /\ (token.tag = tag \/ tag = "st2110_sdp")

Closes(token, tag) == token.type = "close" /\ token.tag = tag

\* parse_raw_sdp_document over the content of one element, tags and all: the
\* lines of the SDP texts count, and a group line only before the first media
\* section.  Text that unwrap_cdata_copy damages is text of ill-formed sections.
RawSdp(content) ==
    LET texts == SelectSeq(content, LAMBDA token : token.type = "sdp")
    IN [group |-> IF texts = <<>> THEN {} ELSE texts[1].group,
        sections |-> FlattenSeq([i \in DOMAIN texts |-> texts[i].sections])]

SdpObject(open, raw, forced) ==
    [sdp |-> raw, declared |-> IF forced # None THEN forced ELSE open.media]

Collect(meta, tag, forced) ==
    LET found[from \in 1 .. Len(meta) + 1] ==
          LET opens == {i \in from .. Len(meta) : Opens(meta[i], tag)} IN
          IF opens = {} THEN <<>>
          ELSE LET o == Min(opens)
                   closes == {i \in o .. Len(meta) : Closes(meta[i], tag)}
               IN IF meta[o].selfClosing THEN found[o + 1]
                  ELSE IF closes = {} THEN <<>>
                  ELSE LET c == Min(closes)
                           content == SubSeq(meta, o + 1, c - 1)
                       IN (IF content = <<>> THEN <<>> ELSE <<SdpObject(meta[o], RawSdp(content), forced)>>)
                          \o found[c + 1]
    IN found[1]

ExtractSdpObjects(meta) ==
    Collect(meta, "st2110_sdp", None)
    \o Collect(meta, "st2110_sdp_video", "video")
    \o Collect(meta, "st2110_sdp_audio", "audio")

-----------------------------------------------------------------------------
\* resolve_selected_source_media_set

\* classify_sdp_media_kind: the first media section decides.
ClassifySdp(sdp) == IF sdp.sections = <<>> THEN None ELSE sdp.sections[1].media

MediaKind(object) == IF object.declared # None THEN object.declared ELSE ClassifySdp(object.sdp)

\* Mutant: a second object of a kind replaces the first.
Conflicting_LastWins(objects) == FALSE

\* add_classified_sdp_object refuses a second object of a kind.
Conflicting(objects) ==
    \E i, j \in DOMAIN objects : i < j /\ MediaKind(objects[i]) = MediaKind(objects[j])

MediaSet(objects) ==
    IF objects = <<>> \/ (\E i \in DOMAIN objects : MediaKind(objects[i]) \notin Kinds) \/ Conflicting(objects)
    THEN Refused
    ELSE [kind \in {MediaKind(objects[i]) : i \in DOMAIN objects} |->
            objects[Max({i \in DOMAIN objects : MediaKind(objects[i]) = kind})].sdp]

-----------------------------------------------------------------------------
\* parse_selected_source_streams

\* validate_sdp_document_media_sections_for_single_stream_profile: one
\* section, or two of a DUP group.
ProfileAccepted(sdp, kind) ==
    /\ Len(sdp.sections) \in 1 .. 2
    /\ \A i \in DOMAIN sdp.sections : sdp.sections[i].media = kind
    /\ (Len(sdp.sections) = 2) = (sdp.group # {})
    /\ Len(sdp.sections) = 2 =>
         /\ sdp.sections[1].mid # sdp.sections[2].mid
         /\ {sdp.sections[1].mid, sdp.sections[2].mid} = sdp.group

\* parse_video_stream_signaling_leg, parse_audio_stream_signaling_leg: every
\* line that must be there is, and its values are valid.
LegAccepted(section) == section.wellFormed

\* parse_video_stream_signaling, parse_audio_stream_signaling
StreamAccepted(sdp, kind) ==
    /\ ProfileAccepted(sdp, kind)
    /\ \A i \in DOMAIN sdp.sections : LegAccepted(sdp.sections[i])
    /\ Len(sdp.sections) = 2 => sdp.sections[1].payloadType = sdp.sections[2].payloadType

StreamsAccepted(media) == \A kind \in DOMAIN media : StreamAccepted(media[kind], kind)

\* project_parsed_*_sdp_to_receive_bootstrap: the stream is the first leg's.
Bootstrap(sdp) ==
    [legs |-> [i \in DOMAIN sdp.sections |-> sdp.sections[i].leg],
     stream |-> sdp.sections[1].stream, clock |-> sdp.sections[1].clock]

-----------------------------------------------------------------------------
\* auto_select_receive_local_policy

\* determine_receive_remote_leg_family
LegFamily(leg) ==
    CASE leg.addressType = "IP4" -> "v4"
      [] leg.addressType = "IP6" -> "v6"
      [] OTHER -> IF leg.destination \in {"v4", "v6"} THEN leg.destination ELSE None

\* determine_receive_remote_leg_route_lookup_target_ip: the sender's address
\* where the source filter names one.
LookupTarget(leg) == IF leg.source # None THEN leg.source ELSE leg.destination

\* resolve_receive_local_leg_policy_for_route_target fails without a route.
LocalLegFound(leg, routes) ==
    /\ LegFamily(leg) # None
    /\ LookupTarget(leg) = LegFamily(leg)
    /\ leg.network \in DOMAIN routes

LocalPolicyFound(boot, routes) == \A i \in DOMAIN boot.legs : LocalLegFound(boot.legs[i], routes)

-----------------------------------------------------------------------------
\* project_receive_local_leg_to_mtl_runtime_port,
\* project_receive_remote_leg_to_mtl_*_session_port: IPv4 and a PCI function.
MtlLegAccepted(leg, routes) ==
    /\ LegFamily(leg) = "v4"
    /\ routes[leg.network].pci
    /\ leg.destination = "v4" /\ leg.source \in {None, "v4"}

\* project_video_media_to_mtl_frame_rate
MtlFrameRates == {<<24, 1>>, <<25, 1>>, <<30, 1>>, <<50, 1>>, <<60, 1>>, <<100, 1>>, <<120, 1>>,
                  <<24000, 1001>>, <<30000, 1001>>, <<60000, 1001>>, <<120000, 1001>>}

MtlFrameRateKnown(s) == \E r \in MtlFrameRates : s.fpsNum * r[2] = r[1] * s.fpsDen

\* project_video_media_to_mtl_transport_format
MtlTransportKnown(s) ==
    s.sampling \in {"YCbCr422", "YCbCr420", "YCbCr444", "RGB"} /\ s.bits \in {8, 10, 12, 16}

\* project_audio_media_to_mtl_{pcm_format,sampling,packet_time,channel_count}
MtlAudioKnown(s) == s.rate = 48000 /\ s.packetTimeUs = 1000 /\ s.channels \in 1 .. 8

\* project_receive_local_policy_to_mtl_runtime_config
MtlRuntime(boot, routes) == [i \in DOMAIN boot.legs |-> routes[boot.legs[i].network].nic]

\* project_receive_start_request_to_mtl_video_start and ..._audio_start
MtlStartAccepted(kind, boot, routes) ==
    /\ \A i \in DOMAIN boot.legs : MtlLegAccepted(boot.legs[i], routes)
    /\ IF kind = "video"
       THEN MtlFrameRateKnown(boot.stream) /\ MtlTransportKnown(boot.stream)
       ELSE MtlAudioKnown(boot.stream)

\* build_socket_rx_open_config: all addresses of a leg are of one family.
SocketLegAccepted(leg) ==
    leg.destination = LegFamily(leg) /\ leg.source \in {None, LegFamily(leg)}

\* pixel_format_from_video_stream_signaling throws for any other format.
SocketFormats == {<<"YCbCr422", 8>>, <<"YCbCr422", 10>>, <<"YCbCr422", 12>>, <<"YCbCr444", 10>>,
                  <<"YCbCr444", 12>>, <<"RGB", 8>>, <<"RGB", 10>>, <<"RGB", 12>>}

\* project_receive_start_request_to_socket_video_start and ..._audio_start;
\* what they throw is caught by build_configured_graph.
SocketStartAccepted(kind, boot) ==
    /\ \A i \in DOMAIN boot.legs : SocketLegAccepted(boot.legs[i])
    /\ kind = "video" => <<boot.stream.sampling, boot.stream.bits>> \in SocketFormats
=============================================================================
