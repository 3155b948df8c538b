---------------------------- MODULE MediaPackets ----------------------------
(***************************************************************************)
(* How a UDP datagram is taken apart: the RTP header with its optional     *)
(* parts, the ST 2110-20 payload header of a video packet and the segments *)
(* behind it, the payload of an audio packet.  A datagram is a sequence of *)
(* bytes; byte k of an encoded value v is <<v, k>>, so that a field read   *)
(* at the wrong place is not the value that was written.  A parser returns *)
(* the set of its results, empty when it refuses the datagram.             *)
(***************************************************************************)
EXTENDS Integers, Sequences, SequencesExt

Put(value, n) == [k \in 1..n |-> <<value, k>>]

\* read_be16, read_be32, or a group of fields of the header read together
Get(bytes, offset, n) ==
    LET value == bytes[offset + 1][1] IN
    IF \A k \in 1..n : bytes[offset + k] = <<value, k>> THEN value ELSE <<"garbage">>

\* The values of n bytes of payload.
Span(bytes, offset, n) == [k \in 1..n |-> bytes[offset + k][1]]

-----------------------------------------------------------------------------
\* parse_rtp_header

AfterCsrc(rtp) == 12 + 4 * rtp.csrc_count

ExtensionBytes(bytes, rtp) ==
    IF rtp.extension THEN 4 + 4 * Get(bytes, AfterCsrc(rtp) + 2, 2)[2] ELSE 0

\* udp_payload.back() counts the padding
PaddingRefused(pad, room) == pad = 0 \/ pad > room

ParseRtpHeader(bytes) ==
    LET size   == Len(bytes)
        rtp    == Get(bytes, 0, 12)[2]
        offset == AfterCsrc(rtp) + ExtensionBytes(bytes, rtp)
        pad    == IF rtp.padding THEN Get(bytes, size - 1, 1)[2] ELSE 0
    IN IF \/ size < 12
          \/ rtp.version # 2
          \/ size < AfterCsrc(rtp)
          \/ rtp.extension /\ (size < AfterCsrc(rtp) + 4 \/ size < offset)
          \/ rtp.padding /\ PaddingRefused(pad, size - offset)
       THEN {}
       ELSE {[rtp |-> rtp, payload |-> SubSeq(bytes, offset + 1, size - pad)]}

-----------------------------------------------------------------------------
\* parse_st2110_20_payload_header: up to three segment headers of six bytes
\* behind the two bytes of the extended sequence number

MaxSegments == 3
HeaderBytes(count) == 2 + 6 * count
HasSrd(payload, i) == Len(payload) >= HeaderBytes(i)
Srd(payload, i) == Get(payload, HeaderBytes(i - 1), 6)[2]

ParsePayloadHeader(payload) ==
    {[i \in 1..n |-> Srd(payload, i)] :
       n \in {m \in 1..MaxSegments :
                /\ \A i \in 1..m : HasSrd(payload, i) /\ Srd(payload, i).continuation = (i < m)}}

\* validate_st2110_20_payload_header, validate_st2110_20_srd_ordering
HeaderAccepted(srd) ==
    /\ Len(srd) > 1 => \A i \in DOMAIN srd : srd[i].length # 0
    /\ \A i \in 1..(Len(srd) - 1) :
         /\ srd[i].row_number <= srd[i + 1].row_number
         /\ srd[i].row_number = srd[i + 1].row_number => srd[i].offset < srd[i + 1].offset

\* parse_packet_view_staged: the bytes behind the headers belong to the
\* segments in turn; what remains is trailing padding.
DataBefore(srd, i) == FoldLeft(LAMBDA sum, s : sum + s.length, 0, SubSeq(srd, 1, i - 1))

SplitRefused(srd, room) ==
    \/ Len(srd) = 1 /\ srd[1].length = 0 /\ room > 0
    \/ room < DataBefore(srd, Len(srd) + 1)

\* subspan of more than there is would read beyond the datagram
VideoPacket(rtp, payload, srd) ==
    [marker |-> rtp.marker, timestamp |-> rtp.timestamp,
     segments |-> [i \in DOMAIN srd |->
       [header |-> srd[i],
        data |-> LET from == HeaderBytes(Len(srd)) + DataBefore(srd, i)
                     there == {k \in 1..srd[i].length : from + k <= Len(payload)}
                 IN [k \in 1..srd[i].length |-> IF k \in there THEN payload[from + k][1] ELSE <<"beyond">>]]]]

ParseVideoPacket(bytes) ==
    UNION {{VideoPacket(h.rtp, h.payload, srd) :
              srd \in {s \in ParsePayloadHeader(h.payload) :
                         HeaderAccepted(s) /\ ~SplitRefused(s, Len(h.payload) - HeaderBytes(Len(s)))}}
           : h \in ParseRtpHeader(bytes)}

-----------------------------------------------------------------------------
\* parse_audio_rtp_packet_view: the payload is exactly the samples expected

WireBytes(bits) == bits \div 8
AudioPayloadBytes(media) == media.samples * media.channels * WireBytes(media.bits)

ParseAudioPacket(bytes, media) ==
    {[timestamp |-> h.rtp.timestamp, payload |-> Span(h.payload, 0, Len(h.payload))] :
       h \in {x \in ParseRtpHeader(bytes) : Len(x.payload) = AudioPayloadBytes(media)}}

-----------------------------------------------------------------------------
\* decode_audio_pcm_wire_sample_to_s32: big-endian two's complement, moved to
\* the top of 32 bits

Unsigned(octets) == FoldLeft(LAMBDA sum, b : 256 * sum + b, 0, octets)

Negative(raw, bits) == (raw \div 2^(bits - 1)) % 2 = 1

DecodeSample(octets, bits) ==
    LET raw == Unsigned(octets)
        value == IF Negative(raw, bits) THEN raw - 2^bits ELSE raw
    IN value * 2^(32 - bits)

\* Mutant: one channel after the other.
Ordinal_Planar(media, s, c) == (c - 1) * media.samples + (s - 1)
\* The channels are interleaved.
Ordinal(media, s, c) == (s - 1) * media.channels + (c - 1)

\* AudioFrameAssembler::push
AssembleAudio(packet, media) ==
    [timestamp |-> packet.timestamp,
     samples |-> [s \in 1..media.samples |-> [c \in 1..media.channels |->
       LET offset == Ordinal(media, s, c) * WireBytes(media.bits)
       IN DecodeSample([k \in 1..WireBytes(media.bits) |-> packet.payload[offset + k][2]], media.bits)]]]
=============================================================================
