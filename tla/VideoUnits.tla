----------------------------- MODULE VideoUnits -----------------------------
(***************************************************************************)
(* The video receive pipeline as functions of its state: the depacketizer  *)
(* writes the segments of the packets into the image of the unit (frame,   *)
(* field or segment) they belong to, and the reconstructor puts the units  *)
(* of a frame together.  An image is the sequence of its bytes, row after  *)
(* row.  cfg.mode is the scan mode, cfg.policy the partial unit policy.    *)
(***************************************************************************)
EXTENDS VideoFrame, MediaPackets, FiniteSets

ScanModes == {"Progressive", "Interlaced", "PsF"}
Policies  == {"EmitWithFlag", "Drop"}

\* What pixel_format_from_video_stream_signaling can choose.
WireFormats ==
    {"UYVY", "YUV422RFC4175PG2BE10", "YUV422RFC4175PG2BE12", "YUV444RFC4175PG4BE10",
     "YUV444RFC4175PG2BE12", "RGB8", "RGBRFC4175PG4BE10", "RGBRFC4175PG2BE12"}

Blank == <<"blank">>   \* a byte of a new frame

UnitKind(mode) == [Progressive |-> "Frame", Interlaced |-> "Field", PsF |-> "Segment"][mode]
MarkerTerminates(mode) == mode \in {"Progressive", "Interlaced"}

UnitHeight(cfg, sub) ==
    IF cfg.mode = "Progressive" THEN cfg.height
    ELSE IF sub = 0 THEN (cfg.height + 1) \div 2 ELSE cfg.height \div 2

NewFrame(cfg, height) == [i \in 1..SizeBytes(cfg.width, height, cfg.format) |-> Blank]
Stride(cfg) == RowBytes(cfg.width, PixelFormats[cfg.format].planes[1])

-----------------------------------------------------------------------------
\* Depacketizer and FrameAssembler.  dep.key is empty when no unit is in
\* progress; dep.written holds the positions FrameWriteCoverage has marked.

NoUnit == [key |-> <<>>, frame |-> <<>>, written |-> {}]

AssemblyKey(cfg, packet) ==
    [unit_kind |-> UnitKind(cfg.mode), rtp_timestamp |-> packet.timestamp,
     sub_unit_index |-> IF cfg.mode # "Progressive" /\ packet.segments[1].header.field_id THEN 1 ELSE 0]

BeginUnit(cfg, key) ==
    [key |-> <<key>>, frame |-> NewFrame(cfg, UnitHeight(cfg, key.sub_unit_index)), written |-> {}]

\* map_segment_to_unit_local_write: offsets count samples; a pixel group of
\* the format holds some samples in some bytes.
ByteOffset(cfg, offset) ==
    (offset \div PixelFormats[cfg.format].planes[1].across) * PixelFormats[cfg.format].planes[1].bytes

WriteSegment(cfg, dep, segment) ==
    LET start == segment.header.row_number * Stride(cfg) + ByteOffset(cfg, segment.header.offset)
        here  == {start + k : k \in DOMAIN segment.data}
    IN [dep EXCEPT !.frame = [i \in DOMAIN dep.frame |-> IF i \in here THEN segment.data[i - start] ELSE dep.frame[i]],
                   !.written = dep.written \cup here]

WritePacketSegments(cfg, dep, packet) ==
    FoldLeft(LAMBDA d, segment : WriteSegment(cfg, d, segment), dep, packet.segments)

CoverageComplete(cfg, dep) == dep.frame # <<>> /\ Cardinality(dep.written) = Len(dep.frame)

\* end_current_unit, FrameAssembler::end, handle_end_result: the unit, unless
\* it is partial and partial units are dropped
EndUnit(cfg, dep) ==
    IF ~CoverageComplete(cfg, dep) /\ cfg.policy = "Drop" THEN <<>>
    ELSE <<[unit_kind |-> dep.key[1].unit_kind, sub_unit_index |-> dep.key[1].sub_unit_index,
            rtp_timestamp |-> dep.key[1].rtp_timestamp, frame |-> dep.frame,
            complete |-> CoverageComplete(cfg, dep)]>>

\* Depacketizer::push: a packet of another unit ends the one in progress, and
\* the marker may end its own.
Depacketize(cfg, dep, packet) ==
    LET key   == AssemblyKey(cfg, packet)
        other == dep.key # <<>> /\ dep.key[1] # key
        open  == IF dep.key = <<key>> THEN dep ELSE BeginUnit(cfg, key)
        full  == WritePacketSegments(cfg, open, packet)
        ends  == packet.marker /\ MarkerTerminates(cfg.mode)
    IN [dep   |-> IF ends THEN NoUnit ELSE full,
        units |-> (IF other THEN EndUnit(cfg, dep) ELSE <<>>) \o (IF ends THEN EndUnit(cfg, full) ELSE <<>>)]

-----------------------------------------------------------------------------
\* VideoUnitReconstructor.  pair.first and pair.second are empty or hold the
\* unit that waits for its other half.

NoPair == [first |-> <<>>, second |-> <<>>]

\* copy_sub_unit_rows: row r of sub-unit 0 becomes row 2r, of sub-unit 1 row 2r + 1
CopySubUnitRows(cfg, first, second) ==
    [i \in 1..SizeBytes(cfg.width, cfg.height, cfg.format) |->
       LET row == (i - 1) \div Stride(cfg)
           at  == (row \div 2) * Stride(cfg) + ((i - 1) % Stride(cfg)) + 1
       IN IF row % 2 = 0 THEN first.frame[at] ELSE second.frame[at]]

\* Mutant: segments are paired as fields are, whatever their timestamps.
StalePartner_Never(unit, other) == FALSE
\* Mutant: fields are compared as segments are.
StalePartner_Fields(unit, other) == other # <<>> /\ other[1].rtp_timestamp # unit.rtp_timestamp
\* Only segments are compared by timestamp; a field takes whatever waits.
StalePartner(unit, other) ==
    unit.unit_kind = "Segment" /\ other # <<>> /\ other[1].rtp_timestamp # unit.rtp_timestamp

StoreUnit(pair, unit) ==
    LET other == IF unit.sub_unit_index = 0 THEN pair.second ELSE pair.first
        kept  == IF StalePartner(unit, other) THEN <<>> ELSE other
    IN IF unit.sub_unit_index = 0 THEN [first |-> <<unit>>, second |-> kept]
       ELSE [first |-> kept, second |-> <<unit>>]

AfterPair(pair) == IF pair.first # <<>> /\ pair.second # <<>> THEN NoPair ELSE pair

Reconstruct(cfg, pair, unit) ==
    IF unit.unit_kind = "Frame"
    THEN [pair |-> pair, frames |-> <<[rtp_timestamp |-> unit.rtp_timestamp, frame |-> unit.frame,
                                       complete |-> unit.complete]>>]
    ELSE LET p == StoreUnit(pair, unit) IN
         [pair |-> AfterPair(p),
          frames |-> IF p.first = <<>> \/ p.second = <<>> THEN <<>>
                     ELSE <<[rtp_timestamp |-> p.first[1].rtp_timestamp,
                             frame |-> CopySubUnitRows(cfg, p.first[1], p.second[1]),
                             complete |-> p.first[1].complete /\ p.second[1].complete]>>]

-----------------------------------------------------------------------------
\* VideoReceivePipeline::push: every unit that ended, in order
PushPacket(cfg, dep, pair, packet) ==
    LET ended == Depacketize(cfg, dep, packet)
        done  == FoldLeft(LAMBDA acc, unit :
                            LET r == Reconstruct(cfg, acc.pair, unit)
                            IN [pair |-> r.pair, frames |-> acc.frames \o r.frames],
                          [pair |-> pair, frames |-> <<>>], ended.units)
    IN [dep |-> ended.dep, pair |-> done.pair, frames |-> done.frames]
=============================================================================
