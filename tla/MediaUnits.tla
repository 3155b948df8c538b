----------------------------- MODULE MediaUnits -----------------------------
(***************************************************************************)
(* Packets become frames: a sender cuts frames into packets, the network   *)
(* loses some and damages some, and the socket backend parses what arrives *)
(* (in the order the reorder buffer restored) and hands the frames to the  *)
(* sink.  Byte b of row r of frame f is <<"data", f, r, b>>.               *)
(***************************************************************************)
EXTENDS VideoUnits

CONSTANTS
    Modes, Formats,    \* the streams to receive; mode "Audio" is an audio stream
    Width, Height,     \* of the picture
    PacketGroups,      \* pixel groups a sender may put into a packet
    Dresses, Damages,  \* how a datagram may be laid out, and laid out wrongly
    AudioMedia,        \* [bits, channels, samples] of audio streams
    SampleEdges,       \* of 16 and of 24 bits: samples the sender may send
    MaxFrames, MaxFaults

ASSUME MediaAssumption ==
    /\ Modes \subseteq ScanModes \cup {"Audio"} /\ Formats \subseteq WireFormats
    /\ Width \in Nat \ {0} /\ Height \in Nat \ {0} /\ \A f \in Formats : FrameExists(Width, Height, f)
    /\ PacketGroups \subseteq Nat \ {0} /\ MaxFrames \in Nat /\ MaxFaults \in Nat

VARIABLES
    cfg,      \* what the backend was constructed with
    sender,   \* the next packet: [frame, unit, pos]
    dep, pair,\* of video_receive_pipeline_, or empty for audio
    out,      \* what reached the sink
    heard,    \* the units <<frame, unit>> of which a packet arrived
    hurt,     \* the units of which data was lost or refused
    marked,   \* the units whose marker arrived
    faults    \* packets lost or damaged so far

vars == <<cfg, sender, dep, pair, out, heard, hurt, marked, faults>>

VideoConfigs ==
    [mode : Modes \ {"Audio"}, format : Formats, policy : Policies, width : {Width}, height : {Height}]
AudioConfigs == IF "Audio" \in Modes THEN {[mode |-> "Audio", media |-> m] : m \in AudioMedia} ELSE {}

Video == cfg.mode # "Audio"
Halves == IF cfg.mode \in {"Interlaced", "PsF"} THEN 2 ELSE 1
Units == (1..MaxFrames) \X (0..1)

-----------------------------------------------------------------------------
\* The sender

\* The fields of an interlaced frame have timestamps of their own.
TimestampOf(f, u) == IF cfg.mode = "Interlaced" THEN 2 * f + u ELSE f
FrameOf(timestamp) == IF cfg.mode = "Interlaced" THEN timestamp \div 2 ELSE timestamp

GroupSamples  == PixelFormats[cfg.format].width
GroupBytes    == RowBytes(GroupSamples, PixelFormats[cfg.format].planes[1])
GroupsPerRow  == Width \div GroupSamples
RowsOfUnit(u)   == IF Halves = 2 THEN (Height - u + 1) \div 2 ELSE Height
GroupsOfUnit(u) == RowsOfUnit(u) * GroupsPerRow
PictureRow(u, row) == IF Halves = 2 THEN 2 * row + u ELSE row

\* The segment of one row of the groups [from, to) of a unit.
SegmentOf(f, u, row, from, to, last) ==
    LET first == IF from > row * GroupsPerRow THEN from ELSE row * GroupsPerRow
        end   == IF to < (row + 1) * GroupsPerRow THEN to ELSE (row + 1) * GroupsPerRow
        start == first - row * GroupsPerRow
        bytes == (end - first) * GroupBytes
    IN [header |-> [length |-> bytes, row_number |-> row, offset |-> start * GroupSamples,
                    field_id |-> (Halves = 2 /\ u = 1), continuation |-> row # last],
        data |-> [k \in 1..bytes |-> <<"data", f, PictureRow(u, row), start * GroupBytes + k>>]]

\* A packet without data has one segment of length zero.
SegmentsOf(f, u, from, to) ==
    IF from = to
    THEN <<[header |-> [length |-> 0, row_number |-> 0, offset |-> 0, field_id |-> (Halves = 2 /\ u = 1),
                        continuation |-> FALSE], data |-> <<>>]>>
    ELSE LET low == from \div GroupsPerRow  high == (to - 1) \div GroupsPerRow IN
         [i \in 1..(high - low + 1) |-> SegmentOf(f, u, low + i - 1, from, to, high)]

\* Where the next packet may end: it has data of at most three rows.
Ends(u, from) ==
    {to \in {from + n : n \in PacketGroups} \cup {GroupsOfUnit(u)} :
       /\ from < to /\ to <= GroupsOfUnit(u)
       /\ (to - 1) \div GroupsPerRow - from \div GroupsPerRow < MaxSegments}
    \cup (IF from = GroupsOfUnit(u) THEN {from} ELSE {})

Datagram(d, marker, timestamp, body) ==
    LET rtp == [version |-> d.version, padding |-> d.padding > 0, extension |-> d.words >= 0,
                csrc_count |-> d.csrc, marker |-> marker, timestamp |-> timestamp]
        all == Put(<<"rtp", rtp>>, 12) \o Put(<<"csrc">>, 4 * d.csrc)
               \o (IF d.words < 0 THEN <<>>
                   ELSE Put(<<"profile">>, 2) \o Put(<<"words", d.announced>>, 2) \o Put(<<"word">>, 4 * d.words))
               \o body \o Put(<<"filler">>, d.trailing)
               \o (IF d.padding = 0 THEN <<>> ELSE Put(<<"zero">>, d.padding - 1) \o Put(<<"count", d.count>>, 1))
    IN SubSeq(all, 1, Len(all) - d.cut)

VideoBody(segments) ==
    Put(<<"extseq">>, 2)
    \o FlattenSeq([i \in DOMAIN segments |-> Put(<<"srd", segments[i].header>>, 6)])
    \o FlattenSeq([i \in DOMAIN segments |-> [k \in DOMAIN segments[i].data |-> <<segments[i].data[k], 1>>]])

-----------------------------------------------------------------------------
\* The backend

Hurt(size) == hurt' = IF size = 0 THEN hurt ELSE hurt \cup {<<sender.frame, sender.unit>>}

\* parse_packet and deliver_media of SocketRxVideoBackend; deliver_reconstructed_frame
\* hands on the frame and its timestamp.
ReceiveVideo(bytes, size) ==
    \/ /\ ParseVideoPacket(bytes) = {}
       /\ Hurt(size)
       /\ UNCHANGED <<dep, pair, out, heard, marked>>
    \/ \E packet \in ParseVideoPacket(bytes) :
         LET done == PushPacket(cfg, dep, pair, packet) IN
         /\ dep' = done.dep /\ pair' = done.pair
         /\ out' = out \o done.frames
         /\ heard' = heard \cup {<<sender.frame, sender.unit>>}
         /\ marked' = IF packet.marker THEN marked \cup {<<sender.frame, sender.unit>>} ELSE marked
         /\ UNCHANGED hurt

\* parse_packet and deliver_media of SocketRxAudioBackend
ReceiveAudio(bytes) ==
    /\ out' = out \o SetToSeq({AssembleAudio(p, cfg.media) : p \in ParseAudioPacket(bytes, cfg.media)})
    /\ Hurt(IF ParseAudioPacket(bytes, cfg.media) = {} THEN 1 ELSE 0)
    /\ UNCHANGED <<dep, pair, heard, marked>>

\* After its last packet a unit is followed by the next unit or frame.
Advance(to, marker) ==
    IF ~marker THEN [sender EXCEPT !.pos = to]
    ELSE IF sender.unit + 1 < Halves THEN [sender EXCEPT !.unit = @ + 1, !.pos = 0]
    ELSE [frame |-> sender.frame + 1, unit |-> 0, pos |-> 0]

\* The marker is in the last packet, which may be one without data.
SendVideo(to, hold, d) ==
    LET last   == to = GroupsOfUnit(sender.unit)
        marker == last /\ ~hold
        bytes  == Datagram(d, marker, TimestampOf(sender.frame, sender.unit),
                           VideoBody(SegmentsOf(sender.frame, sender.unit, sender.pos, to)))
    IN /\ hold => last /\ sender.pos # to
       /\ ReceiveVideo(bytes, to - sender.pos)
       /\ sender' = Advance(to, marker)
       /\ UNCHANGED cfg

VideoArrives ==
    /\ Video /\ sender.frame <= MaxFrames
    /\ \E to \in Ends(sender.unit, sender.pos), hold \in BOOLEAN, d \in Dresses : SendVideo(to, hold, d)
    /\ UNCHANGED faults

VideoDamaged ==
    /\ Video /\ sender.frame <= MaxFrames /\ faults < MaxFaults
    /\ \E to \in Ends(sender.unit, sender.pos), d \in Damages : SendVideo(to, FALSE, d)
    /\ faults' = faults + 1

VideoLost ==
    /\ Video /\ sender.frame <= MaxFrames /\ faults < MaxFaults
    /\ \E to \in Ends(sender.unit, sender.pos) :
         /\ sender' = Advance(to, to = GroupsOfUnit(sender.unit))
         /\ Hurt(to - sender.pos)
    /\ faults' = faults + 1
    /\ UNCHANGED <<cfg, dep, pair, out, heard, marked>>

\* An audio packet carries the samples of the next frame.
OctetsOf(value, bits) ==
    LET raw == IF value < 0 THEN value + 2^bits ELSE value
    IN [k \in 1..WireBytes(bits) |-> (raw \div 256^(WireBytes(bits) - k)) % 256]

AudioBody(samples, media) ==
    FlattenSeq([i \in 1..(media.samples * media.channels) |->
      LET octets == OctetsOf(samples[((i - 1) \div media.channels) + 1][((i - 1) % media.channels) + 1], media.bits)
      IN [k \in DOMAIN octets |-> <<<<"octet", octets[k]>>, 1>>]])

\* The samples of frame f, different in every frame and channel.
SamplesOf(f, media) ==
    LET edges == SampleEdges[media.bits] IN
    [s \in 1..media.samples |-> [c \in 1..media.channels |->
      edges[((f + s * media.channels + c) % Len(edges)) + 1]]]

AudioArrives ==
    /\ ~Video /\ sender.frame <= MaxFrames
    /\ \E d \in Dresses \cup Damages :
         /\ faults' = IF d \in Damages THEN faults + 1 ELSE faults
         /\ faults' <= MaxFaults
         /\ ReceiveAudio(Datagram(d, FALSE, sender.frame, AudioBody(SamplesOf(sender.frame, cfg.media), cfg.media)))
    /\ sender' = [sender EXCEPT !.frame = @ + 1]
    /\ UNCHANGED cfg

Init ==
    /\ cfg \in VideoConfigs \cup AudioConfigs
    /\ sender = [frame |-> 1, unit |-> 0, pos |-> 0]
    /\ dep = NoUnit /\ pair = NoPair /\ out = <<>>
    /\ heard = {} /\ hurt = {} /\ marked = {} /\ faults = 0

Next == VideoArrives \/ VideoDamaged \/ VideoLost \/ AudioArrives

Spec == Init /\ [][Next]_vars

-----------------------------------------------------------------------------
\* Properties

Delivered == ToSet(out)

\* An image is in memory: a frame of the stream's size, the unit in progress
\* of the height of its half, and what waits for its other half is a half.
TypeOK ==
    /\ faults \in 0..MaxFaults /\ hurt \subseteq Units
    /\ Video =>
         /\ \A d \in Delivered : Len(d.frame) = SizeBytes(Width, Height, cfg.format)
         /\ dep.key # <<>> =>
              /\ Len(dep.frame) = SizeBytes(Width, UnitHeight(cfg, dep.key[1].sub_unit_index), cfg.format)
              /\ dep.written \subseteq DOMAIN dep.frame
         /\ \A u \in ToSet(pair.first) : u.sub_unit_index = 0
         /\ \A u \in ToSet(pair.second) : u.sub_unit_index = 1

RowOf(i) == (i - 1) \div Stride(cfg)
ColumnOf(i) == ((i - 1) % Stride(cfg)) + 1

\* Whatever optional parts a datagram has and whatever is damaged, a byte of a
\* delivered frame is blank or is the byte the sender put at that place: the
\* offsets of parse_rtp_header, parse_packet_view_staged, the writes into the
\* unit and copy_sub_unit_rows agree.
BytesInPlace ==
    Video => \A d \in Delivered : \A i \in DOMAIN d.frame :
      d.frame[i] = Blank \/ \E f \in 1..MaxFrames : d.frame[i] = <<"data", f, RowOf(i), ColumnOf(i)>>

\* A frame said to be complete has no blank byte and an incomplete one has,
\* and under the policy Drop only complete frames are delivered.
CompleteMeansWhole ==
    Video => \A d \in Delivered :
      /\ d.complete <=> Blank \notin ToSet(d.frame)
      /\ cfg.policy = "Drop" => d.complete

\* The rows of a delivered frame that come from a half of the picture.
FramesIn(d, half) == {d.frame[i][2] : i \in {j \in DOMAIN d.frame : RowOf(j) % Halves = half /\ d.frame[j] # Blank}}

\* The unit was handed to the reconstructor, or will be when it ends.
Reaches(f, u) == <<f, u>> \in heard /\ (cfg.policy = "Drop" => <<f, u>> \notin hurt)

\* A second field without its first waits for the first field of the next
\* frame: from then on fields of different frames are paired.
FieldsMispaired == cfg.mode = "Interlaced" /\ \E f \in 1..MaxFrames : Reaches(f, 1) /\ ~Reaches(f, 0)

\* The bytes of a delivered frame are those of the frame its timestamp names:
\* nothing of an earlier unit is left in the image, and the two halves that
\* VideoUnitReconstructor pairs are of one frame.  Segments are always paired
\* by timestamp; fields are until a second field arrives without its first.
OneFrameOnly ==
    Video => \A d \in Delivered :
      /\ FramesIn(d, 0) \subseteq {FrameOf(d.rtp_timestamp)}
      /\ (Halves = 2 /\ ~FieldsMispaired) => FramesIn(d, 1) \subseteq {FrameOf(d.rtp_timestamp)}

\* A delivered frame is faithful: of its size, with every byte in its place,
\* complete exactly if it says so, and of one frame of the sender.
FramesAreFaithful == TypeOK /\ BytesInPlace /\ CompleteMeansWhole /\ OneFrameOnly

\* The sink sees every frame once and in the sender's order: timestamps grow.
FramesInOrder ==
    Video => \A i, j \in DOMAIN out : i < j => out[i].rtp_timestamp < out[j].rtp_timestamp

\* A unit has ended for the depacketizer: a packet of a later unit arrived or,
\* except for PsF, its marker did.
Ended(f, u) ==
    \/ MarkerTerminates(cfg.mode) /\ <<f, u>> \in marked
    \/ \E w \in heard : w[1] > f \/ (w[1] = f /\ w[2] > u)

\* A frame of which all data arrived is delivered complete as soon as its
\* last unit has ended, whatever happened to the frames around it (fields: until
\* they are mispaired).
ArrivedMeansDelivered ==
    (Video /\ ~FieldsMispaired) =>
      \A f \in 1..MaxFrames :
        (/\ Ended(f, Halves - 1)
         /\ \A u \in 0..(Halves - 1) : <<f, u>> \in heard /\ <<f, u>> \notin hurt) =>
        \E d \in Delivered : FrameOf(d.rtp_timestamp) = f /\ d.complete

\* What the sink gets is the sender's sequence of frames without the ones that
\* loss or damage touched: no frame twice, none out of order, and none missing
\* that the network delivered.
FramesComeThrough == FramesInOrder /\ ArrivedMeansDelivered

\* Every sample of a packet that was not damaged arrives, in its channel and at
\* its place, as the same value at the top of 32 bits: at both ends of the
\* range and around zero.
SamplesKeepTheirValue ==
    ~Video =>
      /\ \A f \in 1..(sender.frame - 1) : <<f, 0>> \in hurt \/ \E d \in Delivered : d.timestamp = f
      /\ \A d \in Delivered :
           d.samples = [s \in 1..cfg.media.samples |-> [c \in 1..cfg.media.channels |->
             SamplesOf(d.timestamp, cfg.media)[s][c] * 2^(32 - cfg.media.bits)]]
=============================================================================
