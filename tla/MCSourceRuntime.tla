-------------------------- MODULE MCSourceRuntime --------------------------
(* What discovery may answer: every documented layout of the metadata, and *)
(* the sources a receiver must refuse.                                     *)
EXTENDS SourceRuntime

Video == [fpsNum |-> 60, fpsDen |-> 1, width |-> 640, height |-> 360, sampling |-> "YCbCr422", bits |-> 8]
SlowVideo == [Video EXCEPT !.fpsNum = 25, !.width = 64, !.height = 36]
Audio == [packetTimeUs |-> 1000, rate |-> 48000, channels |-> 2]

Leg(network) == [addressType |-> "IP4", destination |-> "v4", source |-> None, network |-> network, maxUdp |-> 1460]

Section(kind, stream, mid, leg) ==
    [media |-> kind, mid |-> mid, payloadType |-> 96, wellFormed |-> TRUE, leg |-> leg,
     stream |-> stream, clock |-> "direct"]

Sdp(sections, group) == [type |-> "sdp", sections |-> sections, group |-> group]
VideoSdp(stream, network) == Sdp(<<Section("video", stream, None, Leg(network))>>, {})
AudioSdp(network) == Sdp(<<Section("audio", Audio, None, Leg(network))>>, {})

Open(tag, media) == [type |-> "open", tag |-> tag, media |-> media, selfClosing |-> FALSE]
Close(tag) == [type |-> "close", tag |-> tag]
Element(tag, media, sdp) == <<Open(tag, media), sdp, Close(tag)>>

\* The layout of the test sender: a bundle around its elements.
Bundle(elements) == <<Open("st2110_sdp_bundle", None)>> \o elements \o <<Close("st2110_sdp_bundle")>>

MCOffers ==
    [nothing   |-> <<>>,
     bundle    |-> Bundle(Element("st2110_sdp", "video", VideoSdp(Video, "lan1"))
                          \o Element("st2110_sdp", "audio", AudioSdp("lan1"))),
     tags      |-> Element("st2110_sdp_audio", None, AudioSdp("lan1"))
                   \o Element("st2110_sdp_video", None, VideoSdp(SlowVideo, "lan1")),
     mixed     |-> Element("st2110_sdp_video", None, VideoSdp(Video, "lan1"))
                   \o Element("st2110_sdp", "audio", AudioSdp("lan1")),
     twoRoutes |-> Element("st2110_sdp", "video", VideoSdp(Video, "lan1"))
                   \o Element("st2110_sdp", None, AudioSdp("lan2")),
     redundant |-> Element("st2110_sdp", None,
                     Sdp(<<Section("video", Video, "a", Leg("lan1")), Section("video", Video, "b", Leg("lan2"))>>,
                         {"a", "b"})),
     malformed |-> Element("st2110_sdp", None,
                     Sdp(<<[Section("video", Video, None, Leg("lan1")) EXCEPT !.wellFormed = FALSE]>>, {})),
     sender    |-> Element("st2110_sdp", None,
                     Sdp(<<[Section("audio", Audio, None, Leg("lan3")) EXCEPT !.clock = "sender"]>>, {}))
                   \o Element("st2110_sdp", None, VideoSdp(Video, "lan3"))]

MCRoutes ==
    [lan1 |-> [nic |-> "nic1", pci |-> TRUE], lan2 |-> [nic |-> "nic2", pci |-> TRUE],
     lan3 |-> [nic |-> "lo", pci |-> FALSE]]

\* The hypotheses of the proofs about buffers hold of these offers.
ASSUME MCStreamsFit == StreamsAreParsed /\ WindowsFit
=============================================================================
