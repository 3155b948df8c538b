------------------------ MODULE MCSynchronizedSink ------------------------
(* Small instances of SynchronizedSink: a coarse video clock whose ticks   *)
(* are rounded to nanoseconds, a fine audio clock, and queues of one and   *)
(* two items.                                                              *)
EXTENDS SynchronizedSink

MCMapperConfig ==
    [ s \in Enabled |->
        [ rate |-> IF s = "video" THEN 2 ELSE 3,
          configured_reference |-> FALSE, anchor_rtp |-> 0, anchor_ns |-> 0 ] ]

\* Audio counts from a configured reference, as with a media clock offset.
MCReferenceConfig ==
    [ s \in Enabled |->
        [ rate |-> IF s = "video" THEN 2 ELSE 3, configured_reference |-> (s = "audio"),
          anchor_rtp |-> 3, anchor_ns |-> 1 ] ]

MCMaxQueued == [ s \in Enabled |-> IF s = "video" THEN 1 ELSE 2 ]
=============================================================================
