------------------------- MODULE RtpTimestampMapper -------------------------
(***************************************************************************)
(* RtpTimestampMapper: unwraps the 32-bit RTP timestamps of one stream and *)
(* converts them to nanoseconds.  A mapper is the record of its members;   *)
(* map() is two operators, what it leaves in the mapper and what it        *)
(* returns.  The limits of the code's types are constants:                 *)
(*                                                                         *)
(*     RtpModulus 2^32    AmbiguousDelta 2^31    NsLimit 2^64 - 1          *)
(*     NsPerSecond 10^9                                                    *)
(***************************************************************************)
EXTENDS Integers

CONSTANTS
    RtpModulus,      \* size of the RTP timestamp space
    AmbiguousDelta,  \* rtpTimestampAmbiguousForwardDelta
    NsLimit,         \* largest TimestampNs
    NsPerSecond      \* rtpTimestampNanosecondsPerSecond

ASSUME MapperAssumption ==
    /\ RtpModulus \in Nat \ {0}
    /\ AmbiguousDelta \in 0 .. RtpModulus
    /\ NsLimit \in Nat
    /\ NsPerSecond \in Nat

\* RtpTimestampMapperConfig: rate ticks last a second, and the origin is the
\* first timestamp or a configured one.
MapperConfigs ==
    [ rate : Nat \ {0}, configured_reference : BOOLEAN,
      anchor_rtp : 0 .. RtpModulus - 1, anchor_ns : Nat ]

Mappers == [ has_origin : BOOLEAN, last_raw : 0 .. RtpModulus - 1, ticks : Nat ]

\* The mapper of a sink that has not mapped anything yet.
NewMapper == [ has_origin |-> FALSE, last_raw |-> 0, ticks |-> 0 ]

ForwardDelta(previous, current) ==
    IF current >= previous THEN current - previous
                           ELSE current - previous + RtpModulus

DeltaAccepted(delta) == delta < AmbiguousDelta

\* rtp_ticks_to_timestamp_ns: whole seconds, and the rest rounded down.  It
\* fails when the sum exceeds its type.
TicksToNs(cfg, ticks) ==
    (IF cfg.configured_reference THEN cfg.anchor_ns ELSE 0)
      + ((ticks \div cfg.rate) * NsPerSecond + ((ticks % cfg.rate) * NsPerSecond) \div cfg.rate)

BecomesOrigin(cfg, m) == ~m.has_origin /\ ~cfg.configured_reference

MapDelta(cfg, m, rtp) ==
    ForwardDelta(IF m.has_origin THEN m.last_raw ELSE cfg.anchor_rtp, rtp)

\* What map(rtp) leaves in the mapper: a rejected difference leaves it alone,
\* a conversion that overflows does not.
MapperAfter(cfg, m, rtp) ==
    IF BecomesOrigin(cfg, m)
    THEN [ has_origin |-> TRUE, last_raw |-> rtp, ticks |-> 0 ]
    ELSE IF DeltaAccepted(MapDelta(cfg, m, rtp))
    THEN [ has_origin |-> TRUE, last_raw |-> rtp, ticks |-> m.ticks + MapDelta(cfg, m, rtp) ]
    ELSE m

\* map(rtp) returns a timestamp ...
MapSucceeds(cfg, m, rtp) ==
    \/ BecomesOrigin(cfg, m)
    \/ /\ DeltaAccepted(MapDelta(cfg, m, rtp))
       /\ TicksToNs(cfg, m.ticks + MapDelta(cfg, m, rtp)) <= NsLimit

\* ... namely this one.
MappedNs(cfg, m, rtp) ==
    IF BecomesOrigin(cfg, m) THEN 0 ELSE TicksToNs(cfg, MapperAfter(cfg, m, rtp).ticks)

=============================================================================
