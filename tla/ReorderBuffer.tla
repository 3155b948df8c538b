---------------------------- MODULE ReorderBuffer ----------------------------
(***************************************************************************)
(* FixedWindowReorderBuffer: the bounded buffer between the UDP legs and   *)
(* the depacketizer.  It keeps the packets that arrived ahead of the next  *)
(* expected wire sequence number and hands them out in order.  The two     *)
(* C++ instantiations (32-bit video, 16-bit audio) are one module with     *)
(* two parameters:                                                         *)
(*                                                                         *)
(*              SeqModulus   LateThreshold                                 *)
(*     video    2^32         0x7FFFFFFF                                    *)
(*     audio    2^16         0x8000                                        *)
(*                                                                         *)
(* A packet is a record with a wire number seq and an RTP marker bit; any  *)
(* further field is carried along and never looked at.  packets_, a map    *)
(* keyed by the wire number, is the set of the stored packets.             *)
(***************************************************************************)
EXTENDS Integers, FiniteSets

CONSTANTS
    SeqModulus,     \* size of the wire sequence space
    LateThreshold,  \* a larger forward distance counts as "behind"
    WindowSize      \* window_size_packets

\* Window sizes are at most 8192 (video) and 512 (audio), far below half of
\* the sequence space.
ASSUME WindowAssumption ==
    /\ SeqModulus \in Nat
    /\ LateThreshold \in Nat
    /\ WindowSize \in Nat \ {0}
    /\ WindowSize <= LateThreshold
    /\ WindowSize <= SeqModulus - LateThreshold
    /\ LateThreshold < SeqModulus

VARIABLES
    packets,                 \* packets_
    next_expected_seq,       \* next_expected_seq_ / next_expected_audio_seq_
    initialized,             \* initialized_
    missing_head_accounted,  \* missing_head_accounted_
    stats                    \* ReorderBufferStats

bufferVars ==
    <<packets, next_expected_seq, initialized, missing_head_accounted, stats>>

WireSeq == 0 .. SeqModulus - 1

ReorderBufferStats ==
    [ packets_pushed : Nat, packets_stored : Nat, packets_popped : Nat,
      duplicates : Nat, late_packets : Nat, out_of_window : Nat,
      missing_seq : Nat, missing_seq_flushed : Nat ]

ZeroStats == [ packets_pushed |-> 0, packets_stored |-> 0, packets_popped |-> 0,
               duplicates |-> 0, late_packets |-> 0, out_of_window |-> 0,
               missing_seq |-> 0, missing_seq_flushed |-> 0 ]

BufferInit ==
    /\ packets = {}
    /\ next_expected_seq = 0
    /\ initialized = FALSE
    /\ missing_head_accounted = FALSE
    /\ stats = ZeroStats

-----------------------------------------------------------------------------
(* Unsigned subtraction and increment of the wire number type.             *)

Dist(a, b) == IF a >= b THEN a - b ELSE a - b + SeqModulus

\* Variant that does not wrap.
Succ_NoWrap(s) == s + 1

Succ(s) == IF s = SeqModulus - 1 THEN 0 ELSE s + 1

-----------------------------------------------------------------------------
(* push                                                                    *)

\* The number the distance is measured from: the first packet ever pushed
\* defines it.
ExpectedFor(p) == IF initialized THEN next_expected_seq ELSE p.seq

\* Variant without the half-space test: every packet outside the window
\* would be taken for a jump forward.
IsLate_NoHalfSpace(p) == FALSE

IsLate(p) ==
    LET dist == Dist(p.seq, ExpectedFor(p))
    IN  dist >= WindowSize /\ dist > LateThreshold

IsForwardOutOfWindow(p) ==
    Dist(p.seq, ExpectedFor(p)) >= WindowSize /\ ~IsLate(p)

\* Stored packets from which the incoming one fits into the window.
RecoveryCandidates(seq) ==
    { q \in packets : /\ Dist(q.seq, next_expected_seq) <= LateThreshold
                      /\ Dist(seq, q.seq) <= LateThreshold
                      /\ Dist(seq, q.seq) < WindowSize }

\* Variant that resynchronises to the newest candidate instead of the oldest.
RecoveryExpected_Newest(seq) ==
    LET C == RecoveryCandidates(seq)
    IN  IF C = {} THEN {seq}
        ELSE { q.seq : q \in { c \in C : \A d \in C :
                 Dist(c.seq, next_expected_seq) >= Dist(d.seq, next_expected_seq) } }

\* The singleton holding the number to resynchronise to: the candidate
\* nearest to the current head, or the incoming packet itself.
RecoveryExpected(seq) ==
    LET C == RecoveryCandidates(seq)
    IN  IF C = {} THEN {seq}
        ELSE { q.seq : q \in { c \in C : \A d \in C :
                 Dist(c.seq, next_expected_seq) <= Dist(d.seq, next_expected_seq) } }

\* Variant that leaves every stored packet in place when the head moves.
KeptAfterAdvance_All(e) == packets

\* erase_packets_outside_*_window, for the new head e.
KeptAfterAdvance(e) ==
    { q \in packets : /\ Dist(q.seq, e) <= LateThreshold
                      /\ Dist(q.seq, e) < WindowSize }

\* What advance_*_expected_to adds to missing_seq_flushed.
SkippedByAdvance(e) == Dist(e, next_expected_seq)

\* Variant without the duplicate test.
StoreOrReject_NoDuplicateTest(p, e, kept, st, ok) ==
    /\ ok = (Dist(p.seq, e) < WindowSize)
    /\ packets' = IF ok THEN kept \cup {p} ELSE kept
    /\ stats' = IF ok THEN [st EXCEPT !.packets_stored = @ + 1] ELSE st

\* The tail of push once the head is e, the stored packets are kept and the
\* counters so far are st; ok says whether push returns Error::Ok.  After a
\* resynchronisation the code tests the distance again before it looks for a
\* duplicate, and counts only the duplicate.
StoreOrReject(p, e, kept, st, ok) ==
    LET fits == Dist(p.seq, e) < WindowSize
        dup  == \E q \in kept : q.seq = p.seq
    IN  /\ ok = (fits /\ ~dup)
        /\ packets' = IF ok THEN kept \cup {p} ELSE kept
        /\ stats' = IF ok THEN [st EXCEPT !.packets_stored = @ + 1]
                    ELSE IF fits THEN [st EXCEPT !.duplicates = @ + 1]
                    ELSE st

CountedPush == [stats EXCEPT !.packets_pushed = @ + 1]

CountedResync(e) ==
    LET st == [CountedPush EXCEPT !.out_of_window = @ + 1]
    IN  [st EXCEPT !.missing_seq_flushed = @ + SkippedByAdvance(e)]

push_late(p) ==
    /\ IsLate(p)
    /\ stats' = [CountedPush EXCEPT !.late_packets = @ + 1]
    /\ UNCHANGED <<packets, next_expected_seq, initialized, missing_head_accounted>>

push_in_window(p, ok) ==
    /\ ~IsLate(p) /\ ~IsForwardOutOfWindow(p)
    /\ initialized' = TRUE
    /\ next_expected_seq' = ExpectedFor(p)
    /\ StoreOrReject(p, ExpectedFor(p), packets, CountedPush, ok)
    /\ UNCHANGED missing_head_accounted

push_resync(p, ok) ==
    /\ IsForwardOutOfWindow(p)
    /\ \E e \in RecoveryExpected(p.seq) :
         /\ next_expected_seq' = e
         /\ StoreOrReject(p, e, KeptAfterAdvance(e), CountedResync(e), ok)
    /\ missing_head_accounted' = FALSE
    /\ UNCHANGED initialized

\* push(p) returning Error::Ok (ok = TRUE) or Error::InvalidValue.
push(p, ok) ==
    \/ ok = FALSE /\ push_late(p)
    \/ push_in_window(p, ok)
    \/ push_resync(p, ok)

-----------------------------------------------------------------------------
(* pop_next, the three gap flushes and reset.  A call that returns nullptr *)
(* or false without touching the buffer is not a step of its own.          *)

HeadStored == \E q \in packets : q.seq = next_expected_seq

\* pop_next returning p.
pop_next(p) ==
    /\ initialized
    /\ p \in packets
    /\ p.seq = next_expected_seq
    /\ packets' = packets \ {p}
    /\ next_expected_seq' = Succ(next_expected_seq)
    /\ missing_head_accounted' = FALSE
    /\ stats' = [stats EXCEPT !.packets_popped = @ + 1]
    /\ UNCHANGED initialized

HeadMissing == initialized /\ packets # {} /\ ~HeadStored

\* pop_next returning nullptr because the head of a non-empty buffer is missing.
pop_next_missing ==
    /\ HeadMissing
    /\ missing_head_accounted' = TRUE
    /\ stats' = [stats EXCEPT !.missing_seq = IF missing_head_accounted THEN @ ELSE @ + 1]
    /\ UNCHANGED <<packets, next_expected_seq, initialized>>

flush_missing_once ==
    /\ HeadMissing
    /\ next_expected_seq' = Succ(next_expected_seq)
    /\ missing_head_accounted' = FALSE
    /\ stats' = [stats EXCEPT !.missing_seq_flushed = @ + 1]
    /\ UNCHANGED <<packets, initialized>>

FlushThresholdReached(threshold) ==
    Cardinality(packets) >= (IF threshold = 0 THEN 1 ELSE threshold)

flush_after_n_packets(threshold) ==
    FlushThresholdReached(threshold) /\ flush_missing_once

HasMarkerBoundaryPacket == \E q \in packets : q.marker

flush_missing_until_marker_boundary ==
    HasMarkerBoundaryPacket /\ flush_missing_once

reset == 
    /\ packets' = {}
    /\ next_expected_seq' = 0
    /\ initialized' = FALSE
    /\ missing_head_accounted' = FALSE
    /\ stats' = ZeroStats

-----------------------------------------------------------------------------
(* What the properties of a stream's modules compare with: the sender      *)
(* numbers its packets 0, 1, 2, ... and only the position modulo           *)
(* SeqModulus is on the wire.  A packet of theirs has a field pos, which   *)
(* the code does not see.                                                  *)

SeqOf(pos) == pos % SeqModulus

\* The head of the buffer is the stream's position h, and every stored packet
\* lies, by its true position, in the window that starts there.
HeadAt(h) ==
    /\ next_expected_seq = SeqOf(h)
    /\ \A q \in packets : /\ q.pos \in Nat /\ q.seq = SeqOf(q.pos)
                          /\ h <= q.pos /\ q.pos < h + WindowSize

\* A packet of position pos is less than half the sequence space away from
\* position h, so that its wire number is not ambiguous.
Near(h, pos) ==
    /\ pos - h <= LateThreshold
    /\ h - pos < SeqModulus - LateThreshold

=============================================================================
