---------------------------- MODULE ReorderStream ----------------------------
(***************************************************************************)
(* The reorder buffer fed by a sender whose packets have true stream       *)
(* positions 0, 1, 2, ...; only the position modulo SeqModulus is on the   *)
(* wire.  The network loses, repeats and reorders packets as it likes, and *)
(* the backend pops, flushes and resets in any order, which covers every   *)
(* gap policy.  The variables added here are not in the code: they relate  *)
(* what the buffer computes with wrapping numbers to the true positions.   *)
(***************************************************************************)
EXTENDS ReorderBuffer

CONSTANTS
    Positions,   \* stream positions the sender may use
    MaxPushes    \* bound: packets pushed between two resets

ASSUME PositionsAssumption == Positions \subseteq Nat
ASSUME MaxPushesAssumption == MaxPushes \in Nat

VARIABLES
    expected_pos,  \* position the head of the buffer has advanced to
    first_pos,     \* position the buffer was initialised with
    last_pos,      \* position handed out last, or -1
    discarded      \* stored packets erased by resynchronisations

streamVars == <<expected_pos, first_pos, last_pos, discarded>>

vars == <<bufferVars, streamVars>>

PacketAt(pos) == [pos |-> pos, seq |-> SeqOf(pos)]

Init ==
    /\ BufferInit
    /\ expected_pos = 0
    /\ first_pos = 0
    /\ last_pos = -1
    /\ discarded = 0

\* The packet's wire number tells on which side of the head it is.
Unambiguous(pos) == initialized => Near(expected_pos, pos)

Push(pos, ok) ==
    /\ stats.packets_pushed < MaxPushes
    /\ Unambiguous(pos)
    /\ push(PacketAt(pos), ok)
    /\ expected_pos' = IF initialized
                       THEN expected_pos + Dist(next_expected_seq', next_expected_seq)
                       ELSE pos
    /\ first_pos' = IF initialized THEN first_pos ELSE pos
    /\ discarded' = discarded + Cardinality(packets \ packets')
    /\ UNCHANGED last_pos

PopNext ==
    /\ \E p \in packets : pop_next(p) /\ last_pos' = p.pos
    /\ expected_pos' = expected_pos + 1
    /\ UNCHANGED <<first_pos, discarded>>

PopMissing == pop_next_missing /\ UNCHANGED streamVars

FlushMissing ==
    /\ flush_missing_once
    /\ expected_pos' = expected_pos + 1
    /\ UNCHANGED <<first_pos, last_pos, discarded>>

Reset ==
    /\ reset
    /\ expected_pos' = 0
    /\ first_pos' = 0
    /\ last_pos' = -1
    /\ discarded' = 0

Next ==
    \/ \E pos \in Positions, ok \in BOOLEAN : Push(pos, ok)
    \/ PopNext
    \/ PopMissing
    \/ FlushMissing
    \/ Reset

Spec == Init /\ [][Next]_vars

-----------------------------------------------------------------------------
StreamPacket == [pos : Nat, seq : WireSeq]

\* Type invariant of the buffer and of the positions that follow it.
TypeOK ==
    /\ packets \subseteq StreamPacket /\ IsFiniteSet(packets)
    /\ next_expected_seq \in WireSeq
    /\ initialized \in BOOLEAN
    /\ missing_head_accounted \in BOOLEAN
    /\ stats \in ReorderBufferStats
    /\ expected_pos \in Nat
    /\ first_pos \in Nat
    /\ last_pos \in Int
    /\ discarded \in Nat

\* The wrapping arithmetic of push, pop_next and the flushes never loses track
\* of the stream: the head is the wire number of the true position, and every
\* stored packet lies, by its true position, inside the window ahead of it.
SequenceTracking ==
    initialized =>
        /\ next_expected_seq = SeqOf(expected_pos)
        /\ \A p \in packets : /\ p.seq = SeqOf(p.pos)
                              /\ expected_pos <= p.pos
                              /\ p.pos < expected_pos + WindowSize

\* pop_next never hands out a packet that is not newer, by its true position,
\* than the one before it: no duplicate, no step back, across any number of
\* wraps of the wire number, whatever was lost, repeated or flushed between.
InOrderDelivery ==
    [][stats'.packets_popped = stats.packets_popped + 1 => last_pos' > last_pos]_vars

\* A packet that forces a resynchronisation is always stored: the second
\* distance test and the duplicate test that follow it in push cannot fail.
\* And a stored packet is erased only if it and the incoming one are a whole
\* window apart ("preserves already buffered useful packets").
ResyncSound ==
    [][/\ stats'.out_of_window > stats.out_of_window
            => stats'.packets_stored = stats.packets_stored + 1
       /\ \A q \in packets \ packets', p \in packets' \ packets :
             p.pos - q.pos >= WindowSize]_vars

\* Every position the head passed is counted once, as popped or as flushed;
\* every packet pushed is stored or counted under one reason for rejecting
\* it, and every packet stored was popped, is still there or was erased.
Accounting ==
    /\ initialized =>
         expected_pos - first_pos = stats.packets_popped + stats.missing_seq_flushed
    /\ stats.packets_pushed =
         stats.packets_stored + stats.duplicates + stats.late_packets
    /\ stats.packets_stored =
         stats.packets_popped + Cardinality(packets) + discarded

-----------------------------------------------------------------------------
\* What SequenceTracking needs to be inductive: an uninitialised buffer is
\* empty and nothing newer than the head has been handed out.
HeadOrder ==
    /\ initialized => last_pos < expected_pos
    /\ ~initialized => packets = {} /\ last_pos = -1

IndInv == TypeOK /\ SequenceTracking /\ HeadOrder

\* What Accounting needs: the counters an initialisation starts from.
AccountingInv ==
    /\ IndInv /\ Accounting
    /\ ~initialized => stats.packets_popped = 0 /\ stats.missing_seq_flushed = 0

=============================================================================
