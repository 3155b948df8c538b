------------------------- MODULE ReorderStreamProofs -------------------------
(***************************************************************************)
(* Proofs about the reorder buffer fed by an arbitrary network, for every  *)
(* sequence space, threshold and window that satisfy WindowAssumption: the *)
(* inductive invariant IndInv, one lemma per operation, and the theorems.  *)
(* The arithmetic is in ReorderBufferProofs.                               *)
(***************************************************************************)
EXTENDS ReorderStream, ReorderBufferProofs, FiniteSetTheorems, TLAPS

-----------------------------------------------------------------------------

\* pop_next preserves the invariant.
LEMMA PopNextInv ==
    ASSUME IndInv, PopNext
    PROVE  IndInv' /\ last_pos' > last_pos
<1>1. PICK p \in packets : pop_next(p) /\ last_pos' = p.pos
  BY DEF PopNext
<1>2. /\ initialized /\ p.seq = next_expected_seq
      /\ packets' = packets \ {p}
      /\ next_expected_seq' = Succ(next_expected_seq)
      /\ missing_head_accounted' = FALSE
      /\ stats' = [stats EXCEPT !.packets_popped = @ + 1]
      /\ UNCHANGED initialized
      /\ expected_pos' = expected_pos + 1
      /\ UNCHANGED <<first_pos, discarded>>
  BY <1>1 DEF pop_next, PopNext
<1>3. TypeOK /\ SequenceTracking /\ HeadOrder
  BY DEF IndInv
<1>4. p.pos = expected_pos
  BY <1>2, <1>3, SameSeqSamePos, WindowAssumption
     DEF TypeOK, SequenceTracking, StreamPacket
<1>5. next_expected_seq' = SeqOf(expected_pos + 1)
  BY <1>2, <1>3, SuccSeqOf DEF TypeOK, SequenceTracking
<1>6. TypeOK'
  <2>1. next_expected_seq' \in WireSeq
    BY <1>3, <1>5, SeqOfType DEF TypeOK
  <2>2. packets' \subseteq StreamPacket /\ IsFiniteSet(packets')
    BY <1>2, <1>3, FS_RemoveElement DEF TypeOK
  <2>3. stats' \in ReorderBufferStats
    BY <1>2, <1>3 DEF TypeOK, ReorderBufferStats
  <2>4. initialized' \in BOOLEAN /\ missing_head_accounted' \in BOOLEAN
    BY <1>2, <1>3 DEF TypeOK
  <2>5. expected_pos' \in Nat /\ first_pos' \in Nat /\ last_pos' \in Int /\ discarded' \in Nat
    BY <1>1, <1>2, <1>3, <1>4 DEF TypeOK
  <2> QED
    BY <2>1, <2>2, <2>3, <2>4, <2>5 DEF TypeOK
<1>7. SequenceTracking'
  <2> SUFFICES ASSUME NEW q \in packets, q # p
               PROVE  /\ q.seq = SeqOf(q.pos)
                      /\ expected_pos + 1 <= q.pos
                      /\ q.pos < expected_pos + 1 + WindowSize
    BY <1>2, <1>5 DEF SequenceTracking
  <2>1. q.seq = SeqOf(q.pos) /\ p.seq = SeqOf(p.pos)
    BY <1>2, <1>3 DEF SequenceTracking
  <2>2. q.pos # p.pos
    BY <2>1, <1>3 DEF TypeOK, StreamPacket
  <2> QED
    BY <1>2, <1>3, <1>4, <2>1, <2>2, WindowAssumption
       DEF TypeOK, SequenceTracking, StreamPacket
<1>8. HeadOrder'
  BY <1>1, <1>2, <1>3, <1>4 DEF TypeOK, HeadOrder
<1>9. last_pos' > last_pos
  BY <1>1, <1>2, <1>3, <1>4 DEF TypeOK, HeadOrder
<1> QED
  BY <1>6, <1>7, <1>8, <1>9 DEF IndInv

\* How push classifies a packet, in terms of its true position.
LEMMA PushClass ==
    ASSUME IndInv, initialized, NEW pos \in Nat, Unambiguous(pos)
    PROVE  LET p == PacketAt(pos)
           IN  /\ IsLate(p) <=> pos < expected_pos
               /\ IsForwardOutOfWindow(p) <=> pos >= expected_pos + WindowSize
               /\ pos >= expected_pos => Dist(p.seq, next_expected_seq) = pos - expected_pos
<1> DEFINE p == PacketAt(pos)
<1>1. HeadAt(expected_pos) /\ expected_pos \in Nat /\ Near(expected_pos, pos) /\ p.seq = SeqOf(pos)
  BY DEF PacketAt, IndInv, SequenceTracking, TypeOK, StreamPacket, HeadAt, Unambiguous
<1> QED
  BY <1>1, Classify

\* Where a resynchronisation moves the head, and what it keeps.
LEMMA ResyncTarget ==
    ASSUME IndInv, initialized, NEW pos \in Nat, Unambiguous(pos),
           pos >= expected_pos + WindowSize,
           NEW e \in RecoveryExpected(SeqOf(pos))
    PROVE  \E t \in Nat : /\ e = SeqOf(t)
                          /\ expected_pos <= t /\ t <= pos /\ pos < t + WindowSize
                          /\ Dist(e, next_expected_seq) = t - expected_pos
                          /\ \A q \in KeptAfterAdvance(e) :
                                q \in packets /\ q.pos >= t
                          /\ \A q \in packets \ KeptAfterAdvance(e) :
                                pos - q.pos >= WindowSize
<1>1. HeadAt(expected_pos) /\ expected_pos \in Nat /\ Near(expected_pos, pos)
  BY DEF IndInv, SequenceTracking, TypeOK, StreamPacket, HeadAt, Unambiguous
<1> QED
  BY <1>1, HeadAfterResync

\* A finite set of packets stays finite when push erases and adds packets.
LEMMA FinitePackets ==
    ASSUME TypeOK, NEW kept \in SUBSET packets, NEW p, packets' = kept \/ packets' = kept \cup {p}
    PROVE  /\ IsFiniteSet(packets')
           /\ Cardinality(packets \ packets') \in Nat
<1>1. IsFiniteSet(packets)
  BY DEF TypeOK
<1>2. IsFiniteSet(kept) /\ IsFiniteSet(kept \cup {p})
  BY <1>1, FS_Subset, FS_AddElement
<1>3. IsFiniteSet(packets \ packets')
  BY <1>1, FS_Subset
<1> QED
  BY <1>2, <1>3, FS_CardinalityType

\* push preserves the invariant, on each of its paths.
LEMMA PushInv ==
    ASSUME IndInv, NEW pos \in Positions, NEW ok \in BOOLEAN, Push(pos, ok)
    PROVE  /\ IndInv'
           /\ stats'.out_of_window > stats.out_of_window
                => stats'.packets_stored = stats.packets_stored + 1
           /\ \A q \in packets \ packets', p \in packets' \ packets :
                p.pos - q.pos >= WindowSize
           /\ stats'.packets_popped = stats.packets_popped
<1> DEFINE p == PacketAt(pos)
<1>1. pos \in Nat /\ p.pos = pos /\ p.seq = SeqOf(pos) /\ SeqOf(pos) \in WireSeq /\ p \in StreamPacket
  BY PositionsAssumption, SeqOfType DEF PacketAt, StreamPacket
<1>2. /\ Unambiguous(pos)
      /\ push(p, ok)
      /\ expected_pos' = IF initialized
                         THEN expected_pos + Dist(next_expected_seq', next_expected_seq)
                         ELSE pos
      /\ first_pos' = IF initialized THEN first_pos ELSE pos
      /\ discarded' = discarded + Cardinality(packets \ packets')
      /\ UNCHANGED last_pos
  BY DEF Push
<1>3. TypeOK /\ SequenceTracking /\ HeadOrder
  BY DEF IndInv
<1>4. CountedPush \in ReorderBufferStats
  BY <1>3 DEF TypeOK, ReorderBufferStats, CountedPush
<1> HIDE DEF p
<1>5. CASE push_late(p)
  <2>1. /\ IsLate(p)
        /\ stats' = [CountedPush EXCEPT !.late_packets = @ + 1]
        /\ UNCHANGED <<packets, next_expected_seq, initialized, missing_head_accounted>>
    BY <1>5 DEF push_late
  <2>2. initialized
    BY <2>1, <1>1, WindowAssumption DEF IsLate, ExpectedFor, Dist, WireSeq
  <2>3. expected_pos' = expected_pos /\ first_pos' = first_pos /\ last_pos' = last_pos
    BY <2>1, <2>2, <1>2, <1>3 DEF Dist, TypeOK, WireSeq
  <2>4. stats' \in ReorderBufferStats /\ discarded' \in Nat
    <3>1. Cardinality(packets \ packets') \in Nat
      BY <1>3, <2>1, FinitePackets
    <3> QED
      BY <3>1, <2>1, <1>2, <1>3, <1>4 DEF TypeOK, ReorderBufferStats
  <2>5. TypeOK'
    BY <1>3, <2>1, <2>3, <2>4 DEF TypeOK
  <2>6. SequenceTracking' /\ HeadOrder'
    BY <1>3, <2>1, <2>3 DEF SequenceTracking, HeadOrder
  <2>7. stats'.out_of_window = stats.out_of_window /\ stats'.packets_popped = stats.packets_popped
        /\ stats.out_of_window \in Nat
    BY <1>3, <2>1 DEF TypeOK, ReorderBufferStats, CountedPush
  <2> QED
    BY <2>1, <2>5, <2>6, <2>7 DEF IndInv
<1>6. CASE push_in_window(p, ok)
  <2>1. /\ ~IsLate(p) /\ ~IsForwardOutOfWindow(p)
        /\ initialized' = TRUE
        /\ next_expected_seq' = ExpectedFor(p)
        /\ StoreOrReject(p, ExpectedFor(p), packets, CountedPush, ok)
        /\ UNCHANGED missing_head_accounted
    BY <1>6 DEF push_in_window
  <2>2. packets' = packets \/ packets' = packets \cup {p}
    BY <2>1 DEF StoreOrReject
  <2>3. stats' \in ReorderBufferStats /\ stats'.out_of_window = stats.out_of_window
        /\ stats'.packets_popped = stats.packets_popped /\ stats.out_of_window \in Nat
    <3> DEFINE st == CountedPush
    <3>1. st \in ReorderBufferStats /\ st.out_of_window = stats.out_of_window
          /\ st.packets_popped = stats.packets_popped /\ stats.out_of_window \in Nat
      BY <1>3, <1>4 DEF CountedPush, TypeOK, ReorderBufferStats
    <3>2. \/ stats' = [st EXCEPT !.packets_stored = @ + 1]
          \/ stats' = [st EXCEPT !.duplicates = @ + 1]
          \/ stats' = st
      BY <2>1 DEF StoreOrReject
    <3> HIDE DEF st
    <3> QED
      BY <3>1, <3>2 DEF ReorderBufferStats
  <2>4. IsFiniteSet(packets') /\ Cardinality(packets \ packets') \in Nat
    BY <1>3, <2>2, FinitePackets
  <2>5. /\ expected_pos' \in Nat
        /\ next_expected_seq' = SeqOf(expected_pos')
        /\ last_pos < expected_pos'
        /\ expected_pos' <= pos /\ pos < expected_pos' + WindowSize
        /\ initialized => expected_pos' = expected_pos
    <3>1. CASE initialized
      <4>1. next_expected_seq' = next_expected_seq /\ expected_pos' = expected_pos
        BY <3>1, <2>1, <1>2, <1>3 DEF ExpectedFor, Dist, TypeOK, WireSeq
      <4>2. ~(pos < expected_pos) /\ ~(pos >= expected_pos + WindowSize)
        BY <3>1, <2>1, <1>1, <1>2, PushClass DEF p
      <4> QED
        BY <3>1, <4>1, <4>2, <1>1, <1>3, WindowAssumption
           DEF TypeOK, SequenceTracking, HeadOrder
    <3>2. CASE ~initialized
      BY <3>2, <2>1, <1>1, <1>2, <1>3, WindowAssumption DEF ExpectedFor, HeadOrder
    <3> QED
      BY <3>1, <3>2
  <2>6. TypeOK'
    <3>1. next_expected_seq' \in WireSeq
      BY <2>5, SeqOfType
    <3>2. packets' \subseteq StreamPacket
      BY <2>2, <1>1, <1>3 DEF TypeOK
    <3>3. first_pos' \in Nat /\ last_pos' \in Int /\ discarded' \in Nat
      BY <1>1, <1>2, <1>3, <2>4 DEF TypeOK
    <3>4. initialized' \in BOOLEAN /\ missing_head_accounted' \in BOOLEAN
      BY <2>1, <1>3 DEF TypeOK
    <3> QED
      BY <2>3, <2>4, <2>5, <3>1, <3>2, <3>3, <3>4 DEF TypeOK
  <2>7. SequenceTracking'
    <3>1. ASSUME NEW q \in packets'
          PROVE  /\ q.seq = SeqOf(q.pos)
                 /\ expected_pos' <= q.pos
                 /\ q.pos < expected_pos' + WindowSize
      <4>1. CASE q \in packets
        <5>1. initialized
          BY <4>1, <1>3 DEF HeadOrder
        <5> QED
          BY <4>1, <5>1, <2>5, <1>3 DEF SequenceTracking
      <4>2. CASE q = p
        BY <4>2, <1>1, <2>5
      <4> QED
        BY <3>1, <4>1, <4>2, <2>2
    <3> QED
      BY <3>1, <2>5 DEF SequenceTracking
  <2>8. HeadOrder'
    BY <2>1, <2>5, <1>2 DEF HeadOrder
  <2> QED
    BY <2>2, <2>3, <2>6, <2>7, <2>8 DEF IndInv
<1>7. CASE push_resync(p, ok)
  <2>1. PICK e \in RecoveryExpected(p.seq) :
          /\ next_expected_seq' = e
          /\ StoreOrReject(p, e, KeptAfterAdvance(e), CountedResync(e), ok)
    BY <1>7 DEF push_resync
  <2>2. /\ IsForwardOutOfWindow(p)
        /\ missing_head_accounted' = FALSE
        /\ initialized' = initialized
    BY <1>7 DEF push_resync
  <2>3. initialized
    BY <2>2, <1>1, WindowAssumption DEF IsForwardOutOfWindow, ExpectedFor, Dist, WireSeq
  <2>4. pos >= expected_pos + WindowSize
    BY <2>2, <2>3, <1>1, <1>2, PushClass DEF p
  <2>5. PICK t \in Nat : /\ e = SeqOf(t)
                         /\ expected_pos <= t /\ t <= pos /\ pos < t + WindowSize
                         /\ Dist(e, next_expected_seq) = t - expected_pos
                         /\ \A q \in KeptAfterAdvance(e) :
                               q \in packets /\ q.pos >= t
                         /\ \A q \in packets \ KeptAfterAdvance(e) :
                               pos - q.pos >= WindowSize
    BY <2>1, <2>3, <2>4, <1>1, <1>2, ResyncTarget
  <2>6. expected_pos' = t
    BY <2>1, <2>3, <2>5, <1>2, <1>3 DEF TypeOK
  <2>7. Dist(p.seq, e) < WindowSize
    BY <2>5, <1>1, ForwardDist, WindowAssumption
  <2>8. \A q \in packets : /\ q.pos \in Nat /\ q.seq = SeqOf(q.pos)
                           /\ expected_pos <= q.pos /\ q.pos < expected_pos + WindowSize
    BY <2>3, <1>3 DEF TypeOK, SequenceTracking, StreamPacket
  <2>9. \A q \in KeptAfterAdvance(e) : q.seq # p.seq
    <3> SUFFICES ASSUME NEW q \in KeptAfterAdvance(e), q.seq = p.seq
                 PROVE  FALSE
      OBVIOUS
    <3>1. q.pos \in Nat /\ q.pos < pos /\ pos - q.pos < SeqModulus /\ SeqOf(q.pos) = SeqOf(pos)
      BY <2>4, <2>5, <2>8, <1>1, <1>3, WindowAssumption DEF TypeOK
    <3> QED
      BY <3>1, <1>1, SameSeqSamePos, WindowAssumption
  <2>10. ok = TRUE /\ packets' = KeptAfterAdvance(e) \cup {p}
    BY <2>1, <2>7, <2>9 DEF StoreOrReject
  <2>11. stats' \in ReorderBufferStats /\ stats'.packets_stored = stats.packets_stored + 1
         /\ stats'.packets_popped = stats.packets_popped
    <3> DEFINE st == CountedResync(e)
    <3>1. SkippedByAdvance(e) \in Nat
      BY <2>5, <1>3 DEF SkippedByAdvance, TypeOK
    <3>2. st \in ReorderBufferStats /\ st.packets_stored = stats.packets_stored
          /\ st.packets_popped = stats.packets_popped
      BY <3>1, <1>3, ResyncStats DEF TypeOK
    <3>3. stats' = [st EXCEPT !.packets_stored = @ + 1]
      BY <2>1, <2>10 DEF StoreOrReject
    <3> HIDE DEF st
    <3> QED
      BY <3>2, <3>3 DEF ReorderBufferStats
  <2>12. IsFiniteSet(packets') /\ Cardinality(packets \ packets') \in Nat
    BY <1>3, <2>5, <2>10, FinitePackets
  <2>13. TypeOK'
    <3>1. next_expected_seq' \in WireSeq
      BY <2>1, <2>5, SeqOfType
    <3>2. packets' \subseteq StreamPacket
      BY <2>5, <2>10, <1>1, <1>3 DEF TypeOK
    <3>3. first_pos' \in Nat /\ last_pos' \in Int /\ discarded' \in Nat /\ expected_pos' \in Nat
      BY <1>1, <1>2, <1>3, <2>6, <2>12 DEF TypeOK
    <3>4. initialized' \in BOOLEAN /\ missing_head_accounted' \in BOOLEAN
      BY <2>2, <1>3 DEF TypeOK
    <3> QED
      BY <2>11, <2>12, <3>1, <3>2, <3>3, <3>4 DEF TypeOK
  <2>14. SequenceTracking'
    <3>1. ASSUME NEW q \in packets'
          PROVE  /\ q.seq = SeqOf(q.pos)
                 /\ t <= q.pos
                 /\ q.pos < t + WindowSize
      <4>1. CASE q \in KeptAfterAdvance(e)
        BY <4>1, <2>5, <2>8, <1>3, WindowAssumption DEF TypeOK
      <4>2. CASE q = p
        BY <4>2, <1>1, <2>5
      <4> QED
        BY <3>1, <4>1, <4>2, <2>10
    <3> QED
      BY <3>1, <2>1, <2>5, <2>6 DEF SequenceTracking
  <2>15. HeadOrder'
    BY <2>2, <2>3, <2>5, <2>6, <1>2, <1>3 DEF HeadOrder, TypeOK
  <2>16. \A q \in packets \ packets', r \in packets' \ packets : r.pos - q.pos >= WindowSize
    BY <2>5, <2>10, <1>1
  <2> QED
    BY <2>11, <2>13, <2>14, <2>15, <2>16 DEF IndInv
<1> QED
  BY <1>2, <1>5, <1>6, <1>7 DEF push

\* pop_next that finds a gap preserves the invariant.
LEMMA PopMissingInv ==
    ASSUME IndInv, PopMissing
    PROVE  IndInv'
<1>1. /\ missing_head_accounted' = TRUE
      /\ stats' = [stats EXCEPT !.missing_seq = IF missing_head_accounted THEN @ ELSE @ + 1]
      /\ UNCHANGED <<packets, next_expected_seq, initialized, expected_pos, first_pos, last_pos, discarded>>
  BY DEF PopMissing, pop_next_missing, streamVars
<1>2. stats' \in ReorderBufferStats
  BY <1>1 DEF IndInv, TypeOK, ReorderBufferStats
<1> QED
  BY <1>1, <1>2 DEF IndInv, TypeOK, SequenceTracking, HeadOrder

\* flush_missing_once preserves the invariant: the head that is skipped was
\* not stored.
LEMMA FlushMissingInv ==
    ASSUME IndInv, FlushMissing
    PROVE  IndInv'
<1>1. /\ HeadMissing
      /\ next_expected_seq' = Succ(next_expected_seq)
      /\ missing_head_accounted' = FALSE
      /\ stats' = [stats EXCEPT !.missing_seq_flushed = @ + 1]
      /\ expected_pos' = expected_pos + 1
      /\ UNCHANGED <<packets, initialized, first_pos, last_pos, discarded>>
  BY DEF FlushMissing, flush_missing_once
<1>2. TypeOK /\ SequenceTracking /\ HeadOrder /\ initialized
  BY <1>1 DEF IndInv, HeadMissing
<1>3. next_expected_seq' = SeqOf(expected_pos')
  BY <1>1, <1>2, SuccSeqOf DEF TypeOK, SequenceTracking
<1>4. TypeOK'
  <2>1. stats' \in ReorderBufferStats
    BY <1>1, <1>2 DEF TypeOK, ReorderBufferStats
  <2>2. expected_pos' \in Nat /\ next_expected_seq' \in WireSeq
    BY <1>1, <1>2, <1>3, SeqOfType DEF TypeOK
  <2> QED
    BY <1>1, <1>2, <2>1, <2>2 DEF TypeOK
<1>5. SequenceTracking'
  <2>1. ASSUME NEW q \in packets
        PROVE  /\ q.seq = SeqOf(q.pos)
               /\ expected_pos + 1 <= q.pos
               /\ q.pos < expected_pos + 1 + WindowSize
    <3>1. q.seq = SeqOf(q.pos) /\ expected_pos <= q.pos /\ q.pos < expected_pos + WindowSize
      BY <1>2 DEF SequenceTracking
    <3>2. q.pos # expected_pos
      BY <3>1, <1>1, <1>2 DEF HeadMissing, HeadStored, SequenceTracking
    <3> QED
      BY <3>1, <3>2, <1>2, WindowAssumption DEF TypeOK, StreamPacket
  <2> QED
    BY <2>1, <1>1, <1>3 DEF SequenceTracking
<1>6. HeadOrder'
  BY <1>1, <1>2 DEF TypeOK, HeadOrder
<1> QED
  BY <1>4, <1>5, <1>6 DEF IndInv

\* A new buffer satisfies the invariant.
LEMMA InitInv == Init => IndInv
<1> SUFFICES ASSUME Init PROVE IndInv
  OBVIOUS
<1>1. ZeroStats \in ReorderBufferStats /\ IsFiniteSet({}) /\ 0 \in WireSeq
  BY FS_EmptySet, WindowAssumption DEF ZeroStats, ReorderBufferStats, WireSeq
<1>2. packets = {} /\ initialized = FALSE /\ missing_head_accounted = FALSE
      /\ stats = ZeroStats /\ next_expected_seq = 0
      /\ expected_pos = 0 /\ first_pos = 0 /\ last_pos = -1 /\ discarded = 0
  BY DEF Init, BufferInit
<1>3. initialized \in BOOLEAN /\ missing_head_accounted \in BOOLEAN
  BY <1>2
<1>4. expected_pos \in Nat /\ first_pos \in Nat /\ last_pos \in Int /\ discarded \in Nat
  BY <1>2
<1>5. TypeOK
  BY <1>1, <1>2, <1>3, <1>4 DEF TypeOK
<1>6. SequenceTracking /\ HeadOrder
  BY <1>2 DEF SequenceTracking, HeadOrder
<1> QED
  BY <1>5, <1>6 DEF IndInv

\* reset() preserves the invariant.
LEMMA ResetInv ==
    ASSUME Reset
    PROVE  IndInv'
<1>1. ZeroStats \in ReorderBufferStats /\ IsFiniteSet({}) /\ 0 \in WireSeq
  BY FS_EmptySet, WindowAssumption DEF ZeroStats, ReorderBufferStats, WireSeq
<1>2. packets' = {} /\ initialized' = FALSE /\ missing_head_accounted' = FALSE
      /\ stats' = ZeroStats /\ next_expected_seq' = 0
      /\ expected_pos' = 0 /\ first_pos' = 0 /\ last_pos' = -1 /\ discarded' = 0
  BY DEF Reset, reset
<1>3. initialized' \in BOOLEAN /\ missing_head_accounted' \in BOOLEAN
  BY <1>2
<1>4. expected_pos' \in Nat /\ first_pos' \in Nat /\ last_pos' \in Int /\ discarded' \in Nat
  BY <1>2
<1>5. TypeOK'
  BY <1>1, <1>2, <1>3, <1>4 DEF TypeOK
<1>6. SequenceTracking' /\ HeadOrder'
  BY <1>2 DEF SequenceTracking, HeadOrder
<1> QED
  BY <1>5, <1>6 DEF IndInv

\* Every step preserves the inductive invariant.
LEMMA NextInv == IndInv /\ [Next]_vars => IndInv'
<1> SUFFICES ASSUME IndInv, [Next]_vars
             PROVE  IndInv'
  OBVIOUS
<1>1. CASE \E pos \in Positions, ok \in BOOLEAN : Push(pos, ok)
  BY <1>1, PushInv
<1>2. CASE PopNext
  BY <1>2, PopNextInv
<1>3. CASE PopMissing
  BY <1>3, PopMissingInv
<1>4. CASE FlushMissing
  BY <1>4, FlushMissingInv
<1>5. CASE Reset
  BY <1>5, ResetInv
<1>6. CASE UNCHANGED vars
  BY <1>6 DEF vars, bufferVars, streamVars, IndInv, TypeOK, SequenceTracking, HeadOrder
<1> QED
  BY <1>1, <1>2, <1>3, <1>4, <1>5, <1>6 DEF Next

-----------------------------------------------------------------------------
\* The buffer's variables keep their types, for every window, modulus and
\* threshold that satisfy WindowAssumption.
THEOREM BufferTypeCorrect == Spec => []TypeOK
<1>1. IndInv => TypeOK
  BY DEF IndInv
<1> QED
  BY <1>1, InitInv, NextInv, PTL DEF Spec

\* Wrapping never makes the buffer lose track of the stream.
THEOREM TracksTheStream == Spec => []SequenceTracking
<1>1. IndInv => SequenceTracking
  BY DEF IndInv
<1> QED
  BY <1>1, InitInv, NextInv, PTL DEF Spec

\* What one step of the buffer may never do.
LEMMA StepProperties ==
    ASSUME IndInv, [Next]_vars
    PROVE  /\ stats'.packets_popped = stats.packets_popped + 1 => last_pos' > last_pos
           /\ stats'.out_of_window > stats.out_of_window
                => stats'.packets_stored = stats.packets_stored + 1
           /\ \A q \in packets \ packets', p \in packets' \ packets :
                p.pos - q.pos >= WindowSize
<1>0. stats \in ReorderBufferStats
  BY DEF IndInv, TypeOK
<1>a. stats.packets_popped \in Nat /\ stats.out_of_window \in Nat
  BY <1>0 DEF ReorderBufferStats
<1>1. CASE \E pos \in Positions, ok \in BOOLEAN : Push(pos, ok)
  BY <1>1, <1>a, PushInv
<1>2. CASE PopNext
  <2>1. packets' \subseteq packets
    BY <1>2 DEF PopNext, pop_next
  <2>2. stats'.out_of_window = stats.out_of_window
    BY <1>2, <1>0 DEF PopNext, pop_next, ReorderBufferStats
  <2> QED
    BY <2>1, <2>2, <1>2, <1>a, PopNextInv
<1>3. CASE PopMissing
  <2>1. packets' = packets
    BY <1>3 DEF PopMissing, pop_next_missing
  <2>2. stats'.out_of_window = stats.out_of_window /\ stats'.packets_popped = stats.packets_popped
    BY <1>3, <1>0 DEF PopMissing, pop_next_missing, ReorderBufferStats
  <2> QED
    BY <2>1, <2>2, <1>a
<1>4. CASE FlushMissing
  <2>1. packets' = packets
    BY <1>4 DEF FlushMissing, flush_missing_once
  <2>2. stats'.out_of_window = stats.out_of_window /\ stats'.packets_popped = stats.packets_popped
    BY <1>4, <1>0 DEF FlushMissing, flush_missing_once, ReorderBufferStats
  <2> QED
    BY <2>1, <2>2, <1>a
<1>5. CASE Reset
  <2>1. packets' = {} /\ stats' = ZeroStats
    BY <1>5 DEF Reset, reset
  <2>2. stats'.out_of_window = 0 /\ stats'.packets_popped = 0
    BY <2>1 DEF ZeroStats
  <2> QED
    BY <2>1, <2>2, <1>a
<1>6. CASE UNCHANGED vars
  BY <1>6, <1>a DEF vars, bufferVars
<1> QED
  BY <1>1, <1>2, <1>3, <1>4, <1>5, <1>6 DEF Next

\* pop_next hands out packets in the order of their true positions.
THEOREM DeliversInOrder == Spec => InOrderDelivery
<1>1. IndInv /\ [Next]_vars
        => [stats'.packets_popped = stats.packets_popped + 1 => last_pos' > last_pos]_vars
  BY StepProperties
<1> QED
  BY <1>1, InitInv, NextInv, PTL DEF Spec, InOrderDelivery

\* The packet that makes push resynchronise is never rejected, and what is
\* erased for it is a whole window older.
THEOREM ResyncIsSound == Spec => ResyncSound
<1>1. IndInv /\ [Next]_vars
        => [/\ stats'.out_of_window > stats.out_of_window
                 => stats'.packets_stored = stats.packets_stored + 1
            /\ \A q \in packets \ packets', p \in packets' \ packets :
                  p.pos - q.pos >= WindowSize]_vars
  BY StepProperties
<1> QED
  BY <1>1, InitInv, NextInv, PTL DEF Spec, ResyncSound

-----------------------------------------------------------------------------
\* How many packets are stored when some of them are replaced by a new one.
LEMMA ReplacedCount ==
    ASSUME NEW S, IsFiniteSet(S), NEW K \in SUBSET S, NEW p, p \notin S
    PROVE  /\ Cardinality(K \cup {p}) = Cardinality(S) - Cardinality(S \ (K \cup {p})) + 1
           /\ Cardinality(S) \in Nat /\ Cardinality(S \ (K \cup {p})) \in Nat
           /\ Cardinality(K \cup {p}) \in Nat
<1>1. IsFiniteSet(K) /\ Cardinality(K) \in Nat /\ Cardinality(S) \in Nat
  BY FS_Subset, FS_CardinalityType
<1>2. Cardinality(K \cup {p}) = Cardinality(K) + 1
  BY <1>1, FS_AddElement
<1>3. S \ (K \cup {p}) = S \ K /\ S \cap K = K
  OBVIOUS
<1> DEFINE new == K \cup {p}
<1> DEFINE gone == S \ new
<1>4. Cardinality(gone) = Cardinality(S) - Cardinality(K) /\ IsFiniteSet(gone)
  BY <1>3, FS_Difference
<1>5. Cardinality(gone) \in Nat /\ Cardinality(new) = Cardinality(K) + 1
  BY <1>2, <1>4, FS_CardinalityType
<1> HIDE DEF new, gone
<1>6. /\ Cardinality(new) = Cardinality(S) - Cardinality(gone) + 1
      /\ Cardinality(S) \in Nat /\ Cardinality(gone) \in Nat /\ Cardinality(new) \in Nat
  BY <1>1, <1>4, <1>5
<1> QED
  BY <1>6 DEF new, gone

\* push counts the packet under exactly one outcome, and what it stores and
\* erases is what the counters say.
LEMMA PushCounts ==
    ASSUME IndInv, NEW pos \in Positions, NEW ok \in BOOLEAN, Push(pos, ok)
    PROVE  /\ stats'.packets_pushed = stats.packets_pushed + 1
           /\ \/ /\ stats'.packets_stored = stats.packets_stored + 1
                 /\ stats'.duplicates = stats.duplicates
                 /\ stats'.late_packets = stats.late_packets
                 /\ Cardinality(packets') = Cardinality(packets) - Cardinality(packets \ packets') + 1
              \/ /\ stats'.packets_stored = stats.packets_stored
                 /\ stats'.duplicates + stats'.late_packets = stats.duplicates + stats.late_packets + 1
                 /\ packets' = packets
           /\ stats'.missing_seq_flushed - stats.missing_seq_flushed =
                (IF initialized THEN Dist(next_expected_seq', next_expected_seq) ELSE 0)
           /\ initialized'
<1> DEFINE p == PacketAt(pos)
<1>1. pos \in Nat /\ p.pos = pos /\ p.seq \in WireSeq
  BY PositionsAssumption, SeqOfType DEF PacketAt
<1>2. push(p, ok) /\ Unambiguous(pos)
  BY DEF Push
<1>3. /\ stats \in ReorderBufferStats /\ IsFiniteSet(packets) /\ next_expected_seq \in WireSeq
      /\ Dist(next_expected_seq, next_expected_seq) = 0
  BY DEF IndInv, TypeOK, Dist, WireSeq
<1>4. stats.out_of_window \in Nat /\ stats.packets_stored \in Nat /\ stats.missing_seq_flushed \in Nat
      /\ stats.duplicates \in Nat /\ stats.late_packets \in Nat /\ stats.packets_pushed \in Nat
  BY <1>3 DEF ReorderBufferStats
<1>5. /\ CountedPush \in ReorderBufferStats
      /\ CountedPush.packets_pushed = stats.packets_pushed + 1
      /\ CountedPush.packets_stored = stats.packets_stored
      /\ CountedPush.duplicates = stats.duplicates
      /\ CountedPush.late_packets = stats.late_packets
      /\ CountedPush.out_of_window = stats.out_of_window
      /\ CountedPush.missing_seq_flushed = stats.missing_seq_flushed
  BY <1>3 DEF CountedPush, ReorderBufferStats
<1> DEFINE counted == CountedPush
<1> HIDE DEF p, counted
<1>r. ASSUME p \notin packets
      PROVE  \A K \in SUBSET packets :
               Cardinality(K \cup {p}) = Cardinality(packets) - Cardinality(packets \ (K \cup {p})) + 1
  <2> SUFFICES ASSUME NEW K \in SUBSET packets
               PROVE  Cardinality(K \cup {p}) = Cardinality(packets) - Cardinality(packets \ (K \cup {p})) + 1
    OBVIOUS
  <2>1. IsFiniteSet(packets) /\ p \notin packets
    BY <1>3, <1>r
  <2> QED
    BY ONLY <2>1, ReplacedCount, K \in SUBSET packets
<1>6. CASE push_late(p)
  <2>1. /\ stats' = [counted EXCEPT !.late_packets = @ + 1]
        /\ UNCHANGED <<packets, next_expected_seq, initialized>> /\ IsLate(p)
    BY <1>6 DEF push_late, counted
  <2>2. initialized
    BY <2>1, <1>1, WindowAssumption DEF IsLate, ExpectedFor, Dist, WireSeq
  <2> QED
    BY <2>1, <2>2, <1>3, <1>4, <1>5 DEF ReorderBufferStats, counted
<1>7. CASE push_in_window(p, ok)
  <2>1. /\ StoreOrReject(p, ExpectedFor(p), packets, counted, ok)
        /\ initialized' = TRUE /\ next_expected_seq' = ExpectedFor(p)
        /\ ~IsLate(p) /\ ~IsForwardOutOfWindow(p)
    BY <1>7 DEF push_in_window, counted
  <2>2. Dist(p.seq, ExpectedFor(p)) < WindowSize
    <3>1. Dist(p.seq, ExpectedFor(p)) \in Int
      BY <1>1, <1>3, WindowAssumption DEF Dist, ExpectedFor, WireSeq
    <3> QED
      BY <2>1, <3>1, WindowAssumption DEF IsForwardOutOfWindow
  <2>3. initialized => Dist(next_expected_seq', next_expected_seq) = 0
    BY <2>1, <1>3 DEF ExpectedFor
  <2>4. CASE ok
    <3>1. /\ packets' = packets \cup {p} /\ stats' = [counted EXCEPT !.packets_stored = @ + 1]
          /\ \A q \in packets : q.seq # p.seq
      BY <2>1, <2>4 DEF StoreOrReject
    <3>2. p \notin packets
      BY <3>1
    <3>3. Cardinality(packets') = Cardinality(packets) - Cardinality(packets \ packets') + 1
      <4>1. packets \in SUBSET packets
        OBVIOUS
      <4> QED
        BY <4>1, <3>1, <3>2, <1>r
    <3> QED
      BY <3>1, <3>3, <2>1, <2>3, <1>4, <1>5 DEF ReorderBufferStats, counted
  <2>5. CASE ~ok
    <3>1. packets' = packets /\ stats' = [counted EXCEPT !.duplicates = @ + 1]
      BY <2>1, <2>2, <2>5 DEF StoreOrReject
    <3> QED
      BY <3>1, <2>1, <2>3, <1>4, <1>5 DEF ReorderBufferStats, counted
  <2> QED
    BY <2>4, <2>5
<1>8. CASE push_resync(p, ok)
  <2>1. PICK e \in RecoveryExpected(p.seq) :
          /\ next_expected_seq' = e
          /\ StoreOrReject(p, e, KeptAfterAdvance(e), CountedResync(e), ok)
    BY <1>8 DEF push_resync
  <2>2. IsForwardOutOfWindow(p) /\ initialized' = initialized
    BY <1>8 DEF push_resync
  <2>3. initialized
    BY <2>2, <1>1, WindowAssumption DEF IsForwardOutOfWindow, ExpectedFor, Dist, WireSeq
  <2>4. pos >= expected_pos + WindowSize
    BY <2>2, <2>3, <1>1, <1>2, PushClass DEF p
  <2>5. SkippedByAdvance(e) \in Nat
    <3>1. next_expected_seq' \in WireSeq
      BY PushInv DEF IndInv, TypeOK
    <3> QED
      BY <2>1, <3>1, <1>3, WindowAssumption DEF SkippedByAdvance, Dist, WireSeq
  <2> DEFINE st == CountedResync(e)
  <2>6. /\ st \in ReorderBufferStats
        /\ st.packets_pushed = stats.packets_pushed + 1
        /\ st.packets_stored = stats.packets_stored
        /\ st.duplicates = stats.duplicates /\ st.late_packets = stats.late_packets
        /\ st.out_of_window = stats.out_of_window + 1
        /\ st.missing_seq_flushed = stats.missing_seq_flushed + Dist(next_expected_seq', next_expected_seq)
    <3> DEFINE c == [counted EXCEPT !.out_of_window = @ + 1]
    <3>1. /\ c \in ReorderBufferStats
          /\ c.packets_pushed = stats.packets_pushed + 1
          /\ c.packets_stored = stats.packets_stored
          /\ c.duplicates = stats.duplicates /\ c.late_packets = stats.late_packets
          /\ c.out_of_window = stats.out_of_window + 1
          /\ c.missing_seq_flushed = stats.missing_seq_flushed
      BY <1>4, <1>5 DEF ReorderBufferStats, counted
    <3>2. st = [c EXCEPT !.missing_seq_flushed = @ + SkippedByAdvance(e)]
      BY DEF CountedResync, counted
    <3>3. SkippedByAdvance(e) = Dist(next_expected_seq', next_expected_seq)
      BY <2>1 DEF SkippedByAdvance
    <3> HIDE DEF c, st
    <3> QED
      BY <3>1, <3>2, <3>3, <2>5, <1>4 DEF ReorderBufferStats
  <2> HIDE DEF st
  <2>7. /\ packets' = KeptAfterAdvance(e) \cup {p}
        /\ stats' = [st EXCEPT !.packets_stored = @ + 1]
    <3>1. CASE ok
      BY <3>1, <2>1 DEF StoreOrReject, st
    <3>2. CASE ~ok
      <4>1. stats' = [st EXCEPT !.duplicates = @ + 1] \/ stats' = st
        BY <3>2, <2>1 DEF StoreOrReject, st
      <4>2. stats'.out_of_window > stats.out_of_window /\ stats'.packets_stored = stats.packets_stored
        BY <4>1, <2>6, <1>4 DEF ReorderBufferStats
      <4> QED
        BY <4>2, <1>4, PushInv
    <3> QED
      BY <3>1, <3>2
  <2>8. p \notin packets
    BY <2>3, <2>4, <1>1, WindowAssumption DEF IndInv, TypeOK, SequenceTracking
  <2>9. Cardinality(packets') = Cardinality(packets) - Cardinality(packets \ packets') + 1
    <3>1. KeptAfterAdvance(e) \in SUBSET packets
      BY DEF KeptAfterAdvance
    <3> QED
      BY <3>1, <2>7, <2>8, <1>r
  <2>10. /\ stats'.packets_pushed = st.packets_pushed
         /\ stats'.packets_stored = st.packets_stored + 1
         /\ stats'.duplicates = st.duplicates /\ stats'.late_packets = st.late_packets
         /\ stats'.missing_seq_flushed = st.missing_seq_flushed
    BY <2>6, <2>7 DEF ReorderBufferStats
  <2>11. Dist(next_expected_seq', next_expected_seq) \in Nat
    BY <2>1, <2>5 DEF SkippedByAdvance
  <2>12. stats'.missing_seq_flushed - stats.missing_seq_flushed = Dist(next_expected_seq', next_expected_seq)
    BY <2>6, <2>10, <2>11, <1>4
  <2> QED
    BY <2>2, <2>3, <2>6, <2>9, <2>10, <2>12
<1> QED
  BY <1>2, <1>6, <1>7, <1>8 DEF push

\* push keeps the books balanced.
LEMMA PushBalances ==
    ASSUME AccountingInv, NEW pos \in Positions, NEW ok \in BOOLEAN, Push(pos, ok)
    PROVE  AccountingInv'
<1>1. IndInv /\ IndInv'
  BY PushInv DEF AccountingInv
<1>2. /\ stats \in ReorderBufferStats /\ stats' \in ReorderBufferStats /\ IsFiniteSet(packets) /\ IsFiniteSet(packets')
      /\ expected_pos \in Nat /\ first_pos \in Nat /\ discarded \in Nat
      /\ expected_pos' \in Nat /\ first_pos' \in Nat /\ discarded' \in Nat
  BY <1>1 DEF IndInv, TypeOK
<1>3. IsFiniteSet(packets \ packets') /\ Cardinality({}) = 0 /\ packets \ packets = {}
  BY <1>2, FS_Subset, FS_EmptySet
<1>4. Cardinality(packets) \in Nat /\ Cardinality(packets') \in Nat /\ Cardinality(packets \ packets') \in Nat
  BY <1>2, <1>3, FS_CardinalityType
<1>5. /\ discarded' = discarded + Cardinality(packets \ packets')
      /\ first_pos' = IF initialized THEN first_pos ELSE pos
      /\ expected_pos' = IF initialized
                         THEN expected_pos + Dist(next_expected_seq', next_expected_seq)
                         ELSE pos
  BY DEF Push
<1>6. stats'.packets_popped = stats.packets_popped /\ initialized' /\ pos \in Nat
  BY <1>1, PushInv, PushCounts, PositionsAssumption
<1>7. expected_pos' - first_pos' = stats'.packets_popped + stats'.missing_seq_flushed
  <2>1. stats'.missing_seq_flushed - stats.missing_seq_flushed =
          (IF initialized THEN Dist(next_expected_seq', next_expected_seq) ELSE 0)
    BY <1>1, PushCounts
  <2>2. stats'.missing_seq_flushed \in Nat /\ stats.missing_seq_flushed \in Nat /\ stats.packets_popped \in Nat
    BY <1>2 DEF ReorderBufferStats
  <2>3. CASE initialized
    <3>1. expected_pos - first_pos = stats.packets_popped + stats.missing_seq_flushed
      BY <2>3 DEF AccountingInv, Accounting
    <3>2. Dist(next_expected_seq', next_expected_seq) \in Int
      BY <1>1, WindowAssumption DEF IndInv, TypeOK, Dist, WireSeq
    <3> QED
      BY <3>1, <3>2, <2>1, <2>2, <2>3, <1>2, <1>5, <1>6
  <2>4. CASE ~initialized
    <3>1. stats.packets_popped = 0 /\ stats.missing_seq_flushed = 0
      BY <2>4 DEF AccountingInv
    <3> QED
      BY <3>1, <2>1, <2>2, <2>4, <1>2, <1>5, <1>6
  <2> QED
    BY <2>3, <2>4
<1>8. /\ stats'.packets_pushed = stats'.packets_stored + stats'.duplicates + stats'.late_packets
      /\ stats'.packets_stored = stats'.packets_popped + Cardinality(packets') + discarded'
  <2>1. /\ stats.packets_pushed = stats.packets_stored + stats.duplicates + stats.late_packets
        /\ stats.packets_stored = stats.packets_popped + Cardinality(packets) + discarded
    BY DEF AccountingInv, Accounting
  <2>2. /\ stats.packets_pushed \in Nat /\ stats.packets_stored \in Nat /\ stats.duplicates \in Nat
        /\ stats.late_packets \in Nat /\ stats.packets_popped \in Nat
        /\ stats'.packets_pushed \in Nat /\ stats'.packets_stored \in Nat /\ stats'.duplicates \in Nat
        /\ stats'.late_packets \in Nat
    BY <1>2 DEF ReorderBufferStats
  <2>3. stats'.packets_pushed = stats.packets_pushed + 1
    BY <1>1, PushCounts
  <2>4. CASE /\ stats'.packets_stored = stats.packets_stored + 1
             /\ stats'.duplicates = stats.duplicates
             /\ stats'.late_packets = stats.late_packets
             /\ Cardinality(packets') = Cardinality(packets) - Cardinality(packets \ packets') + 1
    BY <2>1, <2>2, <2>3, <2>4, <1>2, <1>4, <1>5, <1>6
  <2>5. CASE /\ stats'.packets_stored = stats.packets_stored
             /\ stats'.duplicates + stats'.late_packets = stats.duplicates + stats.late_packets + 1
             /\ packets' = packets
    <3>1. Cardinality(packets \ packets') = 0 /\ Cardinality(packets') = Cardinality(packets)
      BY <2>5, <1>3
    <3>2. stats'.packets_pushed = stats'.packets_stored + stats'.duplicates + stats'.late_packets
      BY <2>1, <2>2, <2>3, <2>5
    <3> QED
      BY <3>1, <3>2, <2>1, <2>2, <2>5, <1>2, <1>4, <1>5, <1>6
  <2> QED
    BY <1>1, <2>4, <2>5, PushCounts
<1> QED
  BY <1>1, <1>6, <1>7, <1>8 DEF AccountingInv, Accounting

\* pop_next, the flushes and reset() keep the books balanced.
LEMMA OtherStepsBalance ==
    ASSUME AccountingInv, PopNext \/ PopMissing \/ FlushMissing \/ Reset \/ UNCHANGED vars
    PROVE  AccountingInv'
<1>1. IndInv /\ IndInv' /\ Accounting
  BY NextInv DEF AccountingInv, Next
<1>2. /\ stats \in ReorderBufferStats /\ IsFiniteSet(packets) /\ expected_pos \in Nat
      /\ first_pos \in Nat /\ discarded \in Nat /\ Cardinality(packets) \in Nat
  BY <1>1, FS_CardinalityType DEF IndInv, TypeOK
<1>3. CASE PopNext
  <2>1. PICK p \in packets : pop_next(p)
    BY <1>3 DEF PopNext
  <2>2. initialized /\ initialized' /\ packets' = packets \ {p} /\ expected_pos' = expected_pos + 1
        /\ stats' = [stats EXCEPT !.packets_popped = @ + 1] /\ UNCHANGED <<first_pos, discarded>>
    BY <1>3, <2>1 DEF PopNext, pop_next
  <2>3. Cardinality(packets') = Cardinality(packets) - 1
    BY <1>2, <2>2, FS_RemoveElement
  <2> QED
    BY <1>1, <1>2, <2>2, <2>3 DEF AccountingInv, Accounting, ReorderBufferStats
<1>4. CASE PopMissing
  <2>1. \E n \in Nat : stats' = [stats EXCEPT !.missing_seq = n]
    <3> DEFINE n == IF missing_head_accounted THEN stats.missing_seq ELSE stats.missing_seq + 1
    <3>1. n \in Nat
      BY <1>2 DEF ReorderBufferStats
    <3>2. stats' = [stats EXCEPT !.missing_seq = n]
      BY <1>4 DEF PopMissing, pop_next_missing
    <3> QED
      BY <3>1, <3>2
  <2>2. UNCHANGED <<packets, initialized, expected_pos, first_pos, discarded>>
    BY <1>4 DEF PopMissing, pop_next_missing, streamVars
  <2> QED
    BY <1>1, <1>2, <2>1, <2>2 DEF AccountingInv, Accounting, ReorderBufferStats
<1>5. CASE FlushMissing
  <2>1. initialized /\ initialized' /\ expected_pos' = expected_pos + 1
        /\ stats' = [stats EXCEPT !.missing_seq_flushed = @ + 1] /\ UNCHANGED <<packets, first_pos, discarded>>
    BY <1>5 DEF FlushMissing, flush_missing_once, HeadMissing
  <2> QED
    BY <1>1, <1>2, <2>1 DEF AccountingInv, Accounting, ReorderBufferStats
<1>6. CASE Reset
  <2>1. packets' = {} /\ ~initialized' /\ stats' = ZeroStats /\ discarded' = 0 /\ Cardinality({}) = 0
    BY <1>6, FS_EmptySet DEF Reset, reset
  <2> QED
    BY <1>1, <2>1 DEF AccountingInv, Accounting, ZeroStats
<1>7. CASE UNCHANGED vars
  BY <1>1, <1>7 DEF AccountingInv, Accounting, vars, bufferVars, streamVars
<1> QED
  BY <1>3, <1>4, <1>5, <1>6, <1>7

\* Every packet and every position of the stream is counted exactly once.
THEOREM CountsBalance == Spec => []Accounting
<1>1. Init => AccountingInv
  <2> SUFFICES ASSUME Init PROVE AccountingInv
    OBVIOUS
  <2>1. packets = {} /\ ~initialized /\ stats = ZeroStats /\ discarded = 0 /\ Cardinality({}) = 0
    BY FS_EmptySet DEF Init, BufferInit
  <2> QED
    BY <2>1, InitInv DEF AccountingInv, Accounting, ZeroStats
<1>2. AccountingInv /\ [Next]_vars => AccountingInv'
  BY PushBalances, OtherStepsBalance DEF Next
<1>3. AccountingInv => Accounting
  BY DEF AccountingInv
<1> QED
  BY <1>1, <1>2, <1>3, PTL DEF Spec

=============================================================================
