------------------------- MODULE ReorderBufferProofs -------------------------
(***************************************************************************)
(* Facts about the reorder buffer that the proofs of every module built on *)
(* it need, for every sequence space, threshold and window that satisfy    *)
(* WindowAssumption: for a packet less than half a wrap away, the unsigned *)
(* distances of the code are distances between true positions, so that     *)
(* push and the flushes can be read in terms of positions.                 *)
(***************************************************************************)
EXTENDS ReorderBuffer, TLAPS

\* The wire number of a position lies in the sequence space (uint16_t/uint32_t).
LEMMA SeqOfType ==
    ASSUME NEW a \in Nat
    PROVE  SeqOf(a) \in WireSeq
BY WindowAssumption DEF SeqOf, WireSeq

\* Division with remainder by the sequence space.
LEMMA DivMod ==
    ASSUME NEW a \in Nat
    PROVE  /\ a \div SeqModulus \in Nat
           /\ a = SeqModulus * (a \div SeqModulus) + SeqOf(a)
BY WindowAssumption DEF SeqOf

\* A multiple by two or more, or by a negative number, leaves one wrap.
LEMMA MulMono ==
    ASSUME NEW m \in Nat, NEW k \in Int
    PROVE  /\ k >= 2 => m * k >= 2 * m
           /\ k <= -1 => m * k <= -m
  OBVIOUS

\* For a position ahead by less than one wrap, the unsigned difference that
\* push computes is the true distance.
LEMMA ForwardDist ==
    ASSUME NEW a \in Nat, NEW b \in Nat, b <= a, a - b < SeqModulus
    PROVE  Dist(SeqOf(a), SeqOf(b)) = a - b
<1> DEFINE m == SeqModulus
           qa == a \div SeqModulus
           qb == b \div SeqModulus
           k == qa - qb
<1>1. /\ qa \in Nat /\ qb \in Nat /\ m \in Nat /\ m > 0
      /\ a = m * qa + SeqOf(a)
      /\ b = m * qb + SeqOf(b)
  BY DivMod, WindowAssumption
<1>2. SeqOf(a) \in 0 .. m - 1 /\ SeqOf(b) \in 0 .. m - 1
  BY SeqOfType DEF WireSeq
<1>3. a - b = m * k + SeqOf(a) - SeqOf(b)
  BY <1>1, <1>2
<1> HIDE DEF k, m
<1>4. k \in Int
  BY <1>1 DEF k
<1>5. k = 0 \/ k = 1
  <2>1. m * k \in Int BY <1>1, <1>4 DEF m
  <2>2. /\ k >= 2 => m * k >= 2 * m
        /\ k <= -1 => m * k <= -m
    BY <1>1, <1>4, MulMono DEF m
  <2> QED BY <1>1, <1>2, <1>3, <1>4, <2>1, <2>2 DEF m
<1>6. m * 0 = 0 /\ m * 1 = m
  BY <1>1 DEF m
<1> QED
  BY <1>1, <1>2, <1>3, <1>5, <1>6 DEF Dist, m

\* For a position behind by less than one wrap, the unsigned difference is
\* the true distance plus one wrap.
LEMMA BackwardDist ==
    ASSUME NEW a \in Nat, NEW b \in Nat, a < b, b - a < SeqModulus
    PROVE  Dist(SeqOf(a), SeqOf(b)) = SeqModulus - (b - a)
<1>1. Dist(SeqOf(b), SeqOf(a)) = b - a
  BY ForwardDist
<1>2. SeqOf(a) \in WireSeq /\ SeqOf(b) \in WireSeq
  BY SeqOfType
<1> QED
  BY <1>1, <1>2, WindowAssumption DEF Dist, WireSeq

\* ++next_expected_seq_ follows the true position.
LEMMA SuccSeqOf ==
    ASSUME NEW a \in Nat
    PROVE  Succ(SeqOf(a)) = SeqOf(a + 1)
<1>1. SeqModulus = 1 \/ Dist(SeqOf(a + 1), SeqOf(a)) = 1
  BY ForwardDist, WindowAssumption
<1>2. SeqOf(a) \in WireSeq /\ SeqOf(a + 1) \in WireSeq
  BY SeqOfType
<1> QED
  BY <1>1, <1>2, WindowAssumption DEF Dist, WireSeq, Succ

\* Two positions less than a wrap apart with one wire number are equal.
LEMMA SameSeqSamePos ==
    ASSUME NEW a \in Nat, NEW b \in Nat, SeqOf(a) = SeqOf(b),
           a - b < SeqModulus, b - a < SeqModulus
    PROVE  a = b
<1>1. CASE b <= a
  BY <1>1, ForwardDist, SeqOfType, WindowAssumption DEF Dist, WireSeq
<1>2. CASE a < b
  BY <1>2, ForwardDist, SeqOfType, WindowAssumption DEF Dist, WireSeq
<1> QED
  BY <1>1, <1>2

-----------------------------------------------------------------------------
\* How push classifies a packet, in terms of its true position.
LEMMA Classify ==
    ASSUME initialized, NEW h \in Nat, HeadAt(h), NEW pos \in Nat, Near(h, pos),
           NEW p, p.seq = SeqOf(pos)
    PROVE  /\ IsLate(p) <=> pos < h
           /\ IsForwardOutOfWindow(p) <=> pos >= h + WindowSize
           /\ pos >= h => Dist(p.seq, next_expected_seq) = pos - h
<1> DEFINE D == Dist(p.seq, next_expected_seq)
<1>1. p.seq = SeqOf(pos) /\ next_expected_seq = SeqOf(h)
  BY DEF HeadAt
<1>2. h \in Nat /\ ExpectedFor(p) = next_expected_seq
  BY DEF ExpectedFor
<1>3. pos - h <= LateThreshold /\ h - pos < SeqModulus - LateThreshold
  BY DEF Near
<1>4. pos >= h => D = pos - h
  BY <1>1, <1>2, <1>3, ForwardDist, WindowAssumption
<1>5. pos < h => D = SeqModulus - (h - pos)
  BY <1>1, <1>2, <1>3, BackwardDist, WindowAssumption
<1> HIDE DEF D
<1>6. IsLate(p) <=> D >= WindowSize /\ D > LateThreshold
  BY <1>2 DEF IsLate, D
<1>7. IsForwardOutOfWindow(p) <=> D >= WindowSize /\ ~IsLate(p)
  BY <1>2 DEF IsForwardOutOfWindow, D
<1>8. IsLate(p) <=> pos < h
  BY <1>2, <1>3, <1>4, <1>5, <1>6, WindowAssumption
<1>9. IsForwardOutOfWindow(p) <=> pos >= h + WindowSize
  BY <1>2, <1>3, <1>4, <1>5, <1>6, <1>7, <1>8, WindowAssumption
<1> QED
  BY <1>4, <1>8, <1>9 DEF D

\* Where a resynchronisation moves the head, and what it keeps.
LEMMA HeadAfterResync ==
    ASSUME initialized, NEW h \in Nat, HeadAt(h), NEW pos \in Nat, Near(h, pos),
           pos >= h + WindowSize,
           NEW e \in RecoveryExpected(SeqOf(pos))
    PROVE  \E t \in Nat : /\ e = SeqOf(t)
                          /\ h <= t /\ t <= pos /\ pos < t + WindowSize
                          /\ Dist(e, next_expected_seq) = t - h
                          /\ \A q \in KeptAfterAdvance(e) :
                                q \in packets /\ q.pos >= t
                          /\ \A q \in packets \ KeptAfterAdvance(e) :
                                q.pos < t /\ pos - q.pos >= WindowSize
<1>1. next_expected_seq = SeqOf(h)
  BY DEF HeadAt
<1>2. pos - h <= LateThreshold /\ h \in Nat
  BY DEF Near
<1>3. \A q \in packets : /\ q.pos \in Nat /\ q.seq = SeqOf(q.pos)
                         /\ h <= q.pos /\ q.pos < h + WindowSize
  BY DEF HeadAt
<1>4. \A q \in packets : Dist(SeqOf(pos), q.seq) = pos - q.pos
  BY <1>2, <1>3, ForwardDist, WindowAssumption
<1>5. \A q \in packets : Dist(q.seq, next_expected_seq) = q.pos - h
  BY <1>1, <1>2, <1>3, ForwardDist, WindowAssumption
<1>6. \A q \in packets : q \in RecoveryCandidates(SeqOf(pos)) <=> pos - q.pos < WindowSize
  BY <1>2, <1>3, <1>4, <1>5, WindowAssumption DEF RecoveryCandidates
<1>7. PICK t \in Nat : /\ e = SeqOf(t)
                       /\ h <= t /\ t <= pos /\ pos < t + WindowSize
                       /\ \A q \in packets : q.pos < t => pos - q.pos >= WindowSize
  <2> DEFINE C == RecoveryCandidates(SeqOf(pos))
  <2>1. CASE C = {}
    <3>1. e = SeqOf(pos)
      BY <2>1 DEF RecoveryExpected
    <3> QED
      BY <2>1, <3>1, <1>2, <1>3, <1>6, WindowAssumption
  <2>2. CASE C # {}
    <3>1. PICK c \in C : /\ e = c.seq
                         /\ \A d \in C : Dist(c.seq, next_expected_seq) <= Dist(d.seq, next_expected_seq)
      BY <2>2 DEF RecoveryExpected
    <3>2. c \in packets /\ C \subseteq packets
      BY DEF RecoveryCandidates
    <3>3. e = SeqOf(c.pos) /\ c.pos \in Nat /\ h <= c.pos /\ c.pos <= pos
          /\ pos < c.pos + WindowSize
      BY <3>1, <3>2, <1>2, <1>3, <1>6, WindowAssumption
    <3>4. ASSUME NEW q \in packets, q.pos < c.pos
          PROVE  pos - q.pos >= WindowSize
      BY <3>1, <3>2, <3>3, <3>4, <1>2, <1>3, <1>5, <1>6, WindowAssumption
    <3> QED
      BY <3>3, <3>4
  <2> QED
    BY <2>1, <2>2
<1>8. Dist(e, next_expected_seq) = t - h
  BY <1>1, <1>2, <1>7, ForwardDist, WindowAssumption
<1>9. ASSUME NEW q \in KeptAfterAdvance(e)
      PROVE  q \in packets /\ q.pos >= t
  <2>1. q \in packets /\ Dist(q.seq, e) < WindowSize
    BY DEF KeptAfterAdvance
  <2>2. q.pos < t => Dist(q.seq, e) = SeqModulus - (t - q.pos)
    BY <2>1, <1>2, <1>3, <1>7, BackwardDist, WindowAssumption
  <2> QED
    BY <2>1, <2>2, <1>2, <1>3, <1>7, WindowAssumption
<1>10. ASSUME NEW q \in packets, q.pos >= t
       PROVE  q \in KeptAfterAdvance(e)
  <2>1. Dist(q.seq, e) = q.pos - t
    BY <1>10, <1>2, <1>3, <1>7, ForwardDist, WindowAssumption
  <2> QED
    BY <2>1, <1>10, <1>2, <1>3, <1>7, WindowAssumption DEF KeptAfterAdvance
<1>11. ASSUME NEW q \in packets \ KeptAfterAdvance(e)
       PROVE  q.pos < t /\ pos - q.pos >= WindowSize
  BY <1>10, <1>3, <1>7
<1> QED
  BY <1>7, <1>8, <1>9, <1>11

\* What a resynchronisation to e does to the counters.
LEMMA ResyncStats ==
    ASSUME stats \in ReorderBufferStats, NEW e, SkippedByAdvance(e) \in Nat
    PROVE  /\ CountedResync(e) \in ReorderBufferStats
           /\ CountedResync(e).packets_stored = stats.packets_stored
           /\ CountedResync(e).packets_popped = stats.packets_popped
           /\ CountedResync(e).missing_seq_flushed =
                stats.missing_seq_flushed + SkippedByAdvance(e)
<1> DEFINE st == [CountedPush EXCEPT !.out_of_window = @ + 1]
<1>0. /\ CountedPush \in ReorderBufferStats
      /\ CountedPush.packets_stored = stats.packets_stored
      /\ CountedPush.packets_popped = stats.packets_popped
      /\ CountedPush.missing_seq_flushed = stats.missing_seq_flushed
  BY DEF CountedPush, ReorderBufferStats
<1>1. /\ st \in ReorderBufferStats
      /\ st.packets_stored = stats.packets_stored
      /\ st.packets_popped = stats.packets_popped
      /\ st.missing_seq_flushed = stats.missing_seq_flushed
  BY <1>0 DEF ReorderBufferStats
<1>2. CountedResync(e) = [st EXCEPT !.missing_seq_flushed = @ + SkippedByAdvance(e)]
  BY DEF CountedResync
<1> HIDE DEF st
<1> QED
  BY <1>1, <1>2 DEF ReorderBufferStats

-----------------------------------------------------------------------------
\* What push, pop_next and the flushes do, by true positions.  The facts do
\* not depend on who calls them; the head's position h is the caller's.

\* A push that is refused leaves the buffer as it was, but for the counters: it
\* never resynchronises.
LEMMA PushRefused ==
    ASSUME NEW h \in Nat, initialized => HeadAt(h), ~initialized => packets = {},
           NEW p, p.pos \in Nat, p.seq = SeqOf(p.pos), initialized => Near(h, p.pos),
           push(p, FALSE)
    PROVE  initialized /\ UNCHANGED <<packets, next_expected_seq, initialized>>
<1>1. p.seq \in WireSeq
  BY SeqOfType
<1>2. ~initialized => ~IsLate(p) /\ ~IsForwardOutOfWindow(p)
  BY <1>1, WindowAssumption DEF IsLate, IsForwardOutOfWindow, ExpectedFor, Dist, WireSeq
<1>3. CASE push_late(p)
  BY <1>2, <1>3 DEF push_late
<1>4. CASE push_in_window(p, FALSE)
  <2>1. packets' = packets /\ initialized' = TRUE /\ next_expected_seq' = ExpectedFor(p)
        /\ StoreOrReject(p, ExpectedFor(p), packets, CountedPush, FALSE)
        /\ ~IsLate(p) /\ ~IsForwardOutOfWindow(p)
    BY <1>4 DEF push_in_window, StoreOrReject
  <2>2. initialized
    <3> SUFFICES ASSUME ~initialized PROVE FALSE
      OBVIOUS
    <3>1. Dist(p.seq, ExpectedFor(p)) = 0 /\ packets = {}
      BY <1>1, WindowAssumption DEF ExpectedFor, Dist, WireSeq
    <3> QED
      BY <3>1, <2>1, WindowAssumption DEF StoreOrReject
  <2> QED
    BY <2>1, <2>2 DEF ExpectedFor
<1>5. CASE push_resync(p, FALSE)
  <2>1. PICK e \in RecoveryExpected(p.seq) :
          StoreOrReject(p, e, KeptAfterAdvance(e), CountedResync(e), FALSE)
    BY <1>5 DEF push_resync
  <2>2. IsForwardOutOfWindow(p) /\ initialized
    BY <1>2, <1>5 DEF push_resync
  <2>3. p.pos >= h + WindowSize
    BY <2>2, Classify
  <2>4. e \in RecoveryExpected(SeqOf(p.pos))
    OBVIOUS
  <2>5. PICK t \in Nat : /\ e = SeqOf(t) /\ t <= p.pos /\ p.pos < t + WindowSize
                         /\ \A q \in KeptAfterAdvance(e) : q \in packets
    BY <2>2, <2>3, <2>4, HeadAfterResync
  <2>6. Dist(p.seq, e) < WindowSize
    BY <2>5, ForwardDist, WindowAssumption
  <2>7. PICK q \in packets : q.seq = p.seq
    BY <2>1, <2>5, <2>6 DEF StoreOrReject
  <2>8. q.pos \in Nat /\ h <= q.pos /\ q.pos < h + WindowSize /\ SeqOf(q.pos) = SeqOf(p.pos)
    BY <2>2, <2>7 DEF HeadAt
  <2>9. p.pos - h <= LateThreshold
    BY <2>2 DEF Near
  <2>10. p.pos - q.pos < SeqModulus /\ q.pos - p.pos < SeqModulus
    BY <2>3, <2>8, <2>9, WindowAssumption
  <2>11. q.pos = p.pos
    BY <2>8, <2>10, SameSeqSamePos
  <2> QED
    BY <2>3, <2>8, <2>11, WindowAssumption
<1> QED
  BY <1>3, <1>4, <1>5 DEF push

\* A push that is accepted stores a position the buffer has not passed and
\* does not hold, and erases only positions that the head then has passed.
LEMMA PushStored ==
    ASSUME NEW h \in Nat, initialized => HeadAt(h), ~initialized => packets = {},
           NEW p, p.pos \in Nat, p.seq = SeqOf(p.pos), initialized => Near(h, p.pos),
           push(p, TRUE)
    PROVE  /\ initialized' /\ p \in packets' /\ packets' \subseteq packets \cup {p}
           /\ \A q \in packets : q.pos # p.pos
           /\ \E g \in Nat : /\ HeadAt(g)' /\ g <= p.pos /\ (IF initialized THEN h <= g ELSE g = p.pos)
                             /\ \A q \in packets : q \in packets' \/ q.pos < g
<1>1. p.seq \in WireSeq
  BY SeqOfType
<1>2. ~initialized => ~IsLate(p) /\ ~IsForwardOutOfWindow(p)
  BY <1>1, WindowAssumption DEF IsLate, IsForwardOutOfWindow, ExpectedFor, Dist, WireSeq
<1>3. CASE push_in_window(p, TRUE)
  <2>1. /\ initialized' = TRUE /\ next_expected_seq' = ExpectedFor(p)
        /\ StoreOrReject(p, ExpectedFor(p), packets, CountedPush, TRUE)
        /\ ~IsLate(p) /\ ~IsForwardOutOfWindow(p)
    BY <1>3 DEF push_in_window
  <2>2. packets' = packets \cup {p} /\ \A q \in packets : q.seq # p.seq
    BY <2>1 DEF StoreOrReject
  <2>3. \A q \in packets : q.pos # p.pos
    <3>1. \A q \in packets : q.seq = SeqOf(q.pos)
      BY DEF HeadAt
    <3> QED
      BY <2>2, <3>1
  <2>4. CASE initialized
    <3>1. h <= p.pos /\ p.pos < h + WindowSize
      BY <2>1, <2>4, Classify, WindowAssumption
    <3>2. HeadAt(h)'
      BY <2>1, <2>2, <2>4, <3>1 DEF HeadAt, ExpectedFor
    <3> QED
      BY <2>1, <2>2, <2>3, <2>4, <3>1, <3>2
  <2>5. CASE ~initialized
    <3>1. HeadAt(p.pos)'
      BY <2>1, <2>2, <2>5, WindowAssumption DEF HeadAt, ExpectedFor
    <3> QED
      BY <2>1, <2>2, <2>3, <2>5, <3>1
  <2> QED
    BY <2>4, <2>5
<1>4. CASE push_resync(p, TRUE)
  <2>1. PICK e \in RecoveryExpected(p.seq) :
          /\ next_expected_seq' = e
          /\ StoreOrReject(p, e, KeptAfterAdvance(e), CountedResync(e), TRUE)
    BY <1>4 DEF push_resync
  <2>2. IsForwardOutOfWindow(p) /\ initialized /\ initialized'
    BY <1>2, <1>4 DEF push_resync
  <2>3. p.pos >= h + WindowSize
    BY <2>2, Classify
  <2>4. e \in RecoveryExpected(SeqOf(p.pos))
    OBVIOUS
  <2>5. PICK t \in Nat : /\ e = SeqOf(t) /\ h <= t /\ t <= p.pos /\ p.pos < t + WindowSize
                         /\ \A q \in KeptAfterAdvance(e) : q \in packets /\ q.pos >= t
                         /\ \A q \in packets \ KeptAfterAdvance(e) : q.pos < t
    BY <2>2, <2>3, <2>4, HeadAfterResync
  <2>6. packets' = KeptAfterAdvance(e) \cup {p}
    BY <2>1 DEF StoreOrReject
  <2>7. \A q \in packets : /\ q.pos \in Nat /\ q.seq = SeqOf(q.pos)
                           /\ h <= q.pos /\ q.pos < h + WindowSize
    BY <2>2 DEF HeadAt
  <2>8. \A q \in packets : q.pos # p.pos
    BY <2>3, <2>7, WindowAssumption
  <2>9. ASSUME NEW q \in packets'
        PROVE  q.pos \in Nat /\ q.seq = SeqOf(q.pos) /\ t <= q.pos /\ q.pos < t + WindowSize
    <3>1. CASE q \in KeptAfterAdvance(e)
      BY <3>1, <2>5, <2>7, WindowAssumption
    <3>2. CASE q = p
      BY <3>2, <2>5
    <3> QED
      BY <3>1, <3>2, <2>6, <2>9
  <2>10. HeadAt(t)'
    BY <2>1, <2>5, <2>9 DEF HeadAt
  <2>11. \A q \in packets : q \in packets' \/ q.pos < t
    BY <2>5, <2>6
  <2>12. packets' \subseteq packets \cup {p} /\ p \in packets'
    BY <2>5, <2>6
  <2> QED
    BY <2>2, <2>5, <2>8, <2>10, <2>11, <2>12
<1> QED
  BY <1>3, <1>4 DEF push

\* pop_next hands out the position of the head and moves past it.
LEMMA PopAdvances ==
    ASSUME NEW h \in Nat, HeadAt(h), NEW p, pop_next(p), \A q \in packets : q.pos = p.pos => q = p
    PROVE  p.pos = h /\ packets' = packets \ {p} /\ HeadAt(h + 1)'
<1>1. p \in packets /\ p.seq = next_expected_seq /\ packets' = packets \ {p}
      /\ next_expected_seq' = Succ(next_expected_seq)
  BY DEF pop_next
<1>2. \A q \in packets : /\ q.pos \in Nat /\ q.seq = SeqOf(q.pos)
                         /\ h <= q.pos /\ q.pos < h + WindowSize
  BY DEF HeadAt
<1>3. \A q \in packets : q.seq = next_expected_seq => q.pos = h
  BY <1>2, SameSeqSamePos, WindowAssumption DEF HeadAt
<1>4. next_expected_seq' = SeqOf(h + 1)
  BY <1>1, SuccSeqOf DEF HeadAt
<1>5. ASSUME NEW q \in packets', q.pos = h
      PROVE  FALSE
  <2>1. q \in packets /\ q # p /\ q.seq = p.seq /\ p.pos = h
    BY <1>1, <1>2, <1>3, <1>5
  <2> QED
    BY <2>1, <1>5
<1>6. \A q \in packets' : h + 1 <= q.pos /\ q.pos < h + 1 + WindowSize
  BY <1>1, <1>2, <1>5, WindowAssumption
<1> QED
  BY <1>1, <1>2, <1>3, <1>4, <1>6 DEF HeadAt

\* A flush moves past a head that is not stored.
LEMMA FlushAdvances ==
    ASSUME NEW h \in Nat, HeadAt(h), flush_missing_once
    PROVE  packets' = packets /\ packets # {} /\ HeadAt(h + 1)' /\ \A q \in packets : q.pos > h
<1>1. packets' = packets /\ HeadMissing /\ next_expected_seq' = Succ(next_expected_seq)
  BY DEF flush_missing_once
<1>2. \A q \in packets : /\ q.pos \in Nat /\ q.seq = SeqOf(q.pos)
                         /\ h <= q.pos /\ q.pos < h + WindowSize
  BY DEF HeadAt
<1>3. next_expected_seq' = SeqOf(h + 1)
  BY <1>1, SuccSeqOf DEF HeadAt
<1>4. \A q \in packets : q.pos # h
  BY <1>1, <1>2 DEF HeadMissing, HeadStored, HeadAt
<1>5. \A q \in packets : q.pos > h /\ h + 1 <= q.pos /\ q.pos < h + 1 + WindowSize
  BY <1>2, <1>4, WindowAssumption
<1> QED
  BY <1>1, <1>2, <1>3, <1>5 DEF HeadAt, HeadMissing

\* The counters of the buffer keep their types.
LEMMA BufferStatsType ==
    ASSUME NEW h \in Nat, initialized => HeadAt(h), ~initialized => packets = {},
           next_expected_seq \in WireSeq, stats \in ReorderBufferStats
    PROVE  /\ \A p, ok : /\ p.pos \in Nat /\ p.seq = SeqOf(p.pos) /\ (initialized => Near(h, p.pos))
                         /\ ok \in BOOLEAN /\ push(p, ok)
                => stats' \in ReorderBufferStats
           /\ \A p : pop_next(p) => stats' \in ReorderBufferStats
           /\ pop_next_missing \/ flush_missing_once \/ reset => stats' \in ReorderBufferStats
<1>1. ASSUME NEW p, NEW ok \in BOOLEAN, p.pos \in Nat, p.seq = SeqOf(p.pos), initialized => Near(h, p.pos),
             push(p, ok)
      PROVE  stats' \in ReorderBufferStats
  <2> DEFINE counted == CountedPush
  <2>1. counted \in ReorderBufferStats
    BY DEF CountedPush, ReorderBufferStats
  <2>2. p.seq \in WireSeq
    BY <1>1, SeqOfType
  <2>3. CASE push_late(p)
    <3>1. stats' = [counted EXCEPT !.late_packets = @ + 1]
      BY <2>3 DEF push_late
    <3> HIDE DEF counted
    <3> QED
      BY <2>1, <3>1 DEF ReorderBufferStats
  <2>4. CASE push_in_window(p, ok)
    <3>1. \/ stats' = [counted EXCEPT !.packets_stored = @ + 1]
          \/ stats' = [counted EXCEPT !.duplicates = @ + 1]
          \/ stats' = counted
      BY <2>4 DEF push_in_window, StoreOrReject
    <3> HIDE DEF counted
    <3> QED
      BY <2>1, <3>1 DEF ReorderBufferStats
  <2>5. CASE push_resync(p, ok)
    <3>1. PICK e \in RecoveryExpected(p.seq) :
            StoreOrReject(p, e, KeptAfterAdvance(e), CountedResync(e), ok)
      BY <2>5 DEF push_resync
    <3>2. IsForwardOutOfWindow(p)
      BY <2>5 DEF push_resync
    <3>3. initialized
      BY <2>2, <3>2, WindowAssumption DEF IsForwardOutOfWindow, ExpectedFor, Dist, WireSeq
    <3>4. p.pos >= h + WindowSize
      BY <1>1, <3>2, <3>3, Classify
    <3>5. e \in RecoveryExpected(SeqOf(p.pos))
      BY <1>1
    <3>6. PICK t \in Nat : h <= t /\ Dist(e, next_expected_seq) = t - h
      BY <1>1, <3>3, <3>4, <3>5, HeadAfterResync
    <3>7. SkippedByAdvance(e) \in Nat
      BY <3>6 DEF SkippedByAdvance
    <3> DEFINE st == CountedResync(e)
    <3>8. st \in ReorderBufferStats
      BY <3>7, ResyncStats
    <3>9. \/ stats' = [st EXCEPT !.packets_stored = @ + 1]
          \/ stats' = [st EXCEPT !.duplicates = @ + 1]
          \/ stats' = st
      BY <3>1 DEF StoreOrReject
    <3> HIDE DEF st
    <3> QED
      BY <3>8, <3>9 DEF ReorderBufferStats
  <2> QED
    BY <1>1, <2>3, <2>4, <2>5 DEF push
<1>2. ASSUME NEW p, pop_next(p) PROVE stats' \in ReorderBufferStats
  BY <1>2 DEF pop_next, ReorderBufferStats
<1>3. pop_next_missing => stats' \in ReorderBufferStats
  BY DEF pop_next_missing, ReorderBufferStats
<1>4. flush_missing_once => stats' \in ReorderBufferStats
  BY DEF flush_missing_once, ReorderBufferStats
<1>5. reset => stats' \in ReorderBufferStats
  BY DEF reset, ZeroStats, ReorderBufferStats
<1> QED
  BY <1>1, <1>2, <1>3, <1>4, <1>5

=============================================================================
