----------------------- MODULE SynchronizedSinkProofs -----------------------
(***************************************************************************)
(* Proofs about the synchronized frame sink, for every delay, queue limit, *)
(* mapper configuration and number of frames and starts: one lemma per     *)
(* critical section.                                                       *)
(***************************************************************************)
EXTENDS SynchronizedSink, SequenceTheorems, FiniteSetTheorems, TLAPS

Counters == [offered : Nat, accepted : Nat, delivered : Nat, dropped : Nat]

\* The newest timestamp a mapper can have handed out.
NewestOf(cfg, m) == IF m.has_origin THEN TicksToNs(cfg, m.ticks) ELSE -1

-----------------------------------------------------------------------------
(* The operators.                                                          *)

\* Division with a rest.
LEMMA DivisionWithRest ==
    ASSUME NEW a \in Nat, NEW r \in Nat \ {0}
    PROVE  a \div r \in Nat /\ a % r \in 0 .. r - 1 /\ a = r * (a \div r) + (a % r)
<1>1. r \in Nat /\ r > 0
  OBVIOUS
<1>2. a \div r \in Nat
  BY <1>1
<1>3. a % r \in 0 .. r - 1
  BY <1>1
<1>4. a = r * (a \div r) + (a % r)
  BY <1>1
<1> QED
  BY <1>2, <1>3, <1>4

\* Of two quotients with one divisor, the larger dividend has the larger.
LEMMA QuotientsGrow ==
    ASSUME NEW a \in Nat, NEW b \in Nat, NEW r \in Nat \ {0}, a <= b
    PROVE  a \div r \in Nat /\ b \div r \in Nat /\ a \div r <= b \div r
<1> DEFINE p == a \div r
<1> DEFINE q == b \div r
<1> DEFINE c == a % r
<1> DEFINE d == b % r
<1>1. p \in Nat /\ c \in 0 .. r - 1 /\ a = r * p + c
  BY DivisionWithRest
<1>2. q \in Nat /\ d \in 0 .. r - 1 /\ b = r * q + d
  BY DivisionWithRest
<1> HIDE DEF p, q, c, d
<1>3. ASSUME q + 1 <= p PROVE FALSE
  <2>1. r * (q + 1) <= r * p /\ r * (q + 1) = r * q + r
    BY <1>1, <1>2, <1>3
  <2> DEFINE x == r * p
  <2> DEFINE y == r * q
  <2>2. x \in Nat /\ y \in Nat
    BY <1>1, <1>2
  <2>3. y + r <= x /\ a = x + c /\ b = y + d
    BY <1>1, <1>2, <2>1
  <2> HIDE DEF x, y
  <2> QED
    BY <1>1, <1>2, <2>2, <2>3
<1>4. p <= q
  BY <1>1, <1>2, <1>3
<1> QED
  BY <1>1, <1>2, <1>4 DEF p, q

\* The sum of whole seconds and the rounded rest does not shrink with the
\* ticks: a rest is less than a second.
LEMMA RoundedTicksGrow ==
    ASSUME NEW t \in Nat, NEW u \in Nat, t <= u, NEW r \in Nat \ {0}, NEW N \in Nat
    PROVE  LET x == (t \div r) * N + ((t % r) * N) \div r
               y == (u \div r) * N + ((u % r) * N) \div r
           IN  x \in Nat /\ y \in Nat /\ x <= y
<1> DEFINE p == t \div r
<1> DEFINE q == u \div r
<1> DEFINE c == t % r
<1> DEFINE d == u % r
<1> DEFINE f == (c * N) \div r
<1> DEFINE g == (d * N) \div r
<1>1. p \in Nat /\ q \in Nat /\ p <= q
  BY QuotientsGrow
<1>2. c \in 0 .. r - 1 /\ d \in 0 .. r - 1 /\ t = r * p + c /\ u = r * q + d
  BY DivisionWithRest
<1>3. c * N \in Nat /\ d * N \in Nat /\ r * N \in Nat /\ c * N <= r * N
  <2> HIDE DEF c, d
  <2> QED
    BY <1>2
<1>4. f \in Nat /\ g \in Nat
  <2> HIDE DEF c, d
  <2> QED
    BY <1>3, QuotientsGrow
<1>5. f <= N
  <2>1. f <= (r * N) \div r
    <3> HIDE DEF c, d
    <3> QED
      BY <1>3, QuotientsGrow
  <2>2. (r * N) \div r = N
    OBVIOUS
  <2> QED
    BY <2>1, <2>2
<1>6. p * N \in Nat /\ q * N \in Nat
  <2> HIDE DEF p, q
  <2> QED
    BY <1>1
<1>7. p * N + f <= q * N + g
  <2>1. CASE p = q
    <3>1. c <= d
      <4> HIDE DEF p, q, c, d
      <4> QED
        BY <1>1, <1>2, <2>1
    <3>2. c * N <= d * N
      <4> HIDE DEF c, d
      <4> QED
        BY <1>2, <3>1
    <3>3. f <= g
      <4> HIDE DEF c, d
      <4> QED
        BY <1>3, <3>2, QuotientsGrow
    <3> HIDE DEF p, q, f, g
    <3> QED
      BY <1>4, <1>6, <2>1, <3>3
  <2>2. CASE p # q
    <3>1. (p + 1) * N <= q * N /\ (p + 1) * N = p * N + N
      <4> HIDE DEF p, q
      <4> QED
        BY <1>1, <2>2
    <3> DEFINE m == p * N
    <3> DEFINE n == q * N
    <3> HIDE DEF m, n, f, g
    <3>2. m \in Nat /\ n \in Nat /\ m + N <= n
      BY <1>6, <3>1 DEF m, n
    <3>3. m + f <= n + g
      BY <1>4, <1>5, <3>2
    <3> QED
      BY <3>3 DEF m, n
  <2> QED
    BY <2>1, <2>2
<1>8. p * N + f \in Nat /\ q * N + g \in Nat
  <2> HIDE DEF p, q, f, g
  <2> QED
    BY <1>4, <1>6
<1> QED
  BY <1>7, <1>8

\* More ticks, a timestamp that is no earlier.
LEMMA TicksGrow ==
    ASSUME NEW cfg \in MapperConfigs, NEW t \in Nat, NEW u \in Nat, t <= u
    PROVE  TicksToNs(cfg, t) \in Nat /\ TicksToNs(cfg, u) \in Nat /\ TicksToNs(cfg, t) <= TicksToNs(cfg, u)
<1> DEFINE r == cfg.rate
<1> DEFINE base == IF cfg.configured_reference THEN cfg.anchor_ns ELSE 0
<1>1. r \in Nat \ {0} /\ base \in Nat /\ NsPerSecond \in Nat
  BY MapperAssumption DEF MapperConfigs
<1> DEFINE x == (t \div r) * NsPerSecond + ((t % r) * NsPerSecond) \div r
<1> DEFINE y == (u \div r) * NsPerSecond + ((u % r) * NsPerSecond) \div r
<1>2. x \in Nat /\ y \in Nat /\ x <= y
  <2> HIDE DEF r
  <2> QED
    BY <1>1, RoundedTicksGrow
<1>3. TicksToNs(cfg, t) = base + x /\ TicksToNs(cfg, u) = base + y
  BY DEF TicksToNs
<1> HIDE DEF r, base, x, y
<1> QED
  BY <1>1, <1>2, <1>3

\* map() never goes back: what it returns is its new newest timestamp, which
\* is no older than the one before, wraps and overflows included.
LEMMA MapperStep ==
    ASSUME NEW cfg \in MapperConfigs, NEW m \in Mappers, NEW rtp \in 0 .. RtpModulus - 1
    PROVE  LET after == MapperAfter(cfg, m, rtp) IN
           /\ after \in Mappers
           /\ NewestOf(cfg, m) \in Nat \cup {-1} /\ NewestOf(cfg, after) \in Nat \cup {-1}
           /\ NewestOf(cfg, m) <= NewestOf(cfg, after)
           /\ MapSucceeds(cfg, m, rtp) =>
                MappedNs(cfg, m, rtp) \in Nat /\ MappedNs(cfg, m, rtp) = NewestOf(cfg, after)
<1> DEFINE after == MapperAfter(cfg, m, rtp)
<1> DEFINE delta == MapDelta(cfg, m, rtp)
<1>1. RtpModulus \in Nat \ {0} /\ m.has_origin \in BOOLEAN /\ m.last_raw \in 0 .. RtpModulus - 1
      /\ m.ticks \in Nat /\ cfg.anchor_rtp \in 0 .. RtpModulus - 1
  BY MapperAssumption DEF Mappers, MapperConfigs
<1>2. delta \in Nat
  BY <1>1 DEF MapDelta, ForwardDelta
<1>3. m.ticks <= m.ticks + delta /\ m.ticks + delta \in Nat /\ 0 <= m.ticks
  <2> HIDE DEF delta
  <2> QED
    BY <1>1, <1>2
<1>4. /\ TicksToNs(cfg, m.ticks) \in Nat /\ TicksToNs(cfg, m.ticks + delta) \in Nat
      /\ TicksToNs(cfg, m.ticks) <= TicksToNs(cfg, m.ticks + delta)
  BY <1>1, <1>3, TicksGrow
<1>5. CASE BecomesOrigin(cfg, m)
  <2>1. /\ after = [ has_origin |-> TRUE, last_raw |-> rtp, ticks |-> 0 ]
        /\ MappedNs(cfg, m, rtp) = 0 /\ ~m.has_origin /\ ~cfg.configured_reference
    BY <1>5 DEF MapperAfter, MappedNs, BecomesOrigin
  <2>2. TicksToNs(cfg, 0) = 0
    <3>1. cfg.rate \in Nat \ {0} /\ NsPerSecond \in Nat
      BY MapperAssumption DEF MapperConfigs
    <3>2. 0 \div cfg.rate = 0 /\ 0 % cfg.rate = 0 /\ 0 * NsPerSecond = 0
      BY <3>1
    <3> QED
      BY <2>1, <3>2 DEF TicksToNs
  <2> QED
    BY <2>1, <2>2 DEF NewestOf, Mappers
<1>6. CASE ~BecomesOrigin(cfg, m) /\ DeltaAccepted(delta)
  <2>1. /\ after = [ has_origin |-> TRUE, last_raw |-> rtp, ticks |-> m.ticks + delta ]
        /\ MappedNs(cfg, m, rtp) = TicksToNs(cfg, m.ticks + delta)
    BY <1>6 DEF MapperAfter, MappedNs
  <2>2. after \in Mappers
    <3> HIDE DEF delta
    <3> QED
      BY <1>3, <2>1 DEF Mappers
  <2>3. /\ NewestOf(cfg, after) = TicksToNs(cfg, m.ticks + delta)
        /\ NewestOf(cfg, m) = TicksToNs(cfg, m.ticks) \/ NewestOf(cfg, m) = -1
    BY <2>1 DEF NewestOf
  <2> HIDE DEF delta, after
  <2> QED
    BY <1>4, <2>1, <2>2, <2>3 DEF after
<1>7. CASE ~BecomesOrigin(cfg, m) /\ ~DeltaAccepted(delta)
  <2>1. after = m /\ ~MapSucceeds(cfg, m, rtp)
    BY <1>7 DEF MapperAfter, MapSucceeds
  <2>2. NewestOf(cfg, m) \in Nat \cup {-1}
    BY <1>4 DEF NewestOf
  <2> QED
    BY <2>1, <2>2
<1> QED
  BY <1>5, <1>6, <1>7

\* insert_sorted_by_media_timestamp appends a timestamp no queued one exceeds.
LEMMA InsertAppends ==
    ASSUME NEW q \in Seq(Nat), NEW ts \in Nat, \A i \in 1 .. Len(q) : q[i] <= ts
    PROVE  InsertSorted(q, ts) = Append(q, ts)
<1>1. Len(q) \in Nat
  BY LenProperties
<1>2. { i \in 1 .. Len(q) : q[i] <= ts } = 1 .. Len(q)
  OBVIOUS
<1>3. Cardinality(1 .. Len(q)) = Len(q)
  <2>1. 1 \in Int /\ Len(q) \in Int /\ (1 > Len(q) => Len(q) = 0) /\ Len(q) - 1 + 1 = Len(q)
    BY <1>1
  <2> QED
    BY <2>1, FS_Interval
<1>4. SubSeq(q, 1, Len(q)) = q
  BY SubSeqFull
<1>5. SubSeq(q, Len(q) + 1, Len(q)) = <<>>
  BY <1>1, SubSeqEmpty
<1>6. InsertSorted(q, ts) = q \o <<ts>> \o <<>>
  BY <1>2, <1>3, <1>4, <1>5 DEF InsertSorted
<1>7. q \o <<ts>> = Append(q, ts) /\ Append(q, ts) \in Seq(Nat)
  BY AppendIsConcat, AppendProperties
<1> QED
  BY <1>6, <1>7, ConcatEmptySeq

\* trim_*_queue_locked keeps the newest items, as many as the limit allows.
LEMMA TrimKeepsNewest ==
    ASSUME NEW s \in Enabled, NEW q \in Seq(Nat)
    PROVE  /\ Trim(s, q) \in Seq(Nat)
           /\ Len(Trim(s, q)) \in Nat /\ Len(Trim(s, q)) <= MaxQueued[s] /\ Len(Trim(s, q)) <= Len(q)
           /\ \A i \in 1 .. Len(Trim(s, q)) :
                /\ i + (Len(q) - Len(Trim(s, q))) \in 1 .. Len(q)
                /\ Trim(s, q)[i] = q[i + (Len(q) - Len(Trim(s, q)))]
<1>1. Len(q) \in Nat /\ MaxQueued[s] \in Nat /\ \A i \in 1 .. Len(q) : q[i] \in Nat
  BY SinkAssumption, LenProperties, ElementOfSeq
<1>2. CASE Len(q) > MaxQueued[s]
  <2> DEFINE m == Len(q) - MaxQueued[s] + 1
  <2>1. m \in Int /\ Len(q) \in Int /\ \A i \in m .. Len(q) : q[i] \in Nat
    BY <1>1, <1>2
  <2>2. Trim(s, q) = SubSeq(q, m, Len(q))
    BY <1>2 DEF Trim
  <2>3. /\ Trim(s, q) \in Seq(Nat)
        /\ Len(Trim(s, q)) = IF m <= Len(q) THEN Len(q) - m + 1 ELSE 0
        /\ \A i \in 1 .. Len(q) - m + 1 : Trim(s, q)[i] = q[m + i - 1]
    BY <2>1, <2>2, SubSeqProperties
  <2>4. Len(Trim(s, q)) = MaxQueued[s] /\ Len(q) - m + 1 = MaxQueued[s]
    BY <1>1, <1>2, <2>3
  <2>5. \A i \in 1 .. MaxQueued[s] : m + i - 1 = i + (Len(q) - MaxQueued[s]) /\ m + i - 1 \in 1 .. Len(q)
    BY <1>1, <1>2
  <2> HIDE DEF m
  <2> QED
    BY <1>1, <1>2, <2>3, <2>4, <2>5
<1>3. CASE ~(Len(q) > MaxQueued[s])
  <2>1. Trim(s, q) = q
    BY <1>3 DEF Trim
  <2> QED
    BY <1>1, <1>3, <2>1
<1> QED
  BY <1>2, <1>3

\* A refused frame is counted as offered and as dropped.
LEMMA BumpDropped ==
    ASSUME counters \in [Enabled -> Counters], NEW s \in Enabled, NEW c, c = Bump(s, "dropped", 1)
    PROVE  /\ c \in [Enabled -> Counters]
           /\ \A r \in Enabled \ {s} : c[r] = counters[r]
           /\ c[s].offered = counters[s].offered + 1
           /\ c[s].delivered = counters[s].delivered
           /\ c[s].dropped = counters[s].dropped + 1
<1> DEFINE x == [counters EXCEPT ![s].dropped = counters[s].dropped + 1]
<1>1. /\ x \in [Enabled -> Counters] /\ x[s].dropped = counters[s].dropped + 1
      /\ x[s].delivered = counters[s].delivered
      /\ \A r \in Enabled \ {s} : x[r] = counters[r]
  BY DEF Counters
<1>2. c = [x EXCEPT ![s].offered = counters[s].offered + 1]
  BY DEF Bump
<1>3. counters[s].offered + 1 \in Nat
  BY DEF Counters
<1> HIDE DEF x
<1> QED
  BY <1>1, <1>2, <1>3 DEF Counters

\* An accepted frame is counted as offered and accepted, those it displaces
\* as dropped.
LEMMA BumpAccepted ==
    ASSUME counters \in [Enabled -> Counters], NEW s \in Enabled, NEW m \in Nat, NEW n \in Nat, n <= m,
           NEW c, c = [Bump(s, "accepted", 1) EXCEPT ![s].dropped = Bump(s, "accepted", 1)[s].dropped + m - n]
    PROVE  /\ c \in [Enabled -> Counters]
           /\ \A r \in Enabled \ {s} : c[r] = counters[r]
           /\ c[s].offered = counters[s].offered + 1
           /\ c[s].delivered = counters[s].delivered
           /\ c[s].dropped = counters[s].dropped + (m - n)
<1>1. counters[s] \in Counters /\ counters[s].dropped \in Nat
  BY DEF Counters
<1> DEFINE x == [counters EXCEPT ![s].accepted = counters[s].accepted + 1]
<1> DEFINE y == [x EXCEPT ![s].offered = counters[s].offered + 1]
<1>2. /\ x \in [Enabled -> Counters]
      /\ x[s].delivered = counters[s].delivered /\ x[s].dropped = counters[s].dropped
      /\ \A r \in Enabled \ {s} : x[r] = counters[r]
  BY DEF Counters
<1>3. counters[s].offered + 1 \in Nat
  BY DEF Counters
<1>4. Bump(s, "accepted", 1) = y
  BY DEF Bump
<1> HIDE DEF x
<1>5. /\ y \in [Enabled -> Counters] /\ y[s].offered = counters[s].offered + 1
      /\ y[s].delivered = counters[s].delivered /\ y[s].dropped = counters[s].dropped
      /\ \A r \in Enabled \ {s} : y[r] = counters[r]
  BY <1>2, <1>3 DEF Counters
<1> HIDE DEF y
<1> DEFINE v == counters[s].dropped + (m - n)
<1>6. counters[s].dropped + m - n = v /\ v \in Nat
  BY <1>1
<1> HIDE DEF v
<1>7. c = [y EXCEPT ![s].dropped = v]
  BY <1>4, <1>5, <1>6
<1> DEFINE z == [y[s] EXCEPT !.dropped = v]
<1>a. z \in Counters /\ z.offered = y[s].offered /\ z.delivered = y[s].delivered /\ z.dropped = v
  BY <1>5, <1>6 DEF Counters
<1>b. c = [y EXCEPT ![s] = z]
  BY <1>7
<1> HIDE DEF z
<1>8. /\ c \in [Enabled -> Counters] /\ c[s].offered = y[s].offered /\ c[s].delivered = y[s].delivered
      /\ c[s].dropped = v /\ \A r \in Enabled \ {s} : c[r] = y[r]
  BY <1>5, <1>a, <1>b
<1> QED
  BY <1>5, <1>8 DEF v

\* An optional value has no member or one.
LEMMA CountItem ==
    ASSUME NEW S, \A a, b \in S : a = b
    PROVE  /\ S = {} => Cardinality(S) = 0
           /\ S # {} => Cardinality(S) = 1
<1>1. CASE S = {}
  BY <1>1, FS_EmptySet
<1>2. CASE S # {}
  <2>1. PICK x \in S : S = {x}
    BY <1>2
  <2> QED
    BY <2>1, FS_Singleton
<1> QED
  BY <1>1, <1>2

\* The items of stream s in delivery.
InDelivery(s) == Cardinality({ it \in item : it.stream = s })

-----------------------------------------------------------------------------
\* A sink that has never been started.
LEMMA InitSink == Init => SinkInv
<1> SUFFICES ASSUME Init PROVE SinkInv
  OBVIOUS
<1>1. SinkTypes
  <2>1. NewMapper \in Mappers
    BY MapperAssumption DEF NewMapper, Mappers
  <2>2. ZeroCounters \in Counters
    BY DEF ZeroCounters, Counters
  <2>3. <<>> \in Seq(Nat)
    BY EmptySeq
  <2>4. counters \in [Enabled -> Counters]
    BY <2>2 DEF Init
  <2>5. mapper \in [Enabled -> Mappers] /\ queue \in [Enabled -> Seq(Nat)]
    BY <2>1, <2>3 DEF Init
  <2>6. /\ source_time \in [Enabled -> Nat] /\ uncounted \in [Enabled -> Nat]
        /\ last_ts \in [Enabled -> Nat \cup {-1}] /\ starts \in Nat /\ now \in Nat
    BY DEF Init
  <2>7. running \in BOOLEAN /\ stop_requested \in BOOLEAN /\ output_error \in BOOLEAN
    BY DEF Init
  <2>8. anchor = {} /\ item = {}
    BY DEF Init
  <2> QED
    BY <2>4, <2>5, <2>6, <2>7, <2>8 DEF SinkTypes, Counters
<1>2. TypeOK
  BY SinkAssumption, FS_EmptySet DEF Init, TypeOK
<1>3. MediaOrder
  BY DEF Init, MediaOrder, Newest, NewMapper
<1>4. ItemConservation
  <2>1. \A s \in Enabled : { it \in item : it.stream = s } = {}
    BY DEF Init
  <2> QED
    BY <1>2, <2>1, FS_EmptySet DEF Init, ItemConservation, ZeroCounters
<1> QED
  BY <1>1, <1>3, <1>4 DEF Init, SinkInv, Lifecycle, QueuedAnchored, NeverEarly, ErrorStopsSink

\* What every part of the invariant needs of the types.
LEMMA SinkFacts ==
    ASSUME SinkInv
    PROVE  /\ TypeOK /\ SinkTypes
           /\ counters \in [Enabled -> Counters] /\ queue \in [Enabled -> Seq(Nat)]
           /\ \A s \in Enabled :
                /\ queue[s] \in Seq(Nat) /\ Len(queue[s]) \in Nat
                /\ \A i \in 1 .. Len(queue[s]) : queue[s][i] \in Nat
                /\ counters[s] \in Counters /\ counters[s].offered \in Nat
                /\ counters[s].delivered \in Nat /\ counters[s].dropped \in Nat
                /\ mapper[s] \in Mappers /\ MapperConfig[s] \in MapperConfigs
                /\ last_ts[s] \in Nat \cup {-1} /\ uncounted[s] \in Nat /\ source_time[s] \in Nat
                /\ Newest(s) = NewestOf(MapperConfig[s], mapper[s]) /\ Newest(s) \in Nat \cup {-1}
                /\ InDelivery(s) \in Nat
<1>1. TypeOK /\ SinkTypes /\ counters \in [Enabled -> Counters] /\ queue \in [Enabled -> Seq(Nat)]
  BY DEF SinkInv, ItemConservation, SinkTypes, Counters
<1> SUFFICES ASSUME NEW s \in Enabled
             PROVE  /\ queue[s] \in Seq(Nat) /\ Len(queue[s]) \in Nat
                    /\ \A i \in 1 .. Len(queue[s]) : queue[s][i] \in Nat
                    /\ counters[s] \in Counters /\ counters[s].offered \in Nat
                    /\ counters[s].delivered \in Nat /\ counters[s].dropped \in Nat
                    /\ mapper[s] \in Mappers /\ MapperConfig[s] \in MapperConfigs
                    /\ last_ts[s] \in Nat \cup {-1} /\ uncounted[s] \in Nat /\ source_time[s] \in Nat
                    /\ Newest(s) = NewestOf(MapperConfig[s], mapper[s]) /\ Newest(s) \in Nat \cup {-1}
                    /\ InDelivery(s) \in Nat
  BY <1>1
<1>2. queue[s] \in Seq(Nat)
  BY <1>1
<1>3. Len(queue[s]) \in Nat /\ \A i \in 1 .. Len(queue[s]) : queue[s][i] \in Nat
  BY <1>2, LenProperties, ElementOfSeq
<1>4. /\ counters[s] \in Counters /\ counters[s].offered \in Nat
      /\ counters[s].delivered \in Nat /\ counters[s].dropped \in Nat
  BY <1>1 DEF Counters
<1>5. /\ mapper[s] \in Mappers /\ MapperConfig[s] \in MapperConfigs
      /\ last_ts[s] \in Nat \cup {-1} /\ uncounted[s] \in Nat /\ source_time[s] \in Nat
  BY <1>1, SinkAssumption DEF SinkTypes
<1>6. Newest(s) = NewestOf(MapperConfig[s], mapper[s])
  BY DEF Newest, NewestOf
<1>7. NewestOf(MapperConfig[s], mapper[s]) \in Nat \cup {-1}
  <2>1. mapper[s].ticks \in Nat /\ mapper[s].ticks <= mapper[s].ticks
    BY <1>5 DEF Mappers
  <2>2. TicksToNs(MapperConfig[s], mapper[s].ticks) \in Nat
    BY <1>5, <2>1, TicksGrow
  <2> QED
    BY <2>2 DEF NewestOf
<1>8. InDelivery(s) \in Nat
  <2>1. \A a, b \in { it \in item : it.stream = s } : a = b
    BY <1>1 DEF SinkTypes
  <2> QED
    BY <2>1, CountItem DEF InDelivery
<1> QED
  BY <1>2, <1>3, <1>4, <1>5, <1>6, <1>7, <1>8

-----------------------------------------------------------------------------
(* The receive threads.                                                    *)

\* What on_*_frame leaves alone.
IntakeFrame ==
    UNCHANGED <<ctl, starts, running, stop_requested, output_error, thread, deadline,
                item, now, uncounted, last_ts>>

\* A frame that is not accepted changes the mapper and two counters at most.
LEMMA FrameRefusedInv ==
    ASSUME SinkInv, NEW s \in Enabled, NEW rtp \in 0 .. RtpModulus - 1,
           OnFrameRejected(s) \/ OnFrameUnmapped(s, rtp),
           IntakeFrame, source_time' \in [Enabled -> Nat]
    PROVE  SinkInv' /\ \A r \in Enabled : counters'[r].delivered = counters[r].delivered
<1>0. /\ UNCHANGED <<queue, anchor, ctl, starts, running, stop_requested, output_error, thread, deadline,
                     item, now, uncounted, last_ts>>
      /\ counters' = Bump(s, "dropped", 1)
      /\ mapper' = mapper \/ mapper' = [mapper EXCEPT ![s] = MapperAfter(MapperConfig[s], mapper[s], rtp)]
  BY DEF IntakeFrame, OnFrameRejected, OnFrameUnmapped
<1>c. /\ counters' \in [Enabled -> Counters]
      /\ \A r \in Enabled \ {s} : counters'[r] = counters[r]
      /\ counters'[s].offered = counters[s].offered + 1
      /\ counters'[s].delivered = counters[s].delivered
      /\ counters'[s].dropped = counters[s].dropped + 1
  BY <1>0, SinkFacts, BumpDropped
<1>m. /\ mapper' \in [Enabled -> Mappers]
      /\ \A r \in Enabled : Newest(r)' \in Nat \cup {-1} /\ Newest(r) <= Newest(r)'
  <2>1. mapper \in [Enabled -> Mappers]
    BY SinkFacts DEF SinkTypes
  <2>2. CASE mapper' = mapper
    BY <2>1, <2>2, SinkFacts DEF Newest
  <2>3. CASE mapper' = [mapper EXCEPT ![s] = MapperAfter(MapperConfig[s], mapper[s], rtp)]
    <3>1. /\ MapperAfter(MapperConfig[s], mapper[s], rtp) \in Mappers
          /\ NewestOf(MapperConfig[s], MapperAfter(MapperConfig[s], mapper[s], rtp)) \in Nat \cup {-1}
          /\ NewestOf(MapperConfig[s], mapper[s])
               <= NewestOf(MapperConfig[s], MapperAfter(MapperConfig[s], mapper[s], rtp))
      BY SinkFacts, MapperStep
    <3>2. \A r \in Enabled : mapper'[r] = IF r = s THEN MapperAfter(MapperConfig[s], mapper[s], rtp) ELSE mapper[r]
      BY <2>1, <2>3
    <3>3. \A r \in Enabled : Newest(r)' = NewestOf(MapperConfig[r], mapper'[r])
      BY DEF Newest, NewestOf
    <3>4. mapper' \in [Enabled -> Mappers]
      BY <2>1, <2>3, <3>1
    <3>5. \A r \in Enabled : Newest(r) = NewestOf(MapperConfig[r], mapper[r]) /\ Newest(r) \in Nat \cup {-1}
      BY SinkFacts
    <3> QED
      BY <3>1, <3>2, <3>3, <3>4, <3>5
  <2> QED
    BY <1>0, <2>2, <2>3
<1>1. SinkTypes'
  BY <1>0, <1>c, <1>m, SinkFacts DEF SinkTypes, Counters
<1>2. TypeOK'
  BY <1>0, SinkFacts DEF TypeOK
<1>3. Lifecycle' /\ QueuedAnchored' /\ NeverEarly' /\ ErrorStopsSink'
  BY <1>0 DEF SinkInv, Lifecycle, QueuedAnchored, NeverEarly, ErrorStopsSink
<1>4. MediaOrder'
  <2>1. \A r \in Enabled :
          /\ Newest(r) \in Nat \cup {-1} /\ last_ts[r] \in Nat \cup {-1}
          /\ \A i \in 1 .. Len(queue[r]) : queue[r][i] \in Nat
    BY SinkFacts
  <2>2. \A it \in item : it.ts \in Nat
    BY SinkFacts DEF TypeOK
  <2> SUFFICES ASSUME NEW r \in Enabled
               PROVE  /\ last_ts[r] <= Newest(r)'
                      /\ \A i \in 1 .. Len(queue[r]) : last_ts[r] <= queue[r][i] /\ queue[r][i] <= Newest(r)'
                      /\ \A i, j \in 1 .. Len(queue[r]) : i <= j => queue[r][i] <= queue[r][j]
                      /\ \A it \in item : it.stream = r =>
                           /\ last_ts[r] <= it.ts /\ it.ts <= Newest(r)'
                           /\ \A i \in 1 .. Len(queue[r]) : it.ts <= queue[r][i]
    BY <1>0 DEF MediaOrder
  <2>3. /\ last_ts[r] <= Newest(r)
        /\ \A i \in 1 .. Len(queue[r]) : last_ts[r] <= queue[r][i] /\ queue[r][i] <= Newest(r)
        /\ \A i, j \in 1 .. Len(queue[r]) : i <= j => queue[r][i] <= queue[r][j]
        /\ \A it \in item : it.stream = r =>
             /\ last_ts[r] <= it.ts /\ it.ts <= Newest(r)
             /\ \A i \in 1 .. Len(queue[r]) : it.ts <= queue[r][i]
    BY DEF SinkInv, MediaOrder
  <2>4. Newest(r) \in Int /\ Newest(r)' \in Int /\ Newest(r) <= Newest(r)'
    BY <1>m, <2>1
  <2>5. \A x \in Nat \cup {-1} : x <= Newest(r) => x <= Newest(r)'
    BY <2>4
  <2> QED
    BY <2>1, <2>2, <2>3, <2>5
<1>5. ItemConservation'
  <2> SUFFICES ASSUME NEW r \in Enabled
               PROVE  counters'[r].offered = counters'[r].delivered + counters'[r].dropped + Len(queue[r])
                                              + InDelivery(r) + uncounted[r]
    BY <1>0, <1>2 DEF ItemConservation, InDelivery
  <2>1. counters[r].offered = counters[r].delivered + counters[r].dropped + Len(queue[r])
                               + InDelivery(r) + uncounted[r]
    BY DEF SinkInv, ItemConservation, InDelivery
  <2>2. /\ counters[r].delivered \in Nat /\ counters[r].dropped \in Nat /\ Len(queue[r]) \in Nat
        /\ InDelivery(r) \in Nat /\ uncounted[r] \in Nat /\ counters[r].offered \in Nat
    BY SinkFacts
  <2>3. CASE r = s
    <3> DEFINE a == counters[s].offered
    <3> DEFINE d == counters[s].delivered
    <3> DEFINE p == counters[s].dropped
    <3> DEFINE l == Len(queue[s])
    <3> DEFINE i == InDelivery(s)
    <3> DEFINE u == uncounted[s]
    <3>1. a = d + p + l + i + u /\ a \in Nat /\ d \in Nat /\ p \in Nat /\ l \in Nat /\ i \in Nat /\ u \in Nat
      BY <2>1, <2>2, <2>3
    <3>2. counters'[s].offered = a + 1 /\ counters'[s].delivered = d /\ counters'[s].dropped = p + 1
      BY <1>c
    <3> HIDE DEF a, d, p, l, i, u
    <3>3. a + 1 = d + (p + 1) + l + i + u
      BY <3>1
    <3> QED
      BY <2>3, <3>2, <3>3 DEF l, i, u
  <2>4. CASE r # s
    BY <1>c, <2>1, <2>4
  <2> QED
    BY <2>3, <2>4
<1> QED
  BY <1>c, <1>1, <1>3, <1>4, <1>5 DEF SinkInv

\* An accepted frame is appended to its queue, whose oldest items make room.
LEMMA FrameAcceptedInv ==
    ASSUME SinkInv, NEW s \in Enabled, NEW rtp \in 0 .. RtpModulus - 1,
           OnFrameAccepted(s, rtp), IntakeFrame, source_time' \in [Enabled -> Nat]
    PROVE  SinkInv' /\ \A r \in Enabled : counters'[r].delivered = counters[r].delivered
<1> DEFINE ts == MappedNs(MapperConfig[s], mapper[s], rtp)
<1> DEFINE after == MapperAfter(MapperConfig[s], mapper[s], rtp)
<1> DEFINE q == queue[s]
<1> DEFINE full == Append(q, ts)
<1> DEFINE kept == Trim(s, full)
<1>t. /\ q \in Seq(Nat) /\ Len(q) \in Nat /\ mapper \in [Enabled -> Mappers]
      /\ queue \in [Enabled -> Seq(Nat)] /\ MapperConfig[s] \in MapperConfigs /\ mapper[s] \in Mappers
      /\ now \in Nat /\ PlayoutDelay \in Nat /\ running /\ ~output_error
  BY SinkFacts, SinkAssumption DEF SinkTypes, OnFrameAccepted
<1>m. /\ after \in Mappers /\ ts \in Nat /\ ts = NewestOf(MapperConfig[s], after)
      /\ Newest(s) \in Nat \cup {-1} /\ Newest(s) <= ts
  <2>1. Newest(s) = NewestOf(MapperConfig[s], mapper[s])
    BY SinkFacts
  <2>2. MapSucceeds(MapperConfig[s], mapper[s], rtp)
    BY DEF OnFrameAccepted
  <2> QED
    BY <1>t, <2>1, <2>2, MapperStep
<1>a. InsertSorted(q, ts) = Append(q, ts)
  <2>1. \A i \in 1 .. Len(q) : q[i] \in Nat /\ q[i] <= Newest(s)
    BY SinkFacts DEF SinkInv, MediaOrder
  <2>2. \A i \in 1 .. Len(q) : q[i] <= ts
    BY <1>m, <2>1
  <2> QED
    BY <1>t, <1>m, <2>2, InsertAppends
<1>0. /\ UNCHANGED <<ctl, starts, running, stop_requested, output_error, thread, deadline,
                     item, now, uncounted, last_ts>>
      /\ mapper' = [mapper EXCEPT ![s] = after]
      /\ anchor' = AnchorFor(ts)
      /\ queue' = [queue EXCEPT ![s] = kept]
      /\ counters' = [Bump(s, "accepted", 1) EXCEPT ![s].dropped = @ + Len(full) - Len(kept)]
  BY <1>a DEF IntakeFrame, OnFrameAccepted
<1> HIDE DEF after, ts
<1>f. /\ full \in Seq(Nat) /\ Len(full) = Len(q) + 1
      /\ \A i \in 1 .. Len(q) : full[i] = q[i]
      /\ full[Len(q) + 1] = ts
  BY <1>t, <1>m, AppendProperties
<1>k. /\ kept \in Seq(Nat) /\ Len(kept) \in Nat /\ Len(kept) <= MaxQueued[s] /\ Len(kept) <= Len(full)
      /\ \A i \in 1 .. Len(kept) :
           i + (Len(full) - Len(kept)) \in 1 .. Len(full) /\ kept[i] = full[i + (Len(full) - Len(kept))]
  BY <1>f, TrimKeepsNewest
<1> HIDE DEF kept, q, full
<1> DEFINE n == Len(kept)
<1> DEFINE m == Len(full)
<1>x. /\ \A r \in Enabled \ {s} : queue'[r] = queue[r] /\ mapper'[r] = mapper[r]
      /\ queue'[s] = kept /\ mapper'[s] = after
      /\ queue' \in [Enabled -> Seq(Nat)] /\ mapper' \in [Enabled -> Mappers]
  BY <1>0, <1>k, <1>m, <1>t
<1>c. /\ counters' \in [Enabled -> Counters]
      /\ \A r \in Enabled \ {s} : counters'[r] = counters[r]
      /\ counters'[s].offered = counters[s].offered + 1
      /\ counters'[s].delivered = counters[s].delivered
      /\ counters'[s].dropped = counters[s].dropped + (m - n)
  <2>1. m \in Nat /\ n \in Nat /\ n <= m
    BY <1>f, <1>k, <1>t
  <2> DEFINE b == Bump(s, "accepted", 1)
  <2>2. counters' = [b EXCEPT ![s].dropped = b[s].dropped + m - n]
    BY <1>0
  <2>3. counters \in [Enabled -> Counters]
    BY SinkFacts
  <2> HIDE DEF m, n, b
  <2>4. \A c : c = [b EXCEPT ![s].dropped = b[s].dropped + m - n] =>
             /\ c \in [Enabled -> Counters]
             /\ \A r \in Enabled \ {s} : c[r] = counters[r]
             /\ c[s].offered = counters[s].offered + 1
             /\ c[s].delivered = counters[s].delivered
             /\ c[s].dropped = counters[s].dropped + (m - n)
    BY <2>1, <2>3, BumpAccepted DEF b
  <2> QED
    BY <2>2, <2>4
<1>n. /\ anchor' # {} /\ (anchor # {} => anchor' = anchor)
      /\ anchor' \subseteq [ts : Nat, time : Nat]
      /\ \A a, b \in anchor' : a = b
  <2>1. anchor \subseteq [ts : Nat, time : Nat] /\ \A a, b \in anchor : a = b
    BY SinkFacts DEF TypeOK, SinkTypes
  <2>2. now + PlayoutDelay \in Nat
    BY <1>t
  <2> DEFINE a == [ts |-> ts, time |-> now + PlayoutDelay]
  <2>3. a \in [ts : Nat, time : Nat]
    BY <1>m, <2>2
  <2> HIDE DEF a
  <2>4. anchor' = IF anchor # {} THEN anchor ELSE {a}
    BY <1>0 DEF AnchorFor, a
  <2> QED
    BY <2>1, <2>3, <2>4
<1>1. SinkTypes'
  BY <1>0, <1>c, <1>x, <1>n, SinkFacts DEF SinkTypes, Counters
<1>2. TypeOK'
  <2>1. Cardinality(anchor') <= 1
    BY <1>n, CountItem
  <2>2. \A r \in Enabled : Len(queue'[r]) <= MaxQueued[r]
    BY <1>k, <1>x, SinkFacts DEF TypeOK
  <2> QED
    BY <1>0, <1>n, <2>1, <2>2, SinkFacts DEF TypeOK
<1>3. Lifecycle' /\ ErrorStopsSink'
  BY <1>0 DEF SinkInv, Lifecycle, ErrorStopsSink
<1>4. QueuedAnchored' /\ NeverEarly'
  BY <1>0, <1>n DEF SinkInv, QueuedAnchored, NeverEarly
<1>5. MediaOrder'
  <2> SUFFICES ASSUME NEW r \in Enabled
               PROVE  /\ last_ts[r] <= Newest(r)'
                      /\ \A i \in 1 .. Len(queue'[r]) : last_ts[r] <= queue'[r][i] /\ queue'[r][i] <= Newest(r)'
                      /\ \A i, j \in 1 .. Len(queue'[r]) : i <= j => queue'[r][i] <= queue'[r][j]
                      /\ \A it \in item : it.stream = r =>
                           /\ last_ts[r] <= it.ts /\ it.ts <= Newest(r)'
                           /\ \A i \in 1 .. Len(queue'[r]) : it.ts <= queue'[r][i]
    BY <1>0 DEF MediaOrder
  <2>1. /\ last_ts[r] <= Newest(r)
        /\ \A i \in 1 .. Len(queue[r]) : last_ts[r] <= queue[r][i] /\ queue[r][i] <= Newest(r)
        /\ \A i, j \in 1 .. Len(queue[r]) : i <= j => queue[r][i] <= queue[r][j]
        /\ \A it \in item : it.stream = r =>
             /\ last_ts[r] <= it.ts /\ it.ts <= Newest(r)
             /\ \A i \in 1 .. Len(queue[r]) : it.ts <= queue[r][i]
    BY DEF SinkInv, MediaOrder
  <2>2. CASE r # s
    <3>1. queue'[r] = queue[r] /\ Newest(r)' = Newest(r)
      BY <1>x, <2>2 DEF Newest
    <3> QED
      BY <2>1, <3>1
  <2>3. CASE r = s
    <3>1. Newest(r)' = ts /\ queue[r] = q /\ queue'[r] = kept
      BY <1>m, <1>x, <2>3 DEF Newest, NewestOf, q
    <3>2. last_ts[r] \in Nat \cup {-1} /\ \A it \in item : it.ts \in Nat
      BY SinkFacts DEF TypeOK
    <3>3. last_ts[r] <= ts /\ \A it \in item : it.stream = r => it.ts <= ts
      BY <1>m, <2>1, <2>3, <3>2
    <3>4. \A i \in 1 .. Len(q) : q[i] \in Nat /\ q[i] <= ts
      BY <1>m, <2>1, <2>3, <3>1, SinkFacts
    <3>5. \A i \in 1 .. m : (i \in 1 .. Len(q) /\ full[i] = q[i]) \/ (i = Len(q) + 1 /\ full[i] = ts)
      <4>1. Len(q) \in Nat /\ m = Len(q) + 1
        BY <1>f, <1>t
      <4>2. ASSUME NEW i \in 1 .. m PROVE i \in 1 .. Len(q) \/ i = Len(q) + 1
        BY ONLY <4>1, <4>2
      <4> QED
        BY <1>f, <4>2
    <3>6. \A i \in 1 .. m : last_ts[r] <= full[i] /\ full[i] <= ts
      BY <1>m, <2>1, <3>1, <3>3, <3>4, <3>5
    <3>7. \A i, j \in 1 .. m : i <= j => full[i] <= full[j]
      <4> SUFFICES ASSUME NEW i \in 1 .. m, NEW j \in 1 .. m, i <= j PROVE full[i] <= full[j]
        OBVIOUS
      <4>1. CASE j = Len(q) + 1
        BY <3>5, <3>6, <1>f, <4>1
      <4>2. CASE j # Len(q) + 1
        <5>1. i \in 1 .. Len(q) /\ j \in 1 .. Len(q)
          BY <1>f, <1>t, <4>2
        <5> QED
          BY <2>1, <3>1, <5>1, <1>f
      <4> QED
        BY <4>1, <4>2
    <3>8. \A it \in item : it.stream = r => \A i \in 1 .. m : it.ts <= full[i]
      BY <2>1, <3>1, <3>3, <3>5
    <3>9. ASSUME NEW i \in 1 .. n, NEW j \in 1 .. n, i <= j PROVE kept[i] <= kept[j]
      <4>1. i + (m - n) \in 1 .. m /\ j + (m - n) \in 1 .. m
        BY <1>k
      <4>2. i + (m - n) <= j + (m - n)
        BY <1>f, <1>k, <1>t, <3>9
      <4> QED
        BY <1>k, <3>7, <4>1, <4>2
    <3>10. ASSUME NEW i \in 1 .. n
           PROVE  /\ last_ts[r] <= kept[i] /\ kept[i] <= ts
                  /\ \A it \in item : it.stream = r => it.ts <= kept[i]
      <4>1. PICK k \in 1 .. m : kept[i] = full[k]
        BY <1>k
      <4> QED
        BY <3>6, <3>8, <4>1
    <3>11. queue'[r] = kept /\ Len(queue'[r]) = n
      BY <3>1
    <3> HIDE DEF n, m
    <3>12. \A i, j \in 1 .. n : i <= j => kept[i] <= kept[j]
      BY <3>9
    <3>13. \A i \in 1 .. n : last_ts[r] <= kept[i] /\ kept[i] <= ts
      BY <3>10
    <3>14. \A it \in item : it.stream = r =>
             last_ts[r] <= it.ts /\ it.ts <= ts /\ \A i \in 1 .. n : it.ts <= kept[i]
      BY <2>1, <3>3, <3>10
    <3> QED
      BY <3>1, <3>3, <3>11, <3>12, <3>13, <3>14, Zenon
  <2> QED
    BY <2>2, <2>3
<1>6. ItemConservation'
  <2> SUFFICES ASSUME NEW r \in Enabled
               PROVE  counters'[r].offered = counters'[r].delivered + counters'[r].dropped + Len(queue'[r])
                                              + InDelivery(r) + uncounted[r]
    BY <1>0, <1>2 DEF ItemConservation, InDelivery
  <2>1. counters[r].offered = counters[r].delivered + counters[r].dropped + Len(queue[r])
                               + InDelivery(r) + uncounted[r]
    BY DEF SinkInv, ItemConservation, InDelivery
  <2>2. /\ counters[r].delivered \in Nat /\ counters[r].dropped \in Nat /\ Len(queue[r]) \in Nat
        /\ InDelivery(r) \in Nat /\ uncounted[r] \in Nat /\ counters[r].offered \in Nat
    BY SinkFacts
  <2>3. CASE r = s
    <3> DEFINE a == counters[s].offered
    <3> DEFINE d == counters[s].delivered
    <3> DEFINE p == counters[s].dropped
    <3> DEFINE l == Len(queue[s])
    <3> DEFINE i == InDelivery(s)
    <3> DEFINE u == uncounted[s]
    <3>1. a = d + p + l + i + u /\ a \in Nat /\ d \in Nat /\ p \in Nat /\ l \in Nat /\ i \in Nat /\ u \in Nat
      BY <2>1, <2>2, <2>3
    <3>2. counters'[s].offered = a + 1 /\ counters'[s].delivered = d /\ counters'[s].dropped = p + (m - n)
      BY <1>c
    <3>3. m = l + 1 /\ Len(queue'[s]) = n /\ n \in Nat
      BY <1>f, <1>k, <1>x DEF q
    <3> HIDE DEF a, d, p, l, i, u, m, n
    <3>4. a + 1 = d + (p + (m - n)) + n + i + u
      BY <3>1, <3>3
    <3> QED
      BY <2>3, <3>2, <3>3, <3>4 DEF i, u
  <2>4. CASE r # s
    BY <1>c, <1>x, <2>1, <2>4
  <2> QED
    BY <2>3, <2>4
<1> QED
  BY <1>c, <1>1, <1>3, <1>4, <1>5, <1>6 DEF SinkInv

\* A frame from a receive thread keeps the invariant and delivers nothing.
LEMMA OnFrameInv ==
    ASSUME SinkInv, NEW s \in Enabled, NEW step \in FrameSteps, OnFrame(s, step)
    PROVE  SinkInv' /\ \A r \in Enabled : counters'[r].delivered = counters[r].delivered
<1>1. IntakeFrame /\ source_time' = [source_time EXCEPT ![s] = @ + step]
  BY DEF OnFrame, IntakeFrame
<1>2. step \in Nat /\ RtpModulus \in Nat \ {0} /\ source_time \in [Enabled -> Nat] /\ source_time[s] \in Nat
  BY SinkAssumption, MapperAssumption, SinkFacts DEF SinkTypes
<1>3. source_time' \in [Enabled -> Nat]
  BY <1>1, <1>2
<1>4. \A x \in Nat : x % RtpModulus \in 0 .. RtpModulus - 1
  BY <1>2
<1>5. source_time[s] + step \in Nat /\ source_time[s] + RtpModulus - 1 \in Nat
  BY <1>2
<1>6. PICK rtp \in { (source_time[s] + step) % RtpModulus }
             \cup (IF Backwards THEN { (source_time[s] + RtpModulus - 1) % RtpModulus } ELSE {}) :
        OnFrameRejected(s) \/ OnFrameUnmapped(s, rtp) \/ OnFrameAccepted(s, rtp)
  BY DEF OnFrame
<1>7. rtp \in 0 .. RtpModulus - 1
  BY <1>4, <1>5
<1> QED
  BY <1>1, <1>3, <1>6, <1>7, FrameRefusedInv, FrameAcceptedInv

-----------------------------------------------------------------------------
(* The control thread and the clock.                                       *)

\* What is thrown away with the queues is accounted for and leaves nothing
\* out of order, as long as no item is in delivery.
LEMMA DiscardInv ==
    ASSUME SinkInv, item = {}, Discard, UNCHANGED <<mapper, counters, item, now, source_time, last_ts>>,
           anchor' = {}
    PROVE  /\ queue' \in [Enabled -> Seq(Nat)] /\ uncounted' \in [Enabled -> Nat]
           /\ \A s \in Enabled : queue'[s] = <<>> /\ Len(queue'[s]) <= MaxQueued[s]
           /\ MediaOrder' /\ QueuedAnchored' /\ NeverEarly'
           /\ \A s \in Enabled :
                counters'[s].offered =
                    counters'[s].delivered + counters'[s].dropped + Len(queue'[s])
                      + Cardinality({ it \in item' : it.stream = s }) + uncounted'[s]
<1>1. \A s \in Enabled : queue'[s] = <<>> /\ uncounted'[s] = uncounted[s] + Len(queue[s])
  BY DEF Discard
<1>2. queue' \in [Enabled -> Seq(Nat)]
  BY EmptySeq DEF Discard
<1>3. uncounted' \in [Enabled -> Nat]
  <2>1. \A s \in Enabled : uncounted[s] + Len(queue[s]) \in Nat
    BY SinkFacts
  <2> QED
    BY <2>1 DEF Discard
<1>4. \A s \in Enabled : Len(queue'[s]) <= MaxQueued[s]
  BY <1>1, SinkAssumption
<1>5. MediaOrder'
  <2>1. \A s \in Enabled : Newest(s)' = Newest(s)
    BY DEF Newest
  <2> QED
    BY <1>1, <2>1 DEF SinkInv, MediaOrder
<1>6. QueuedAnchored' /\ NeverEarly'
  BY <1>1 DEF QueuedAnchored, NeverEarly
<1>7. ASSUME NEW s \in Enabled
      PROVE  counters'[s].offered =
                counters'[s].delivered + counters'[s].dropped + Len(queue'[s])
                  + Cardinality({ it \in item' : it.stream = s }) + uncounted'[s]
  <2>1. { it \in item' : it.stream = s } = {} /\ Cardinality({}) = 0
    BY FS_EmptySet
  <2>2. counters[s].offered = counters[s].delivered + counters[s].dropped + Len(queue[s]) + 0 + uncounted[s]
    BY <2>1 DEF SinkInv, ItemConservation
  <2>3. /\ counters[s].delivered \in Nat /\ counters[s].dropped \in Nat /\ Len(queue[s]) \in Nat
        /\ uncounted[s] \in Nat /\ Len(queue'[s]) = 0
    BY <1>1, SinkFacts
  <2>4. counters[s].offered = counters[s].delivered + counters[s].dropped + 0 + 0 + (uncounted[s] + Len(queue[s]))
    BY <2>2, <2>3
  <2> QED
    BY <1>1, <2>1, <2>3, <2>4
<1> QED
  BY <1>1, <1>2, <1>3, <1>4, <1>5, <1>6, <1>7

\* start() finds no playout thread, so that there is only ever one.
LEMMA StartInv ==
    ASSUME SinkInv, Start
    PROVE  SinkInv'
<1>0. thread \in {"none", "exited"} /\ item = {}
  BY SinkFacts DEF SinkInv, Lifecycle, TypeOK, Start
<1>a. /\ Discard /\ UNCHANGED <<mapper, counters, deadline, item, now, source_time, last_ts>>
      /\ anchor' = {} /\ ctl' = "started" /\ starts' = starts + 1 /\ thread' = "top"
      /\ running' = TRUE /\ stop_requested' = FALSE /\ output_error' = FALSE
  BY DEF Start
<1>1. /\ queue' \in [Enabled -> Seq(Nat)] /\ uncounted' \in [Enabled -> Nat]
      /\ \A s \in Enabled : queue'[s] = <<>> /\ Len(queue'[s]) <= MaxQueued[s]
      /\ MediaOrder' /\ QueuedAnchored' /\ NeverEarly'
      /\ \A s \in Enabled :
           counters'[s].offered =
               counters'[s].delivered + counters'[s].dropped + Len(queue'[s])
                 + Cardinality({ it \in item' : it.stream = s }) + uncounted'[s]
  BY <1>0, <1>a, DiscardInv
<1>2. SinkTypes'
  <2>1. starts' \in Nat
    BY <1>a, SinkFacts DEF SinkTypes
  <2>2. running' \in BOOLEAN /\ stop_requested' \in BOOLEAN /\ output_error' \in BOOLEAN
    BY <1>a
  <2> QED
    BY <1>a, <1>1, <2>1, <2>2, SinkFacts DEF SinkTypes
<1>3. TypeOK'
  BY <1>0, <1>a, <1>1, FS_EmptySet DEF TypeOK
<1>4. Lifecycle' /\ ErrorStopsSink'
  BY <1>a DEF Lifecycle, ErrorStopsSink
<1> QED
  BY <1>1, <1>2, <1>3, <1>4 DEF SinkInv, ItemConservation

\* stop() returns only after the playout thread has ended.
LEMMA StopEndInv ==
    ASSUME SinkInv, StopEnd
    PROVE  SinkInv'
<1>0. thread \in {"none", "exited"} /\ item = {}
  BY SinkFacts DEF TypeOK, StopEnd, PlayoutJoined
<1>a. /\ Discard /\ UNCHANGED <<mapper, counters, deadline, item, now, source_time, last_ts,
                                starts, running, stop_requested, output_error>>
      /\ anchor' = {} /\ ctl = "stopping" /\ ctl' = "idle" /\ thread' = "none"
  BY <1>0 DEF StopEnd
<1>1. /\ queue' \in [Enabled -> Seq(Nat)] /\ uncounted' \in [Enabled -> Nat]
      /\ \A s \in Enabled : queue'[s] = <<>> /\ Len(queue'[s]) <= MaxQueued[s]
      /\ MediaOrder' /\ QueuedAnchored' /\ NeverEarly'
      /\ \A s \in Enabled :
           counters'[s].offered =
               counters'[s].delivered + counters'[s].dropped + Len(queue'[s])
                 + Cardinality({ it \in item' : it.stream = s }) + uncounted'[s]
  BY <1>0, <1>a, DiscardInv
<1>2. SinkTypes'
  BY <1>a, <1>1, SinkFacts DEF SinkTypes
<1>3. TypeOK'
  BY <1>0, <1>a, <1>1, FS_EmptySet DEF TypeOK
<1>4. Lifecycle' /\ ErrorStopsSink'
  BY <1>a DEF SinkInv, Lifecycle, ErrorStopsSink
<1> QED
  BY <1>1, <1>2, <1>3, <1>4 DEF SinkInv, ItemConservation

\* The steps that touch neither items nor counters.
LEMMA ControlInv ==
    ASSUME SinkInv, StopBegin \/ Tick \/ LoopTop \/ Wake
    PROVE  SinkInv'
<1>0. /\ UNCHANGED <<starts, queue, mapper, anchor, counters, item, source_time, uncounted, last_ts, output_error>>
      /\ now' = now \/ now' = now + 1
      /\ thread' = "deliver" <=> thread = "deliver"
      /\ thread' \in {"none", "top", "select", "wait_item", "wait_deadline", "deliver", "exited"}
      /\ ctl' \in {"idle", "started", "stopping"}
  <2>1. CASE StopBegin
    BY <2>1, SinkFacts DEF StopBegin, intakeVars, seenVars, TypeOK
  <2>2. CASE Tick
    BY <2>2, SinkFacts DEF Tick, intakeVars, TypeOK
  <2>3. CASE LoopTop
    BY <2>3, SinkFacts DEF LoopTop, playFrame, TypeOK
  <2>4. CASE Wake
    BY <2>4, SinkFacts DEF Wake, playFrame, TypeOK
  <2> QED
    BY <2>1, <2>2, <2>3, <2>4
<1>1. SinkTypes'
  <2>1. running' \in BOOLEAN /\ stop_requested' \in BOOLEAN
    <3>1. /\ running' = running \/ running' = FALSE
          /\ stop_requested' = stop_requested \/ stop_requested' = TRUE
      BY DEF StopBegin, Tick, LoopTop, Wake, playFrame
    <3>2. running \in BOOLEAN /\ stop_requested \in BOOLEAN
      BY SinkFacts DEF SinkTypes
    <3> QED
      BY <3>1, <3>2
  <2>2. now' \in Nat
    BY <1>0, SinkFacts DEF SinkTypes
  <2> QED
    BY <1>0, <2>1, <2>2, SinkFacts DEF SinkTypes
<1>2. ItemConservation'
  BY <1>0, SinkFacts DEF SinkInv, ItemConservation, TypeOK
<1>3. Lifecycle' /\ ErrorStopsSink'
  <2>1. CASE StopBegin
    BY <2>1 DEF SinkInv, Lifecycle, ErrorStopsSink, StopBegin
  <2>2. CASE Tick
    BY <2>2 DEF SinkInv, Lifecycle, ErrorStopsSink, Tick
  <2>3. CASE LoopTop
    BY <2>3 DEF SinkInv, Lifecycle, ErrorStopsSink, LoopTop, playFrame
  <2>4. CASE Wake
    BY <2>4 DEF SinkInv, Lifecycle, ErrorStopsSink, Wake, playFrame
  <2> QED
    BY <2>1, <2>2, <2>3, <2>4
<1>4. MediaOrder' /\ QueuedAnchored'
  BY <1>0 DEF SinkInv, MediaOrder, QueuedAnchored, Newest
<1>5. NeverEarly'
  <2>1. now \in Nat /\ \A it \in item : it.ts \in Nat
    BY SinkFacts DEF SinkTypes, TypeOK
  <2>2. \A a \in anchor : a.time \in Nat /\ a.ts \in Nat
    BY SinkFacts DEF TypeOK
  <2>3. ASSUME NEW it \in item, NEW a \in anchor
        PROVE  now' >= a.time + (IF it.ts > a.ts THEN it.ts - a.ts ELSE 0)
    <3> DEFINE t == a.time + (IF it.ts > a.ts THEN it.ts - a.ts ELSE 0)
    <3>1. t \in Int
      BY <2>1, <2>2
    <3>2. now >= t
      BY DEF SinkInv, NeverEarly
    <3> HIDE DEF t
    <3>3. now' >= t
      BY <1>0, <2>1, <3>1, <3>2
    <3> QED
      BY <3>3 DEF t
  <2> QED
    BY <1>0, <2>3 DEF SinkInv, NeverEarly
<1> QED
  BY <1>1, <1>2, <1>3, <1>4, <1>5 DEF SinkInv

-----------------------------------------------------------------------------
(* The playout thread.                                                     *)

\* The anchor in force is the only one.
LEMMA PlayoutTimeIs ==
    ASSUME SinkInv, NEW a \in anchor, NEW ts \in Nat
    PROVE  PlayoutTime(ts) = a.time + (IF ts <= a.ts THEN 0 ELSE ts - a.ts)
<1>1. \A x, y \in anchor : x = y
  BY SinkFacts DEF SinkTypes
<1>2. (CHOOSE x \in anchor : TRUE) = a
  BY <1>1
<1> QED
  BY <1>2 DEF PlayoutTime

\* An item is taken from the front of the queue that holds the oldest one,
\* and only when its playout time has come.
LEMMA SelectInv ==
    ASSUME SinkInv, Select
    PROVE  SinkInv'
<1>0. /\ UNCHANGED <<ctl, starts, mapper, anchor, now, source_time, running, stop_requested, output_error,
                     counters, uncounted, last_ts>>
      /\ thread = "select" /\ item = {}
  BY SinkFacts DEF Select, playFrame, TypeOK
<1>1. CASE UNCHANGED <<queue, item>> /\ thread' \in {"exited", "wait_item", "wait_deadline"}
  <2>1. SinkTypes'
    BY <1>0, <1>1, SinkFacts DEF SinkTypes
  <2>2. ItemConservation'
    BY <1>0, <1>1, SinkFacts DEF SinkInv, ItemConservation, TypeOK
  <2>3. Lifecycle' /\ ErrorStopsSink'
    BY <1>0, <1>1 DEF SinkInv, Lifecycle, ErrorStopsSink
  <2>4. MediaOrder' /\ QueuedAnchored' /\ NeverEarly'
    BY <1>0, <1>1 DEF SinkInv, MediaOrder, QueuedAnchored, NeverEarly, Newest
  <2> QED
    BY <2>1, <2>2, <2>3, <2>4 DEF SinkInv
<1>2. ASSUME NEW s \in Enabled, s \in NextPending, PlayoutTime(Head(queue[s])) <= now,
             thread' = "deliver", item' = {[stream |-> s, ts |-> Head(queue[s])]},
             queue' = [queue EXCEPT ![s] = Tail(@)]
      PROVE  SinkInv'
  <2> DEFINE ts == Head(queue[s])
  <2> DEFINE it == [stream |-> s, ts |-> ts]
  <2>1. /\ queue[s] \in Seq(Nat) /\ queue[s] # <<>> /\ Len(queue[s]) \in Nat \ {0}
        /\ queue \in [Enabled -> Seq(Nat)] /\ ts = queue[s][1] /\ ts \in Nat
    BY <1>2, SinkFacts, EmptySeq, ElementOfSeq DEF NextPending, Pending
  <2>2. /\ queue'[s] = Tail(queue[s]) /\ Tail(queue[s]) \in Seq(Nat)
        /\ queue' \in [Enabled -> Seq(Nat)] /\ \A r \in Enabled \ {s} : queue'[r] = queue[r]
        /\ Len(queue'[s]) = Len(queue[s]) - 1
        /\ \A i \in 1 .. Len(queue'[s]) : queue'[s][i] = queue[s][i + 1] /\ i + 1 \in 1 .. Len(queue[s])
    <3>1. /\ Tail(queue[s]) \in Seq(Nat) /\ Len(Tail(queue[s])) = Len(queue[s]) - 1
          /\ \A i \in 1 .. Len(Tail(queue[s])) : Tail(queue[s])[i] = queue[s][i + 1]
      BY <2>1, HeadTailProperties
    <3>2. \A i \in 1 .. Len(queue[s]) - 1 : i + 1 \in 1 .. Len(queue[s])
      BY <2>1
    <3>3. queue'[s] = Tail(queue[s]) /\ \A r \in Enabled \ {s} : queue'[r] = queue[r]
      BY <1>2, <2>1
    <3>4. queue' \in [Enabled -> Seq(Nat)]
      BY <1>2, <2>1, <3>1
    <3> QED
      BY <3>1, <3>2, <3>3, <3>4
  <2>3. it \in [stream : Enabled, ts : Nat] /\ it.stream = s /\ it.ts = ts /\ item' = {it}
    BY <1>2, <2>1
  <2> HIDE DEF it, ts
  <2>4. SinkTypes'
    BY <1>0, <2>2, <2>3, SinkFacts DEF SinkTypes
  <2>5. TypeOK'
    <3>1. Cardinality(item') <= 1
      <4>1. Cardinality({it}) = 1
        BY FS_Singleton
      <4> QED
        BY <2>3, <4>1
    <3>2. \A r \in Enabled : Len(queue'[r]) <= MaxQueued[r]
      <4>1. \A r \in Enabled : Len(queue[r]) <= MaxQueued[r] /\ MaxQueued[r] \in Nat
        BY SinkFacts, SinkAssumption DEF TypeOK
      <4>2. Len(queue'[s]) <= MaxQueued[s]
        BY <2>1, <2>2, <4>1
      <4> QED
        BY <2>2, <4>1, <4>2
    <3> QED
      BY <1>0, <1>2, <2>3, <3>1, <3>2, SinkFacts DEF TypeOK
  <2>6. Lifecycle' /\ ErrorStopsSink'
    BY <1>0, <1>2 DEF SinkInv, Lifecycle, ErrorStopsSink
  <2>7. QueuedAnchored'
    BY <1>0, <2>1, <2>2 DEF SinkInv, QueuedAnchored
  <2>8. NeverEarly'
    <3>1. anchor # {} /\ \A a \in anchor : a.time \in Nat /\ a.ts \in Nat
      BY <2>1, SinkFacts DEF SinkInv, QueuedAnchored, TypeOK
    <3>2. ASSUME NEW a \in anchor
          PROVE  now >= a.time + (IF ts > a.ts THEN ts - a.ts ELSE 0)
      <4>1. PlayoutTime(ts) = a.time + (IF ts <= a.ts THEN 0 ELSE ts - a.ts)
        BY <2>1, PlayoutTimeIs
      <4>2. PlayoutTime(ts) <= now /\ now \in Nat
        BY <1>2, SinkFacts DEF ts, SinkTypes
      <4> QED
        BY <2>1, <3>1, <4>1, <4>2
    <3> QED
      BY <1>0, <2>3, <3>1, <3>2 DEF NeverEarly
  <2>9. MediaOrder'
    <3> SUFFICES ASSUME NEW r \in Enabled
                 PROVE  /\ last_ts[r] <= Newest(r)
                        /\ \A i \in 1 .. Len(queue'[r]) : last_ts[r] <= queue'[r][i] /\ queue'[r][i] <= Newest(r)
                        /\ \A i, j \in 1 .. Len(queue'[r]) : i <= j => queue'[r][i] <= queue'[r][j]
                        /\ s = r =>
                             /\ last_ts[r] <= ts /\ ts <= Newest(r)
                             /\ \A i \in 1 .. Len(queue'[r]) : ts <= queue'[r][i]
      BY <1>0, <2>3 DEF MediaOrder, Newest
    <3>1. /\ last_ts[r] <= Newest(r)
          /\ \A i \in 1 .. Len(queue[r]) : last_ts[r] <= queue[r][i] /\ queue[r][i] <= Newest(r)
          /\ \A i, j \in 1 .. Len(queue[r]) : i <= j => queue[r][i] <= queue[r][j]
      BY DEF SinkInv, MediaOrder
    <3>2. CASE r # s
      BY <2>2, <3>1, <3>2
    <3>3. CASE r = s
      <4>1. 1 \in 1 .. Len(queue[s]) /\ \A i \in 1 .. Len(queue[s]) : 1 <= i
        BY <2>1
      <4>2. \A i, j \in 1 .. Len(queue'[s]) : i <= j => i + 1 <= j + 1
        BY <2>1, <2>2
      <4>3. last_ts[r] <= ts /\ ts <= Newest(r)
        BY <2>1, <3>1, <3>3, <4>1
      <4>4. \A i \in 1 .. Len(queue'[s]) :
              last_ts[s] <= queue'[s][i] /\ queue'[s][i] <= Newest(s) /\ ts <= queue'[s][i]
        BY <2>1, <2>2, <3>1, <3>3, <4>1
      <4>5. \A i, j \in 1 .. Len(queue'[s]) : i <= j => queue'[s][i] <= queue'[s][j]
        BY <2>2, <3>1, <3>3, <4>2
      <4> QED
        BY <3>1, <3>3, <4>3, <4>4, <4>5
    <3> QED
      BY <3>2, <3>3
  <2>10. ItemConservation'
    <3> SUFFICES ASSUME NEW r \in Enabled
                 PROVE  counters[r].offered = counters[r].delivered + counters[r].dropped + Len(queue'[r])
                                               + InDelivery(r)' + uncounted[r]
      BY <1>0, <2>5 DEF ItemConservation, InDelivery
    <3>1. counters[r].offered = counters[r].delivered + counters[r].dropped + Len(queue[r])
                                 + InDelivery(r) + uncounted[r]
      BY DEF SinkInv, ItemConservation, InDelivery
    <3>2. /\ counters[r].delivered \in Nat /\ counters[r].dropped \in Nat /\ Len(queue[r]) \in Nat
          /\ uncounted[r] \in Nat
      BY SinkFacts
    <3>3. InDelivery(r) = 0
      BY <1>0, FS_EmptySet DEF InDelivery
    <3>4. CASE r = s
      <4>1. { x \in item' : x.stream = s } = {it}
        BY <2>3
      <4>2. InDelivery(r)' = 1
        BY <3>4, <4>1, FS_Singleton DEF InDelivery
      <4> DEFINE a == counters[s].offered
      <4> DEFINE d == counters[s].delivered
      <4> DEFINE p == counters[s].dropped
      <4> DEFINE l == Len(queue[s])
      <4> DEFINE u == uncounted[s]
      <4>3. a = d + p + l + 0 + u /\ d \in Nat /\ p \in Nat /\ l \in Nat \ {0} /\ u \in Nat
        BY <2>1, <3>1, <3>2, <3>3, <3>4
      <4>4. Len(queue'[s]) = l - 1
        BY <2>2
      <4> HIDE DEF a, d, p, l, u
      <4>5. a = d + p + (l - 1) + 1 + u
        BY <4>3
      <4> QED
        BY <3>4, <4>2, <4>4, <4>5 DEF a, d, p, u
    <3>5. CASE r # s
      <4>1. { x \in item' : x.stream = r } = {}
        BY <2>3, <3>5
      <4>2. InDelivery(r)' = 0
        BY <4>1, FS_EmptySet DEF InDelivery
      <4> QED
        BY <2>2, <3>1, <3>3, <3>5, <4>2
    <3> QED
      BY <3>4, <3>5
  <2> QED
    BY <2>4, <2>6, <2>7, <2>8, <2>9, <2>10 DEF SinkInv
<1>3. \/ UNCHANGED <<queue, item>> /\ thread' \in {"exited", "wait_item", "wait_deadline"}
      \/ \E s \in Enabled :
           /\ s \in NextPending /\ PlayoutTime(Head(queue[s])) <= now
           /\ thread' = "deliver" /\ item' = {[stream |-> s, ts |-> Head(queue[s])]}
           /\ queue' = [queue EXCEPT ![s] = Tail(@)]
  BY DEF Select, NextPending, Pending
<1> QED
  BY <1>1, <1>2, <1>3

\* A delivery hands the item to OBS, or throws it away with an exception.
LEMMA DeliverInv ==
    ASSUME SinkInv, Deliver \/ DeliverThrows
    PROVE  SinkInv'
<1>0. /\ UNCHANGED <<ctl, starts, mapper, anchor, now, source_time, queue, deadline>>
      /\ thread = "deliver" /\ item # {} /\ item' = {}
  BY SinkFacts DEF Deliver, DeliverThrows, playFrame, TypeOK
<1>1. PICK it \in item :
        \/ /\ counters' = [counters EXCEPT ![it.stream].delivered = @ + 1]
           /\ last_ts' = [last_ts EXCEPT ![it.stream] = it.ts]
           /\ UNCHANGED <<uncounted, running, stop_requested, output_error>> /\ thread' = "top"
        \/ /\ uncounted' = [uncounted EXCEPT ![it.stream] = @ + 1]
           /\ UNCHANGED <<counters, last_ts>> /\ thread' = "exited"
           /\ output_error' = TRUE /\ stop_requested' = TRUE /\ running' = FALSE
  BY DEF Deliver, DeliverThrows
<1> DEFINE s == it.stream
<1>2. /\ s \in Enabled /\ it.ts \in Nat /\ \A x \in item : x = it
      /\ counters \in [Enabled -> Counters] /\ last_ts \in [Enabled -> Nat \cup {-1}]
      /\ uncounted \in [Enabled -> Nat] /\ counters[s].delivered + 1 \in Nat
  BY SinkFacts DEF TypeOK, SinkTypes
<1> HIDE DEF s
<1>3. \/ /\ counters' \in [Enabled -> Counters] /\ \A r \in Enabled \ {s} : counters'[r] = counters[r]
         /\ counters'[s].delivered = counters[s].delivered + 1
         /\ counters'[s].offered = counters[s].offered /\ counters'[s].dropped = counters[s].dropped
         /\ uncounted' = uncounted
      \/ /\ counters' = counters /\ \A r \in Enabled \ {s} : uncounted'[r] = uncounted[r]
         /\ uncounted'[s] = uncounted[s] + 1 /\ uncounted' \in [Enabled -> Nat]
  BY <1>1, <1>2 DEF Counters, s
<1>4. SinkTypes'
  <2>1. last_ts' \in [Enabled -> Nat \cup {-1}]
    BY <1>1, <1>2
  <2>2. running' \in BOOLEAN /\ stop_requested' \in BOOLEAN /\ output_error' \in BOOLEAN
    BY <1>1, SinkFacts DEF SinkTypes
  <2> QED
    BY <1>0, <1>2, <1>3, <2>1, <2>2, SinkFacts DEF SinkTypes, Counters
<1>5. TypeOK'
  BY <1>0, <1>1, SinkFacts, FS_EmptySet DEF TypeOK
<1>6. Lifecycle' /\ ErrorStopsSink'
  BY <1>0, <1>1 DEF SinkInv, Lifecycle, ErrorStopsSink
<1>7. QueuedAnchored' /\ NeverEarly'
  BY <1>0 DEF SinkInv, QueuedAnchored, NeverEarly
<1>8. MediaOrder'
  <2> SUFFICES ASSUME NEW r \in Enabled
               PROVE  /\ last_ts'[r] <= Newest(r)
                      /\ \A i \in 1 .. Len(queue[r]) : last_ts'[r] <= queue[r][i] /\ queue[r][i] <= Newest(r)
                      /\ \A i, j \in 1 .. Len(queue[r]) : i <= j => queue[r][i] <= queue[r][j]
    BY <1>0 DEF MediaOrder, Newest
  <2>1. /\ last_ts[r] <= Newest(r)
        /\ \A i \in 1 .. Len(queue[r]) : last_ts[r] <= queue[r][i] /\ queue[r][i] <= Newest(r)
        /\ \A i, j \in 1 .. Len(queue[r]) : i <= j => queue[r][i] <= queue[r][j]
        /\ s = r => /\ it.ts <= Newest(r)
                    /\ \A i \in 1 .. Len(queue[r]) : it.ts <= queue[r][i]
    BY DEF SinkInv, MediaOrder, s
  <2>2. last_ts'[r] = last_ts[r] \/ (r = s /\ last_ts'[r] = it.ts)
    BY <1>1, <1>2 DEF s
  <2> QED
    BY <2>1, <2>2
<1>9. ItemConservation'
  <2> SUFFICES ASSUME NEW r \in Enabled
               PROVE  counters'[r].offered = counters'[r].delivered + counters'[r].dropped + Len(queue[r])
                                             + InDelivery(r)' + uncounted'[r]
    BY <1>0, <1>5 DEF ItemConservation, InDelivery
  <2>1. counters[r].offered = counters[r].delivered + counters[r].dropped + Len(queue[r])
                               + InDelivery(r) + uncounted[r]
    BY DEF SinkInv, ItemConservation, InDelivery
  <2>2. /\ counters[r].delivered \in Nat /\ counters[r].dropped \in Nat /\ Len(queue[r]) \in Nat
        /\ uncounted[r] \in Nat
    BY SinkFacts
  <2>3. InDelivery(r)' = 0
    BY <1>0, FS_EmptySet DEF InDelivery
  <2>4. CASE r = s
    <3>1. { x \in item : x.stream = r } = {it}
      BY <1>2, <2>4 DEF s
    <3>2. InDelivery(r) = 1
      BY <3>1, FS_Singleton DEF InDelivery
    <3> DEFINE a == counters[s].offered
    <3> DEFINE d == counters[s].delivered
    <3> DEFINE p == counters[s].dropped
    <3> DEFINE l == Len(queue[s])
    <3> DEFINE u == uncounted[s]
    <3>3. a = d + p + l + 1 + u /\ d \in Nat /\ p \in Nat /\ l \in Nat /\ u \in Nat
      BY <2>1, <2>2, <2>4, <3>2
    <3>4. /\ counters'[s].offered = a /\ counters'[s].dropped = p
          /\ \/ counters'[s].delivered = d + 1 /\ uncounted'[s] = u
             \/ counters'[s].delivered = d /\ uncounted'[s] = u + 1
      BY <1>3
    <3> HIDE DEF a, d, p, l, u
    <3>5. a = (d + 1) + p + l + 0 + u /\ a = d + p + l + 0 + (u + 1)
      BY <3>3
    <3> QED
      BY <2>3, <2>4, <3>4, <3>5 DEF l
  <2>5. CASE r # s
    <3>1. { x \in item : x.stream = r } = {}
      BY <1>2, <2>5 DEF s
    <3>2. InDelivery(r) = 0
      BY <3>1, FS_EmptySet DEF InDelivery
    <3> QED
      BY <1>3, <2>1, <2>3, <2>5, <3>2
  <2> QED
    BY <2>4, <2>5
<1> QED
  BY <1>4, <1>6, <1>7, <1>8, <1>9 DEF SinkInv

-----------------------------------------------------------------------------
\* Every critical section preserves the invariant.
LEMMA SinkStep == SinkInv /\ [Next]_vars => SinkInv'
<1> SUFFICES ASSUME SinkInv, [Next]_vars PROVE SinkInv'
  OBVIOUS
<1>1. CASE \E s \in Enabled, step \in FrameSteps : OnFrame(s, step)
  BY <1>1, OnFrameInv
<1>2. CASE Start \/ StopBegin \/ StopEnd \/ Tick
  BY <1>2, StartInv, StopEndInv, ControlInv
<1>3. CASE PlayoutStep \/ DeliverThrows
  BY <1>3, ControlInv, SelectInv, DeliverInv DEF PlayoutStep
<1>4. CASE UNCHANGED vars
  BY <1>4 DEF vars, SinkInv, SinkTypes, TypeOK, Lifecycle, MediaOrder, QueuedAnchored, ItemConservation,
     NeverEarly, ErrorStopsSink, Newest
<1> QED
  BY <1>1, <1>2, <1>3, <1>4 DEF Next

\* The invariant holds in every state of the sink.
THEOREM SinkCorrect == Spec => []SinkInv
<1> QED
  BY InitSink, SinkStep, PTL DEF Spec

\* Every frame offered is delivered, counted as dropped, queued, in delivery,
\* or was thrown away by start(), stop() or an output error, and the queues
\* respect their limits: no frame is lost or counted twice.
THEOREM SinkLosesNothing == Spec => []ItemConservation
<1>1. SinkInv => ItemConservation
  BY DEF SinkInv
<1> QED
  BY SinkCorrect, <1>1, PTL

\* Nothing is delivered before the time its anchor assigns to it, for every
\* playout delay and both clocks.
THEOREM SinkIsNeverEarly == Spec => []NeverEarly
<1>1. SinkInv => NeverEarly
  BY DEF SinkInv
<1> QED
  BY SinkCorrect, <1>1, PTL

\* An output error leaves the sink stopped, its thread ended.
THEOREM ErrorLeavesSinkStopped == Spec => []ErrorStopsSink
<1>1. SinkInv => ErrorStopsSink
  BY DEF SinkInv
<1> QED
  BY SinkCorrect, <1>1, PTL

\* Nothing is handed to OBS after stop() has returned.
THEOREM QuietOnceStopped == Spec => QuietAfterStop
<1>1. SinkInv /\ [Next]_vars
        => [(\E s \in Enabled : counters'[s].delivered > counters[s].delivered) => ctl # "idle"]_vars
  <2> SUFFICES ASSUME SinkInv, Next, NEW s \in Enabled, counters'[s].delivered > counters[s].delivered,
                      ctl = "idle"
               PROVE  FALSE
    OBVIOUS
  <2>1. thread = "none"
    BY DEF SinkInv, Lifecycle
  <2>2. counters[s].delivered \in Nat
    BY SinkFacts
  <2>3. ~Deliver
    BY <2>1 DEF Deliver
  <2>4. counters'[s].delivered # counters[s].delivered
    BY <2>2
  <2>5. CASE \E r \in Enabled, step \in FrameSteps : OnFrame(r, step)
    BY <2>4, <2>5, OnFrameInv
  <2>6. CASE Start \/ StopBegin \/ StopEnd \/ LoopTop \/ Select \/ Wake \/ DeliverThrows \/ Tick
    BY <2>4, <2>6 DEF Start, StopBegin, StopEnd, LoopTop, Select, Wake, DeliverThrows, Tick, playFrame, intakeVars
  <2> QED
    BY <2>3, <2>5, <2>6 DEF Next, PlayoutStep
<1> QED
  BY SinkCorrect, <1>1, PTL DEF Spec, QuietAfterStop

\* A delivery moves the stream's media time forward.
LEMMA DeliveryMovesForward ==
    ASSUME SinkInv, Deliver, NEW s \in Enabled
    PROVE  last_ts'[s] >= last_ts[s]
<1>1. PICK it \in item : last_ts' = [last_ts EXCEPT ![it.stream] = it.ts]
  BY DEF Deliver
<1>2. last_ts \in [Enabled -> Nat \cup {-1}] /\ it.ts \in Nat /\ last_ts[s] \in Nat \cup {-1}
  <2>1. TypeOK /\ SinkTypes
    BY SinkFacts
  <2> QED
    BY <2>1 DEF TypeOK, SinkTypes
<1>3. it.stream = s => last_ts[s] <= it.ts
  BY DEF SinkInv, MediaOrder
<1>4. last_ts'[s] = IF it.stream = s THEN it.ts ELSE last_ts[s]
  BY <1>1, <1>2
<1> QED
  BY <1>2, <1>3, <1>4

\* The front of the queue that is chosen is the oldest item of all queues.
LEMMA ChosenIsOldest ==
    ASSUME SinkInv, NEW s \in NextPending, NEW r \in Enabled, NEW i \in 1 .. Len(queue[r])
    PROVE  Head(queue[s]) <= queue[r][i]
<1>1. /\ queue[r] \in Seq(Nat) /\ Len(queue[r]) \in Nat /\ queue[r] # <<>> /\ s \in Enabled
      /\ queue[s] \in Seq(Nat) /\ queue[s] # <<>>
  BY SinkFacts, EmptySeq DEF NextPending, Pending
<1>2. Len(queue[r]) # 0 /\ 1 \in 1 .. Len(queue[r]) /\ 1 <= i
  BY <1>1
<1>3. queue[r][1] <= queue[r][i]
  BY <1>2 DEF SinkInv, MediaOrder
<1>4. Head(queue[r]) = queue[r][1] /\ Head(queue[r]) \in Nat /\ Head(queue[s]) \in Nat /\ queue[r][i] \in Nat
  BY <1>1, <1>2, HeadTailProperties, ElementOfSeq
<1>5. r \in Pending
  BY <1>1 DEF Pending
<1>6. Head(queue[s]) <= Head(queue[r])
  BY <1>4, <1>5 DEF NextPending
<1> QED
  BY <1>3, <1>4, <1>6

\* An item taken for delivery is older than whatever stays queued.
LEMMA TakenIsOldest ==
    ASSUME SinkInv, Select, NEW it \in item' \ item, NEW r \in Enabled, NEW i \in 1 .. Len(queue'[r])
    PROVE  it.ts <= queue'[r][i]
<1>1. PICK s \in NextPending : item' = {[stream |-> s, ts |-> Head(queue[s])]}
                               /\ queue' = [queue EXCEPT ![s] = Tail(@)]
  BY DEF Select
<1>2. /\ s \in Enabled /\ queue[s] \in Seq(Nat) /\ queue[s] # <<>> /\ queue \in [Enabled -> Seq(Nat)]
      /\ Len(queue[r]) \in Nat /\ Len(queue[s]) \in Nat
  BY SinkFacts DEF NextPending, Pending
<1>3. it.ts = Head(queue[s])
  BY <1>1
<1>4. CASE r = s
  <2>1. /\ queue'[r] = Tail(queue[s]) /\ Len(queue'[r]) = Len(queue[s]) - 1
        /\ queue'[r][i] = queue[s][i + 1]
    BY <1>1, <1>2, <1>4, HeadTailProperties
  <2>2. i + 1 \in 1 .. Len(queue[s])
    BY <1>2, <2>1
  <2> QED
    BY <1>3, <1>4, <2>1, <2>2, ChosenIsOldest
<1>5. CASE r # s
  <2>1. queue'[r] = queue[r]
    BY <1>1, <1>2, <1>5
  <2> QED
    BY <1>3, <2>1, ChosenIsOldest
<1> QED
  BY <1>4, <1>5

\* Each stream reaches OBS in the order of its media time, and the item taken
\* for delivery is the oldest of both queues: for every clock rate, across
\* overflowing queues, refused timestamps, restarts and wraps of the RTP
\* timestamp.
THEOREM PlayoutKeepsOrder == Spec => PlayoutInOrder
<1>1. SinkInv /\ [Next]_vars
        => [\A s \in Enabled :
             /\ last_ts'[s] >= last_ts[s]
             /\ \A it \in item' \ item : \A i \in 1 .. Len(queue'[s]) : it.ts <= queue'[s][i]]_vars
  <2> SUFFICES ASSUME SinkInv, Next, NEW s \in Enabled
               PROVE  /\ last_ts'[s] >= last_ts[s]
                      /\ \A it \in item' \ item : \A i \in 1 .. Len(queue'[s]) : it.ts <= queue'[s][i]
    OBVIOUS
  <2>1. last_ts[s] \in Int
    BY SinkFacts
  <2>2. last_ts[s] >= last_ts[s]
    BY <2>1
  <2>3. CASE \E r \in Enabled, step \in FrameSteps : OnFrame(r, step)
    BY <2>2, <2>3 DEF OnFrame
  <2>4. CASE Start \/ StopBegin \/ StopEnd \/ LoopTop \/ Wake \/ Tick
    <3>1. UNCHANGED <<last_ts, item>>
      BY <2>4 DEF Start, StopBegin, StopEnd, LoopTop, Wake, Tick, playFrame, intakeVars, seenVars
    <3> QED
      BY <2>2, <3>1
  <2>5. CASE Select
    <3>1. UNCHANGED last_ts
      BY <2>5 DEF Select
    <3> QED
      BY <2>2, <2>5, <3>1, TakenIsOldest
  <2>6. CASE Deliver
    <3>1. item' = {}
      BY <2>6 DEF Deliver
    <3> QED
      BY <2>6, <3>1, DeliveryMovesForward
  <2>7. CASE DeliverThrows
    <3>1. item' = {} /\ UNCHANGED last_ts
      BY <2>7 DEF DeliverThrows
    <3> QED
      BY <2>2, <3>1
  <2> QED
    BY <2>3, <2>4, <2>5, <2>6, <2>7 DEF Next, PlayoutStep
<1> QED
  BY SinkCorrect, <1>1, PTL DEF Spec, PlayoutInOrder

\* on_*_frame always appends: what map() returns is never older than what is
\* queued, so that the search of insert_sorted_by_media_timestamp never finds
\* a place further in front.
THEOREM FramesAreAppended ==
    ASSUME SinkInv, NEW s \in Enabled, NEW rtp \in 0 .. RtpModulus - 1, OnFrameAccepted(s, rtp)
    PROVE  LET ts == MappedNs(MapperConfig[s], mapper[s], rtp)
           IN  queue' = [queue EXCEPT ![s] = Trim(s, Append(queue[s], ts))]
<1> DEFINE ts == MappedNs(MapperConfig[s], mapper[s], rtp)
<1>1. MapSucceeds(MapperConfig[s], mapper[s], rtp)
  BY DEF OnFrameAccepted
<1>2. ts \in Nat /\ Newest(s) <= ts /\ queue[s] \in Seq(Nat) /\ Newest(s) \in Nat \cup {-1}
  BY <1>1, SinkFacts, MapperStep
<1>3. \A i \in 1 .. Len(queue[s]) : queue[s][i] \in Nat /\ queue[s][i] <= Newest(s)
  BY SinkFacts DEF SinkInv, MediaOrder
<1> HIDE DEF ts
<1>4. InsertSorted(queue[s], ts) = Append(queue[s], ts)
  <2> DEFINE q == queue[s]
  <2>1. q \in Seq(Nat) /\ \A i \in 1 .. Len(q) : q[i] <= ts
    BY <1>2, <1>3
  <2> HIDE DEF q
  <2>2. InsertSorted(q, ts) = Append(q, ts)
    BY <1>2, <2>1, InsertAppends
  <2> QED
    BY <2>2 DEF q
<1> QED
  BY <1>4 DEF OnFrameAccepted, ts

=============================================================================
