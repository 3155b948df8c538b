-------------------------- MODULE WorkerIpcProofs --------------------------
(***************************************************************************)
(* Proofs about what travels on the control socket, for every set of       *)
(* threads and messages, every limit and every way a frame may be cut.     *)
(* First the layout of the shared-memory rings a StartSessions request     *)
(* describes, for every width of the integers; then the frames: who writes *)
(* which byte, what the socket holds, what the reader took, and that the   *)
(* two sides stay in step until a failed send tears a frame.               *)
(***************************************************************************)
EXTENDS WorkerIpc, SequenceTheorems, FiniteSetTheorems, TLAPS

-----------------------------------------------------------------------------
\* The layout of a ring

\* A quotient and its remainder.
LEMMA Division ==
    ASSUME NEW m \in Nat, NEW a \in Nat \ {0}
    PROVE  /\ m \div a \in Nat /\ a * (m \div a) <= m /\ m < a * (m \div a) + a
           /\ m % a \in 0 .. a - 1 /\ m = a * (m \div a) + (m % a)
<1>1. m \div a \in Nat /\ a * (m \div a) <= m
  OBVIOUS
<1>2. m < a * (m \div a) + a
  OBVIOUS
<1>3. m % a \in 0 .. a - 1
  OBVIOUS
<1>4. m = a * (m \div a) + (m % a)
  OBVIOUS
<1> QED
  BY <1>1, <1>2, <1>3, <1>4

\* A multiple leaves no remainder.
LEMMA Multiple ==
    ASSUME NEW q \in Nat, NEW a \in Nat \ {0}
    PROVE  (a * q) % a = 0
OBVIOUS

\* A product is a natural number and grows with its first factor.
LEMMA ProductGrows ==
    ASSUME NEW a \in Nat, NEW b \in Nat, NEW c \in Nat, a <= b
    PROVE  a * c \in Nat /\ b * c \in Nat /\ a * c <= b * c
OBVIOUS

\* One more times c is c more.
LEMMA ProductStep ==
    ASSUME NEW a \in Nat, NEW c \in Nat
    PROVE  (a + 1) * c = a * c + c
OBVIOUS

\* The test before a multiplication is exact: it passes just if the product
\* fits, and then the multiplication does not wrap.
LEMMA MulOverflowsExact ==
    ASSUME NEW a \in U64, NEW b \in U64
    PROVE  /\ MulOverflows(a, b) <=> a * b > MaxU64
           /\ ~MulOverflows(a, b) => Times(a, b) = a * b /\ a * b \in U64
<1>1. MaxU64 \in Nat /\ a \in Nat /\ b \in Nat /\ a * b \in Nat
  BY LayoutAssumption, ProductGrows DEF U64
<1>2. ASSUME MulOverflows(a, b) PROVE a * b > MaxU64
  <2>1. a # 0 /\ b > MaxU64 \div a
    BY <1>2 DEF MulOverflows
  <2>2. MaxU64 < a * (MaxU64 \div a) + a /\ MaxU64 \div a \in Nat
    BY <1>1, <2>1, Division
  <2>3. (MaxU64 \div a) + 1 <= b
    BY <1>1, <2>1, <2>2
  <2>4. ((MaxU64 \div a) + 1) * a <= b * a
    BY <1>1, <2>2, <2>3, ProductGrows
  <2>5. ((MaxU64 \div a) + 1) * a = (MaxU64 \div a) * a + a
    BY <1>1, <2>2, ProductStep
  <2>6. (MaxU64 \div a) * a = a * (MaxU64 \div a) /\ b * a = a * b
    BY <1>1, <2>2
  <2> DEFINE x == (MaxU64 \div a) * a
  <2>7. x \in Nat /\ x + a <= a * b /\ MaxU64 < x + a
    BY <1>1, <2>2, <2>4, <2>5, <2>6, ProductGrows
  <2> HIDE DEF x
  <2> QED
    BY <1>1, <2>7
<1>3. ASSUME ~MulOverflows(a, b) PROVE a * b <= MaxU64
  <2>1. CASE a = 0
    BY <1>1, <2>1
  <2>2. CASE a # 0
    <3>1. b <= MaxU64 \div a /\ a * (MaxU64 \div a) <= MaxU64 /\ MaxU64 \div a \in Nat
      BY <1>1, <1>3, <2>2, Division DEF MulOverflows
    <3>2. b * a <= (MaxU64 \div a) * a /\ (MaxU64 \div a) * a \in Nat
      BY <1>1, <3>1, ProductGrows
    <3>3. (MaxU64 \div a) * a = a * (MaxU64 \div a) /\ b * a = a * b
      BY <1>1, <3>1
    <3> DEFINE x == (MaxU64 \div a) * a
    <3>4. x \in Nat /\ a * b <= x /\ x <= MaxU64
      BY <3>1, <3>2, <3>3
    <3> HIDE DEF x
    <3> QED
      BY <1>1, <3>4
  <2> QED
    BY <2>1, <2>2
<1> DEFINE p == a * b
<1>4. p \in Nat /\ p <= MaxU64 => p % (MaxU64 + 1) = p /\ p \in U64
  <2> HIDE DEF p
  <2> QED
    BY <1>1 DEF U64
<1> QED
  BY <1>1, <1>2, <1>3, <1>4 DEF Times

\* The same for an addition.
LEMMA AddOverflowsExact ==
    ASSUME NEW a \in U64, NEW b \in U64
    PROVE  /\ AddOverflows(a, b) <=> a + b > MaxU64
           /\ ~AddOverflows(a, b) => Plus(a, b) = a + b /\ a + b \in U64
<1> QED
  BY LayoutAssumption DEF U64, AddOverflows, Plus

\* What the tests of FitsMapping say of the numbers, without any wrap.
LEMMA MappingBounds ==
    ASSUME NEW d \in Descriptors, ValidForMapping(d)
    PROVE  /\ d.slot_count \in Nat \ {0} /\ d.slot_stride \in Nat /\ d.slot_region_offset \in Nat
           /\ d.slot_payload_offset \in Nat /\ d.slot_payload_capacity \in Nat \ {0}
           /\ d.mapped_size \in Nat /\ d.mapped_size <= MaxU64
           /\ d.slot_payload_offset >= HeaderSize
           /\ d.slot_payload_offset + d.slot_payload_capacity <= d.slot_stride
           /\ (d.slot_count - 1) * d.slot_stride \in Nat
           /\ d.slot_region_offset + ((d.slot_count - 1) * d.slot_stride
                 + (d.slot_payload_offset + d.slot_payload_capacity)) <= d.mapped_size
<1> DEFINE n == d.slot_count
<1> DEFINE st == d.slot_stride
<1> DEFINE r == d.slot_region_offset
<1> DEFINE o == d.slot_payload_offset
<1> DEFINE c == d.slot_payload_capacity
<1> DEFINE m == d.mapped_size
<1>1. /\ n \in U64 /\ st \in U64 /\ r \in U64 /\ o \in U64 /\ c \in U64 /\ m \in U64
      /\ n # 0 /\ c # 0 /\ FitsMapping(d) /\ o >= HeaderSize
  BY DEF Descriptors, ValidForMapping, DescriptorValid
<1>2. n - 1 \in U64
  BY <1>1, LayoutAssumption DEF U64
<1>3. PayloadEnd(d) = o + c /\ o + c \in U64 /\ o + c <= st
  BY <1>1, AddOverflowsExact DEF FitsMapping, PayloadEnd
<1>4. LastSlot(d) = (n - 1) * st /\ (n - 1) * st \in U64
  BY <1>1, <1>2, MulOverflowsExact DEF FitsMapping, LastSlot
<1> DEFINE l == (n - 1) * st
<1> DEFINE e == o + c
<1>5. /\ LastSlot(d) = l /\ PayloadEnd(d) = e /\ l \in U64 /\ e \in U64
  BY <1>3, <1>4
<1> HIDE DEF n, st, r, o, c, m, l, e
<1>6. Plus(l, e) = l + e /\ l + e \in U64
  BY <1>1, <1>5, AddOverflowsExact DEF FitsMapping
<1>7. r + (l + e) <= m
  BY <1>1, <1>5, <1>6, AddOverflowsExact DEF FitsMapping, r, m
<1>8. n \in Nat \ {0} /\ st \in Nat /\ r \in Nat /\ o \in Nat /\ c \in Nat \ {0} /\ m \in Nat /\ m <= MaxU64
  BY <1>1, LayoutAssumption DEF U64
<1>9. l \in Nat
  BY <1>5, LayoutAssumption DEF U64
<1> QED
  BY <1>1, <1>3, <1>7, <1>8, <1>9 DEF n, st, r, o, c, m, l, e

\* Where slot i starts, and what SlotHeader and SlotPayload return for it.
LEMMA SlotAddresses ==
    ASSUME NEW d \in Descriptors, ValidForMapping(d), NEW i \in 0 .. (d.slot_count - 1)
    PROVE  LET at == d.slot_region_offset + i * d.slot_stride IN
           /\ i * d.slot_stride \in Nat /\ at \in Nat
           /\ at + (d.slot_payload_offset + d.slot_payload_capacity) <= d.mapped_size
           /\ SlotHeader(d, i) = {[from |-> at, to |-> at + HeaderSize]}
           /\ SlotPayload(d, i) = {[from |-> at + d.slot_payload_offset,
                                   to |-> (at + d.slot_payload_offset) + d.slot_payload_capacity]}
<1> DEFINE n == d.slot_count
<1> DEFINE st == d.slot_stride
<1> DEFINE r == d.slot_region_offset
<1> DEFINE o == d.slot_payload_offset
<1> DEFINE c == d.slot_payload_capacity
<1> DEFINE m == d.mapped_size
<1> DEFINE l == (n - 1) * st
<1> DEFINE x == i * st
<1>1. /\ n \in Nat \ {0} /\ st \in Nat /\ r \in Nat /\ o \in Nat /\ c \in Nat \ {0}
      /\ m \in Nat /\ m <= MaxU64 /\ o >= HeaderSize /\ o + c <= st
      /\ l \in Nat /\ r + (l + (o + c)) <= m
  BY MappingBounds
<1>2. x \in Nat /\ x <= l
  <2>1. i \in Nat /\ n - 1 \in Nat /\ i <= n - 1
    BY <1>1
  <2> QED
    BY <1>1, <2>1, ProductGrows
<1>3. n \in U64 /\ i \in U64 /\ st \in U64 /\ r \in U64 /\ o \in U64 /\ c \in U64
  <2>1. n \in U64 /\ st \in U64 /\ r \in U64 /\ o \in U64 /\ c \in U64
    BY DEF Descriptors
  <2> QED
    BY <2>1, LayoutAssumption DEF U64
<1>h. HeaderSize \in Nat \ {0} /\ MaxU64 \in Nat
  BY LayoutAssumption
<1>4. i < n
  BY <1>1
<1>5. ~MulOverflows(i, st) /\ Times(i, st) = x
  <2>1. x <= MaxU64
    <3> HIDE DEF n, st, r, o, c, m, l, x
    <3> QED
      BY <1>1, <1>2, <1>h
  <2>2. ~(x > MaxU64)
    <3> HIDE DEF x
    <3> QED
      BY <1>2, <1>h, <2>1
  <2> QED
    BY <1>3, <2>2, MulOverflowsExact
<1> HIDE DEF n, st, r, o, c, m, l, x
<1>6. x \in U64 /\ (r + x) \in U64 /\ r + x + HeaderSize \in U64 /\ r + x + o \in U64 /\ r + x + o + c \in U64
      /\ (r + x) + (o + c) <= m
  BY <1>1, <1>2, <1>h DEF U64
<1>7. ~AddOverflows(r, x) /\ Plus(r, x) = r + x
  BY <1>1, <1>2, <1>6, <1>h DEF U64, AddOverflows, Plus
<1>8. SlotOffset(d, i) = r + x
  BY <1>5, <1>7 DEF SlotOffset, r, st
<1>9. Plus(r + x, HeaderSize) = (r + x) + HeaderSize /\ (r + x) + HeaderSize <= m
  BY <1>1, <1>2, <1>6, <1>h DEF U64, Plus
<1>10. /\ ~AddOverflows(r + x, o) /\ Plus(r + x, o) = (r + x) + o
       /\ Plus((r + x) + o, c) = ((r + x) + o) + c /\ ((r + x) + o) + c <= m
  BY <1>1, <1>2, <1>6, <1>h DEF U64, AddOverflows, Plus
<1>11. SlotHeader(d, i) = {[from |-> r + x, to |-> (r + x) + HeaderSize]}
  <2>1. ~(i >= n) /\ ~((r + x) + HeaderSize > m)
    BY <1>1, <1>2, <1>3, <1>4, <1>9, <1>h DEF U64
  <2> QED
    BY <1>5, <1>7, <1>8, <1>9, <2>1 DEF SlotHeader, n, st, r, m
<1>12. SlotPayload(d, i) = {[from |-> (r + x) + o, to |-> ((r + x) + o) + c]}
  <2>1. ~(i >= n) /\ ~(((r + x) + o) + c > m)
    BY <1>1, <1>2, <1>3, <1>4, <1>10, <1>h DEF U64
  <2> QED
    BY <1>5, <1>7, <1>8, <1>10, <2>1 DEF SlotPayload, n, st, r, o, c, m
<1>13. r + x \in Nat
  BY <1>1, <1>2
<1> QED
  BY <1>2, <1>6, <1>11, <1>12, <1>13 DEF n, st, r, o, c, m, x

\* A descriptor that passes the tests made before the memory is mapped lays
\* every slot out soundly: slot_header and slot_payload succeed for each
\* slot, the payload lies behind the header, ends within the mapping and
\* never reaches the next slot, although all of it is computed in integers
\* that wrap.
THEOREM ValidRingsAreSound ==
    ASSUME NEW d \in Descriptors, ValidForMapping(d)
    PROVE  SlotsSound(d)
<1> DEFINE At(i) == d.slot_region_offset + i * d.slot_stride
<1> DEFINE o == d.slot_payload_offset
<1> DEFINE c == d.slot_payload_capacity
<1>1. /\ d.slot_count \in Nat \ {0} /\ d.slot_stride \in Nat /\ d.slot_region_offset \in Nat
      /\ o \in Nat /\ c \in Nat \ {0} /\ o >= HeaderSize /\ o + c <= d.slot_stride
      /\ d.mapped_size \in Nat /\ HeaderSize \in Nat \ {0}
  BY MappingBounds, LayoutAssumption
<1>2. ASSUME NEW i \in 0 .. (d.slot_count - 1)
      PROVE  /\ At(i) \in Nat /\ At(i) + (o + c) <= d.mapped_size
             /\ SlotHeader(d, i) = {[from |-> At(i), to |-> At(i) + HeaderSize]}
             /\ SlotPayload(d, i) = {[from |-> At(i) + o, to |-> (At(i) + o) + c]}
  BY SlotAddresses
<1>3. ASSUME NEW i \in 0 .. (d.slot_count - 1), NEW j \in (i + 1) .. (d.slot_count - 1)
      PROVE  At(i) + d.slot_stride <= At(j)
  <2>1. i \in Nat /\ j \in Nat /\ i + 1 \in Nat /\ i + 1 <= j
    BY <1>1
  <2>2. (i + 1) * d.slot_stride <= j * d.slot_stride /\ j * d.slot_stride \in Nat
    BY <1>1, <2>1, ProductGrows
  <2>3. (i + 1) * d.slot_stride = i * d.slot_stride + d.slot_stride /\ i * d.slot_stride \in Nat
    BY <1>1, <2>1, ProductStep, ProductGrows
  <2> DEFINE x == i * d.slot_stride
  <2> DEFINE y == j * d.slot_stride
  <2>4. x \in Nat /\ y \in Nat /\ x + d.slot_stride <= y
    BY <2>2, <2>3
  <2> HIDE DEF x, y
  <2>5. (d.slot_region_offset + x) + d.slot_stride <= d.slot_region_offset + y
    BY <1>1, <2>4
  <2> QED
    BY <2>5 DEF x, y
<1> HIDE DEF At, o, c
<1>4. ASSUME NEW i \in 0 .. (d.slot_count - 1)
      PROVE  /\ SlotHeader(d, i) # {} /\ SlotPayload(d, i) # {}
             /\ \A h \in SlotHeader(d, i), p \in SlotPayload(d, i) :
                  /\ h.from < h.to /\ h.to <= p.from /\ p.from < p.to /\ p.to <= d.mapped_size
                  /\ \A j \in (i + 1) .. (d.slot_count - 1) : \A next \in SlotHeader(d, j) : p.to <= next.from
  <2>1. SlotHeader(d, i) # {} /\ SlotPayload(d, i) # {}
    BY <1>2
  <2>2. ASSUME NEW h \in SlotHeader(d, i), NEW p \in SlotPayload(d, i)
        PROVE  /\ h.from = At(i) /\ h.to = At(i) + HeaderSize
               /\ p.from = At(i) + o /\ p.to = (At(i) + o) + c
    BY <1>2
  <2>3. At(i) \in Nat /\ At(i) + (o + c) <= d.mapped_size
    BY <1>2
  <2>4. ASSUME NEW j \in (i + 1) .. (d.slot_count - 1)
        PROVE  \A next \in SlotHeader(d, j) : (At(i) + o) + c <= next.from
    <3>1. j \in 0 .. (d.slot_count - 1)
      BY <1>1
    <3>2. At(i) + d.slot_stride <= At(j) /\ At(j) \in Nat
      BY <1>2, <1>3, <3>1
    <3>3. \A next \in SlotHeader(d, j) : next.from = At(j)
      BY <1>2, <3>1
    <3>4. (At(i) + o) + c <= At(j)
      BY <1>1, <2>3, <3>2
    <3> QED
      BY <3>3, <3>4
  <2>5. /\ At(i) < At(i) + HeaderSize /\ At(i) + HeaderSize <= At(i) + o
        /\ At(i) + o < (At(i) + o) + c /\ (At(i) + o) + c <= d.mapped_size
    BY <1>1, <2>3
  <2> QED
    BY <2>1, <2>2, <2>4, <2>5
<1> QED
  BY <1>4 DEF SlotsSound

-----------------------------------------------------------------------------
(* The descriptors the client makes.                                       *)

\* What make_mtl_worker_shared_memory_ring_descriptor is asked for.
RingConfigs ==
    [ring_id : U64, media_kind : Nat, fd_index : Nat, slot_count : U64, capacity : U64]

\* The stride a slot of the configured capacity needs, had integers no width.
NeededStride(cfg) == (HeaderSize + cfg.capacity) + Increment(HeaderSize + cfg.capacity)

\* align_up_u64 rounds up to a multiple of the alignment, or fails.
LEMMA AlignUpExact ==
    ASSUME NEW v \in U64
    PROVE  /\ Increment(v) \in Nat /\ (v + Increment(v)) % Alignment = 0
           /\ \A w \in AlignUp(v) : w = v + Increment(v) /\ w \in U64
           /\ v + Increment(v) <= MaxU64 => v + Increment(v) \in AlignUp(v)
<1>1. v \in Nat /\ v <= MaxU64 /\ Alignment \in Nat \ {0} /\ MaxU64 \in Nat
  BY LayoutAssumption DEF U64
<1> DEFINE q == v \div Alignment
<1> DEFINE r == v % Alignment
<1>2. q \in Nat /\ r \in 0 .. Alignment - 1 /\ v = Alignment * q + r /\ Alignment * q \in Nat
  <2>1. q \in Nat /\ r \in 0 .. Alignment - 1 /\ v = Alignment * q + r
    BY <1>1, Division
  <2> QED
    BY <1>1, <2>1, ProductGrows
<1>3. Increment(v) \in Nat
  <2> HIDE DEF q
  <2> QED
    BY <1>1, <1>2 DEF Increment
<1>4. (v + Increment(v)) % Alignment = 0
  <2>1. CASE r = 0
    BY <1>1, <2>1 DEF Increment
  <2>2. CASE r # 0
    <3>1. Increment(v) = Alignment - r
      BY <2>2 DEF Increment
    <3> DEFINE z == Alignment * q
    <3>2. z \in Nat /\ v = z + r
      BY <1>2
    <3> HIDE DEF z, r
    <3>3. v + Increment(v) = z + Alignment
      BY <1>1, <1>2, <3>1, <3>2
    <3>4. z + Alignment = Alignment * (q + 1)
      <4>1. (q + 1) * Alignment = q * Alignment + Alignment
        BY <1>1, <1>2, ProductStep
      <4>2. (q + 1) * Alignment = Alignment * (q + 1) /\ q * Alignment = Alignment * q
        BY <1>1, <1>2
      <4> QED
        BY <4>1, <4>2 DEF z
    <3>5. q + 1 \in Nat
      BY <1>2
    <3> QED
      BY <1>1, <3>3, <3>4, <3>5, Multiple
  <2> QED
    BY <2>1, <2>2
<1>5. ASSUME NEW w \in AlignUp(v) PROVE w = v + Increment(v) /\ w \in U64
  BY <1>1, <1>3 DEF AlignUp, AddOverflows, Plus, U64
<1>6. ASSUME v + Increment(v) <= MaxU64 PROVE v + Increment(v) \in AlignUp(v)
  BY <1>1, <1>3, <1>6 DEF AlignUp, AddOverflows, Plus
<1> QED
  BY <1>3, <1>4, <1>5, <1>6

\* The header's size is a multiple of its alignment.
LEMMA HeaderAligned == AlignUp(HeaderSize) = {HeaderSize} /\ HeaderSize \in U64
<1>1. HeaderSize \in U64 /\ Increment(HeaderSize) = 0 /\ HeaderSize + 0 = HeaderSize /\ HeaderSize <= MaxU64
  BY LayoutAssumption DEF U64, Increment
<1> QED
  BY <1>1, AlignUpExact

\* A descriptor before the client's last test, with the stride it has.
LEMMA CandidateDescriptor ==
    ASSUME NEW cfg \in RingConfigs, NEW d
    PROVE  d \in MakeDescriptor(cfg) <=>
             /\ cfg.ring_id # 0 /\ cfg.slot_count # 0 /\ cfg.capacity # 0 /\ cfg.media_kind \in MediaKinds
             /\ ~AddOverflows(HeaderSize, cfg.capacity)
             /\ \E stride \in AlignUp(Plus(HeaderSize, cfg.capacity)) :
                  /\ ~MulOverflows(cfg.slot_count, stride)
                  /\ d = [ring_id |-> cfg.ring_id, media_kind |-> cfg.media_kind,
                          fd_index |-> cfg.fd_index, layout_version |-> LayoutVersion,
                          mapped_size |-> Times(cfg.slot_count, stride), slot_region_offset |-> 0,
                          slot_count |-> cfg.slot_count, slot_stride |-> stride,
                          slot_payload_offset |-> HeaderSize, slot_payload_capacity |-> cfg.capacity]
             /\ ValidForMapping(d)
<1> QED
  BY HeaderAligned DEF MakeDescriptor

\* The tests a new descriptor has to pass never refuse it: rounding up keeps
\* the payload within its slot, and slot_count slots fit the mapping exactly.
LEMMA CandidateValid ==
    ASSUME NEW cfg \in RingConfigs, NEW stride \in U64,
           cfg.ring_id # 0, cfg.slot_count # 0, cfg.capacity # 0, cfg.media_kind \in MediaKinds,
           HeaderSize + cfg.capacity \in U64, stride = NeededStride(cfg),
           cfg.slot_count * stride <= MaxU64,
           NEW d \in Descriptors,
           d = [ring_id |-> cfg.ring_id, media_kind |-> cfg.media_kind,
                fd_index |-> cfg.fd_index, layout_version |-> LayoutVersion,
                mapped_size |-> cfg.slot_count * stride, slot_region_offset |-> 0,
                slot_count |-> cfg.slot_count, slot_stride |-> stride,
                slot_payload_offset |-> HeaderSize, slot_payload_capacity |-> cfg.capacity]
    PROVE  ValidForMapping(d)
<1> DEFINE n == cfg.slot_count
<1> DEFINE c == cfg.capacity
<1> DEFINE l == (n - 1) * stride
<1> DEFINE t == n * stride
<1> DEFINE e == HeaderSize + c
<1>1. /\ MaxU64 \in Nat /\ HeaderSize \in Nat \ {0} /\ Alignment \in Nat \ {0}
      /\ n \in Nat \ {0} /\ c \in Nat \ {0} /\ stride \in Nat /\ n \in U64 /\ c \in U64
      /\ HeaderSize \in U64
  BY LayoutAssumption DEF RingConfigs, U64
<1>2. e \in U64 /\ e <= stride /\ stride % Alignment = 0 /\ stride # 0 /\ e \in Nat
  <2>1. Increment(e) \in Nat /\ (e + Increment(e)) % Alignment = 0 /\ stride = e + Increment(e)
    BY AlignUpExact DEF NeededStride
  <2>2. e \in Nat \ {0}
    BY <1>1
  <2> HIDE DEF e
  <2> QED
    BY <1>1, <2>1, <2>2 DEF e
<1>3. l \in Nat /\ t \in Nat /\ l + stride = t /\ n - 1 \in Nat /\ n - 1 \in U64
  <2>1. n - 1 \in Nat /\ (n - 1) + 1 = n /\ n - 1 \in U64
    BY <1>1 DEF U64
  <2>2. ((n - 1) + 1) * stride = (n - 1) * stride + stride
    BY <1>1, <2>1, ProductStep
  <2>3. (n - 1) * stride \in Nat /\ n * stride \in Nat
    BY <1>1, <2>1, ProductGrows
  <2> QED
    BY <2>1, <2>2, <2>3
<1>4. /\ d.slot_count = n /\ d.slot_stride = stride /\ d.slot_payload_offset = HeaderSize
      /\ d.slot_payload_capacity = c /\ d.mapped_size = t /\ d.slot_region_offset = 0
      /\ d.ring_id # 0 /\ d.layout_version = LayoutVersion /\ d.media_kind \in MediaKinds
  OBVIOUS
<1>5. t <= MaxU64 /\ l <= MaxU64 /\ l + e <= t /\ t # 0
  <2>1. t <= MaxU64
    OBVIOUS
  <2> HIDE DEF t, l, e, n, c
  <2> QED
    BY <1>1, <1>2, <1>3, <2>1
<1>6. ~MulOverflows(n - 1, stride) /\ Times(n - 1, stride) = l
  <2>1. ~(l > MaxU64)
    <3> HIDE DEF l, t
    <3> QED
      BY <1>1, <1>3, <1>5
  <2> QED
    BY <1>3, <2>1, MulOverflowsExact
<1> HIDE DEF t, l, n, c
<1>7. ~AddOverflows(HeaderSize, c) /\ Plus(HeaderSize, c) = e
  BY <1>1, <1>2, AddOverflowsExact DEF U64
<1> HIDE DEF e
<1>8. ~AddOverflows(l, e) /\ Plus(l, e) = l + e /\ ~AddOverflows(0, l + e) /\ Plus(0, l + e) = l + e
  BY <1>1, <1>2, <1>3, <1>5 DEF AddOverflows, Plus
<1>9. FitsMapping(d)
  BY <1>2, <1>4, <1>5, <1>6, <1>7, <1>8 DEF FitsMapping, PayloadEnd, LastSlot
<1>10. 0 % Alignment = 0 /\ HeaderSize >= HeaderSize
  BY <1>1
<1>11. DescriptorValid(d)
  BY <1>1, <1>2, <1>4, <1>5, <1>9 DEF DescriptorValid
<1> QED
  BY <1>2, <1>4, <1>10, <1>11 DEF ValidForMapping

\* Every descriptor the client makes is sound, and has the slots and the
\* payload capacity it was asked for.
THEOREM MadeRingsAreSound ==
    ASSUME NEW cfg \in RingConfigs, NEW d \in MakeDescriptor(cfg)
    PROVE  /\ d \in Descriptors /\ SlotsSound(d)
           /\ d.slot_count = cfg.slot_count /\ d.slot_payload_capacity = cfg.capacity
           /\ d.mapped_size = cfg.slot_count * d.slot_stride
<1>1. /\ ValidForMapping(d) /\ ~AddOverflows(HeaderSize, cfg.capacity)
      /\ cfg.capacity \in U64 /\ cfg.slot_count \in U64 /\ cfg.ring_id \in U64
      /\ cfg.media_kind \in Nat /\ cfg.fd_index \in Nat
  BY CandidateDescriptor DEF RingConfigs
<1>2. PICK stride \in AlignUp(Plus(HeaderSize, cfg.capacity)) :
        /\ ~MulOverflows(cfg.slot_count, stride)
        /\ d = [ring_id |-> cfg.ring_id, media_kind |-> cfg.media_kind,
                fd_index |-> cfg.fd_index, layout_version |-> LayoutVersion,
                mapped_size |-> Times(cfg.slot_count, stride), slot_region_offset |-> 0,
                slot_count |-> cfg.slot_count, slot_stride |-> stride,
                slot_payload_offset |-> HeaderSize, slot_payload_capacity |-> cfg.capacity]
  BY CandidateDescriptor
<1>3. Plus(HeaderSize, cfg.capacity) \in U64
  BY <1>1, HeaderAligned, AddOverflowsExact
<1>4. stride \in U64
  BY <1>3, AlignUpExact
<1>5. Times(cfg.slot_count, stride) = cfg.slot_count * stride /\ Times(cfg.slot_count, stride) \in U64
  BY <1>1, <1>2, <1>4, MulOverflowsExact
<1>6. 0 \in U64 /\ LayoutVersion \in Nat
  BY LayoutAssumption DEF U64, LayoutVersion
<1>7. d \in Descriptors
  BY <1>1, <1>2, <1>4, <1>5, <1>6, HeaderAligned DEF Descriptors
<1>8. SlotsSound(d)
  BY <1>1, <1>7, ValidRingsAreSound
<1> QED
  BY <1>2, <1>5, <1>7, <1>8

\* The client refuses no ring that fits: it makes a descriptor for every
\* configuration whose slots, each rounded up to the alignment, have together
\* a size that a uint64_t can hold.
THEOREM FittingRingsAreMade ==
    ASSUME NEW cfg \in RingConfigs,
           cfg.ring_id # 0, cfg.slot_count # 0, cfg.capacity # 0, cfg.media_kind \in MediaKinds,
           cfg.slot_count * NeededStride(cfg) <= MaxU64
    PROVE  MakeDescriptor(cfg) # {}
<1> DEFINE stride == NeededStride(cfg)
<1> DEFINE e == HeaderSize + cfg.capacity
<1>1. /\ cfg.capacity \in U64 /\ cfg.slot_count \in U64 /\ cfg.ring_id \in U64
      /\ cfg.media_kind \in Nat /\ cfg.fd_index \in Nat
      /\ cfg.capacity \in Nat /\ cfg.slot_count \in Nat \ {0} /\ MaxU64 \in Nat
      /\ HeaderSize \in Nat /\ Alignment \in Nat \ {0}
  BY LayoutAssumption DEF RingConfigs, U64
<1>2. Increment(e) \in Nat /\ e \in Nat /\ stride = e + Increment(e)
  <2>1. e \in Nat
    BY <1>1
  <2>2. e % Alignment \in 0 .. Alignment - 1
    BY <1>1, <2>1, Division
  <2> HIDE DEF e
  <2>3. Increment(e) \in Nat
    BY <1>1, <2>1, <2>2 DEF Increment
  <2> QED
    BY <2>1, <2>3 DEF e, NeededStride
<1>3. stride \in Nat /\ stride <= cfg.slot_count * stride /\ cfg.slot_count * stride \in Nat
  <2>1. stride \in Nat
    <3> HIDE DEF e, stride
    <3> QED
      BY <1>2
  <2>2. 1 * stride <= cfg.slot_count * stride /\ cfg.slot_count * stride \in Nat
    BY <1>1, <2>1, ProductGrows
  <2> QED
    BY <2>1, <2>2
<1>4. stride \in U64 /\ e \in U64
  <2> DEFINE t == cfg.slot_count * stride
  <2>1. t \in Nat /\ t <= MaxU64 /\ stride <= t
    BY <1>3
  <2> HIDE DEF t, stride, e
  <2> QED
    BY <1>1, <1>2, <1>3, <2>1 DEF U64
<1>5. ~AddOverflows(HeaderSize, cfg.capacity) /\ Plus(HeaderSize, cfg.capacity) = e
  BY <1>1, <1>4, HeaderAligned, AddOverflowsExact DEF U64
<1>6. ~MulOverflows(cfg.slot_count, stride) /\ Times(cfg.slot_count, stride) = cfg.slot_count * stride
      /\ cfg.slot_count * stride \in U64
  <2> DEFINE t == cfg.slot_count * stride
  <2>1. ~(t > MaxU64)
    <3>1. t \in Nat /\ t <= MaxU64
      BY <1>3
    <3> HIDE DEF t
    <3> QED
      BY <1>1, <3>1
  <2> QED
    BY <1>1, <1>4, <2>1, MulOverflowsExact
<1>7. stride \in AlignUp(e)
  <2>1. stride <= MaxU64
    <3> HIDE DEF stride
    <3> QED
      BY <1>1, <1>4 DEF U64
  <2> QED
    BY <1>2, <1>4, <2>1, AlignUpExact
<1> DEFINE d == [ring_id |-> cfg.ring_id, media_kind |-> cfg.media_kind,
                 fd_index |-> cfg.fd_index, layout_version |-> LayoutVersion,
                 mapped_size |-> cfg.slot_count * stride, slot_region_offset |-> 0,
                 slot_count |-> cfg.slot_count, slot_stride |-> stride,
                 slot_payload_offset |-> HeaderSize, slot_payload_capacity |-> cfg.capacity]
<1>8. d \in Descriptors
  <2>1. 0 \in U64 /\ LayoutVersion \in Nat
    BY LayoutAssumption DEF U64, LayoutVersion
  <2> QED
    BY <1>1, <1>4, <1>6, <2>1, HeaderAligned DEF Descriptors
<1>9. ValidForMapping(d)
  BY <1>4, <1>8, CandidateValid
<1>10. d \in MakeDescriptor(cfg)
  BY <1>5, <1>6, <1>7, <1>9, CandidateDescriptor
<1> QED
  BY <1>10

-----------------------------------------------------------------------------
\* The control socket

-----------------------------------------------------------------------------
\* Frames

\* The rings of a message are a sequence.
LEMMA RingsAreSequences ==
    ASSUME NEW m \in Names
    PROVE  RingsIn(Msg[m]) \in Seq(Range(RingsIn(Msg[m])))
<1> DEFINE f == Msg[m].f
<1>1. CASE Msg[m].tag = "StartSessions"
  <2>1. f[<<"rings", "count">>] \in Nat
    BY <1>1, MessageAssumption
  <2> DEFINE n == f[<<"rings", "count">>]
  <2> DEFINE rings == [i \in 1..n |-> RingAt(f, i)]
  <2>2. RingsIn(Msg[m]) = rings
    BY <1>1 DEF RingsIn, RingsOf
  <2>3. \A i \in 1..n : rings[i] \in Range(rings)
    BY DEF Range
  <2> HIDE DEF n
  <2>4. rings \in Seq(Range(rings))
    BY <2>1, <2>3 DEF n
  <2> QED
    BY <2>2, <2>4
<1>2. CASE Msg[m].tag # "StartSessions"
  <2>1. RingsIn(Msg[m]) = <<>>
    BY <1>2 DEF RingsIn
  <2> QED
    BY <2>1
<1> QED
  BY <1>1, <1>2

\* What every frame the writer accepts is like.
LEMMA SentFrameFacts ==
    ASSUME NEW f \in SentFrames
    PROVE  /\ f.msg \in Names /\ f.size \in 1..MaxFrameBytes /\ f.size \in Nat
           /\ f.rings = RingsIn(Msg[f.msg])
           /\ Len(f.rings) \in Nat /\ Len(f.rings) <= MaxFds
           /\ Total(f) = f.size + 4 /\ Total(f) \in Nat /\ Total(f) >= 5
           /\ CodecRoundTrips => f.decoded = {[msg |-> f.msg, rings |-> f.rings]}
<1>1. PICK m \in Names : f \in FramesFor(m, Msg[m])
  BY DEF SentFrames, Frames
<1>2. PICK p \in Payloads(Msg[m]) :
        f = [msg |-> m, size |-> Len(p), rings |-> RingsIn(Msg[m]),
             decoded |-> {[msg |-> NameOf(d), rings |-> RingsIn(d)] : d \in Decoded(Msg[m].tag, p)}]
  BY <1>1 DEF FramesFor
<1>3. f.msg = m /\ f.rings = RingsIn(Msg[m])
      /\ f.decoded = {[msg |-> NameOf(d), rings |-> RingsIn(d)] : d \in Decoded(Msg[m].tag, p)}
  BY <1>2
<1>4. f.size \in 1..MaxFrameBytes /\ Len(f.rings) <= MaxFds /\ f.size \in Nat
  BY IpcAssumption DEF SentFrames, validate_outbound_frame
<1>5. Len(f.rings) \in Nat
  BY <1>3, RingsAreSequences, LenProperties
<1>6. Total(f) = f.size + 4 /\ Total(f) \in Nat /\ Total(f) >= 5
  BY <1>4 DEF Total, HeaderBytes
<1>7. ASSUME CodecRoundTrips PROVE f.decoded = {[msg |-> f.msg, rings |-> f.rings]}
  <2>1. Decoded(Msg[m].tag, p) = {Msg[m]}
    BY <1>7, <1>2 DEF CodecRoundTrips
  <2>2. NameOf(Msg[m]) = m
    BY MessageAssumption DEF NameOf
  <2> QED
    BY <1>3, <2>1, <2>2
<1> QED
  BY <1>3, <1>4, <1>5, <1>6, <1>7

\* The descriptors of a frame that was begun.
LEMMA FdsOfFacts ==
    ASSUME TypesInv, NEW n \in 1..Len(order)
    PROVE  /\ order[n].frame \in SentFrames /\ order[n].torn \in BOOLEAN
           /\ FdsOf(n) \in Fds /\ Len(FdsOf(n)) = Len(order[n].frame.rings) /\ Len(FdsOf(n)) <= MaxFds
<1>0. order \in Seq([frame : SentFrames, torn : BOOLEAN])
  BY DEF TypesInv
<1>1. order[n] \in [frame : SentFrames, torn : BOOLEAN]
  BY <1>0, ElementOfSeq
<1>2. order[n].frame \in SentFrames
  BY <1>1
<1>3. Len(order[n].frame.rings) \in Nat /\ Len(order[n].frame.rings) <= MaxFds
  BY <1>2, SentFrameFacts
<1> DEFINE c == Len(order[n].frame.rings)
<1>4. FdsOf(n) = [i \in 1..c |-> <<n, i>>] /\ n \in Nat
  BY DEF FdsOf
<1>5. \A i \in 1..c : <<n, i>> \in Nat \X Nat
  BY <1>3, <1>4
<1> HIDE DEF c
<1>6. [i \in 1..c |-> <<n, i>>] \in Seq(Nat \X Nat) /\ Len([i \in 1..c |-> <<n, i>>]) = c
  BY <1>3, <1>5 DEF c
<1> QED
  BY <1>1, <1>2, <1>3, <1>4, <1>6 DEF c, Fds

-----------------------------------------------------------------------------
\* Positions

\* The next byte to be written, and what it says of the frame being written.
LEMMA NextWriteFacts ==
    ASSUME TypesInv, WriterInv
    PROVE  /\ Len(order) \in Nat /\ DOMAIN order = 1..Len(order)
           /\ lock = Nobody => NextWrite.n = Len(order) + 1 /\ NextWrite.lo = 1
           /\ lock # Nobody => /\ lock \in Threads /\ writer[lock].pc = "writing"
                               /\ writer[lock].sent \in Nat /\ writer[lock].n = Len(order)
                               /\ NextWrite.n = Len(order) /\ NextWrite.lo = writer[lock].sent + 1
                               /\ Len(order) \in 1..Len(order) /\ order[Len(order)].frame = writer[lock].frame
                               /\ ~order[Len(order)].torn
                               /\ NextWrite.lo <= Total(order[Len(order)].frame)
                               /\ Total(order[Len(order)].frame) \in Nat
           /\ NextWrite.n \in Nat /\ NextWrite.lo \in Nat /\ NextWrite.n >= 1 /\ NextWrite.lo >= 1
<1>1. Len(order) \in Nat /\ DOMAIN order = 1..Len(order)
  BY LenProperties DEF TypesInv
<1>2. CASE lock = Nobody
  BY <1>1, <1>2 DEF NextWrite
<1>3. CASE lock # Nobody
  <2>1. lock \in Threads /\ writer[lock].pc = "writing" /\ writer[lock].n = Len(order) /\ order # <<>>
        /\ order[Len(order)].frame = writer[lock].frame /\ ~order[Len(order)].torn
        /\ writer[lock].sent < Total(writer[lock].frame)
    BY <1>3 DEF TypesInv, WriterInv
  <2>2. writer[lock].sent \in Nat
    BY <2>1 DEF TypesInv
  <2>3. Len(order) \in 1..Len(order)
    <3>1. order \in Seq([frame : SentFrames, torn : BOOLEAN])
      BY DEF TypesInv
    <3> QED
      BY <2>1, <3>1, EmptySeq
  <2>4. order[Len(order)].frame \in SentFrames
    BY <2>3, FdsOfFacts
  <2>5. Total(order[Len(order)].frame) \in Nat
    BY <2>4, SentFrameFacts
  <2>6. NextWrite.n = Len(order) /\ NextWrite.lo = writer[lock].sent + 1
    BY <1>3 DEF NextWrite
  <2>7. NextWrite.lo <= Total(order[Len(order)].frame)
    BY <2>1, <2>2, <2>5, <2>6
  <2>8. NextWrite.n \in Nat /\ NextWrite.lo \in Nat /\ NextWrite.n >= 1 /\ NextWrite.lo >= 1
    BY <1>1, <2>2, <2>3, <2>6
  <2> QED
    BY <1>1, <1>3, <2>1, <2>2, <2>3, <2>5, <2>6, <2>7, <2>8
<1> QED
  BY <1>2, <1>3

\* The next byte to be read is one of a frame begun, or of the next one.
LEMMA NextReadFacts ==
    ASSUME TypesInv, WriterInv, StreamInv
    PROVE  /\ NextRead.n \in Nat /\ NextRead.lo \in Nat /\ NextRead.n >= 1 /\ NextRead.lo >= 1
           /\ NextRead.n <= NextWrite.n
           /\ NextRead.n = NextWrite.n => NextRead.lo <= NextWrite.lo
           /\ NextRead.n \in 1..Len(order) => NextRead.lo <= Total(order[NextRead.n].frame)
           /\ NextRead.n \notin 1..Len(order) => stream = <<>> /\ NextRead = NextWrite /\ lock = Nobody
           /\ stream # <<>> => /\ Len(stream) \in Nat /\ 1 \in 1..Len(stream) /\ NextRead.n \in 1..Len(order)
                               /\ NextRead.n = stream[1].n /\ NextRead.lo = stream[1].lo
                               /\ stream[1].n \in Nat /\ stream[1].lo \in Nat /\ stream[1].hi \in Nat
           /\ stream = <<>> => NextRead = NextWrite
<1>1. CASE stream = <<>>
  <2>1. NextRead = NextWrite
    BY <1>1 DEF NextRead
  <2> QED
    BY <1>1, <2>1, NextWriteFacts
<1>2. CASE stream # <<>>
  <2> DEFINE Segments == [n : Nat, lo : Nat, hi : Nat, fds : Fds]
  <2>0. stream \in Seq(Segments)
    BY DEF TypesInv
  <2>1. Len(stream) \in Nat /\ 1 \in 1..Len(stream)
    BY <1>2, <2>0, EmptySeq
  <2>2. stream[1] \in Segments
    BY <2>0, <2>1, ElementOfSeq
  <2>3. IsWritten(stream[1])
    BY <2>1 DEF StreamInv
  <2>4. NextRead.n = stream[1].n /\ NextRead.lo = stream[1].lo
    BY <1>2 DEF NextRead
  <2>5. order[stream[1].n].frame \in SentFrames
    BY <2>3, FdsOfFacts DEF IsWritten
  <2>6. Total(order[stream[1].n].frame) \in Nat
    BY <2>5, SentFrameFacts
  <2> QED
    BY <1>2, <2>1, <2>2, <2>3, <2>4, <2>6, NextWriteFacts DEF IsWritten
<1> QED
  BY <1>1, <1>2

-----------------------------------------------------------------------------
\* Steps of the writers

\* The frames that were begun stay, but for one of which nothing was written.
OrderGrows ==
    /\ \A n \in 1..Len(order) :
         \/ /\ n \in 1..Len(order') /\ order'[n].frame = order[n].frame
            /\ order[n].torn => order'[n].torn
         \/ n = NextWrite.n /\ NextWrite.lo = 1 /\ ~order[n].torn
    /\ \A n \in 1..Len(order') : order'[n].torn => n \in 1..Len(order)

\* Position r is q, or the first behind a frame torn at q.
SameOrJump(q, r) ==
    \/ r.n = q.n /\ r.lo = q.lo
    \/ q.n \in 1..Len(order) /\ q.n \in 1..Len(order') /\ order'[q.n].torn /\ q.lo > 1 /\ r.n = q.n + 1 /\ r.lo = 1

\* The writers have gone on.
Advance ==
    /\ OrderGrows
    /\ SameOrJump(NextRead, NextRead')
    /\ \/ NextWrite.n < (NextWrite').n
       \/ NextWrite.n = (NextWrite').n /\ NextWrite.lo <= (NextWrite').lo

CalledThreads == {u \in Threads : writer[u].pc = "called"}

\* A step that leaves the order alone, and the lock with its holder's progress.
LEMMA SameWrite ==
    ASSUME TypesInv, WriterInv, UNCHANGED <<order, lock>>, lock # Nobody => writer'[lock].sent = writer[lock].sent
    PROVE  OrderGrows /\ SameOrJump(NextWrite, NextWrite')
<1>1. NextWrite' = NextWrite
  BY DEF NextWrite
<1>2. order' = order
  OBVIOUS
<1> QED
  BY <1>1, <1>2 DEF OrderGrows, SameOrJump

\* A thread calls: the invariants of the writers stay, no byte is written.
LEMMA CallWrites ==
    ASSUME TypesInv, WriterInv, NEW t \in Threads, Call(t)
    PROVE  /\ TypesInv' /\ WriterInv' /\ OrderGrows /\ SameOrJump(NextWrite, NextWrite')
           /\ UNCHANGED <<stream, readerVars, shut>>
<1>0. PICK m \in MessagesOf[dir][t] : \E f \in Frames[m] :
        /\ validate_outbound_frame(f)
        /\ writer' = [writer EXCEPT ![t] = [pc |-> "called", frame |-> f, n |-> 0, sent |-> 0]]
  BY DEF Call
<1>1. PICK frame \in Frames[m] :
        /\ validate_outbound_frame(frame)
        /\ writer' = [writer EXCEPT ![t] = [pc |-> "called", frame |-> frame, n |-> 0, sent |-> 0]]
  BY <1>0
<1>2. /\ writer[t].pc = "idle"
      /\ Len(order) + Cardinality(CalledThreads) < MaxFrames
      /\ UNCHANGED <<dir, lock, order, timeouts, failed, shut, stream, readerVars>>
  BY DEF Call, CalledThreads
<1>3. m \in Names
  BY MessageAssumption DEF TypesInv
<1>4. frame \in SentFrames
  BY <1>1, <1>3 DEF SentFrames
<1>5. writer \in [Threads -> [pc : {"idle", "called", "writing"}, frame : SentFrames \cup {NoFrame}, n : Nat, sent : Nat]]
  BY DEF TypesInv
<1>6. writer' \in [Threads -> [pc : {"idle", "called", "writing"}, frame : SentFrames \cup {NoFrame}, n : Nat, sent : Nat]]
  BY <1>1, <1>4, <1>5
<1>7. TypesInv'
  BY <1>2, <1>6 DEF TypesInv, readerVars
<1>8. /\ writer'[t].pc = "called" /\ writer'[t].frame = frame /\ writer'[t].sent = 0
      /\ \A u \in Threads : u # t => writer'[u] = writer[u]
  BY <1>1, <1>5
<1>9. lock # t
  BY <1>2 DEF WriterInv
<1>10. Len(order') + Cardinality(CalledThreads') <= MaxFrames
  <2>1. CalledThreads' = CalledThreads \cup {t} /\ t \notin CalledThreads
    BY <1>2, <1>8 DEF CalledThreads
  <2>2. IsFiniteSet(CalledThreads)
    BY FS_Subset, IpcAssumption DEF CalledThreads
  <2>3. Cardinality(CalledThreads') = Cardinality(CalledThreads) + 1 /\ Cardinality(CalledThreads) \in Nat
    BY <2>1, <2>2, FS_AddElement, FS_CardinalityType
  <2> QED
    BY <1>2, <2>3, NextWriteFacts, IpcAssumption
<1>11. WriterInv'
  <2>1. ASSUME NEW u \in Threads
        PROVE  /\ writer'[u].pc = "writing" <=> lock' = u
               /\ writer'[u].pc = "called" => writer'[u].frame \in SentFrames /\ writer'[u].sent = 0
               /\ lock' = u => /\ writer'[u].n = Len(order') /\ order' # <<>>
                               /\ order'[Len(order')].frame = writer'[u].frame /\ ~order'[Len(order')].torn
                               /\ writer'[u].sent < Total(writer'[u].frame)
    BY <1>2, <1>4, <1>8, <1>9 DEF WriterInv
  <2>2. (TornFrames # {} /\ dir = "requests" => failed)'
    BY <1>2 DEF WriterInv, TornFrames
  <2> QED
    BY <1>10, <2>1, <2>2 DEF WriterInv, CalledThreads
<1>12. OrderGrows /\ SameOrJump(NextWrite, NextWrite')
  <2>1. lock # Nobody => writer'[lock].sent = writer[lock].sent
    BY <1>8, <1>9 DEF TypesInv
  <2> QED
    BY <1>2, <2>1, SameWrite
<1> QED
  BY <1>2, <1>7, <1>11, <1>12

\* A thread takes the write lock and begins a frame.
LEMMA LockWrites ==
    ASSUME TypesInv, WriterInv, NEW t \in Threads, Lock(t)
    PROVE  /\ TypesInv' /\ WriterInv' /\ OrderGrows /\ SameOrJump(NextWrite, NextWrite')
           /\ UNCHANGED <<stream, readerVars, shut>>
<1> DEFINE Orders == [frame : SentFrames, torn : BOOLEAN]
<1> DEFINE frame == writer[t].frame
<1> DEFINE begun == [frame |-> frame, torn |-> FALSE]
<1> DEFINE n == Len(order)
<1>1. /\ writer[t].pc = "called" /\ lock = Nobody /\ lock' = t
      /\ writer' = [writer EXCEPT ![t].pc = "writing", ![t].n = n + 1]
      /\ order' = Append(order, begun)
      /\ UNCHANGED <<dir, timeouts, failed, shut, stream, readerVars>>
  BY DEF Lock
<1>2. order \in Seq(Orders) /\ n \in Nat
  BY NextWriteFacts DEF TypesInv
<1>3. frame \in SentFrames /\ writer[t].sent = 0
  BY <1>1 DEF WriterInv
<1>4. begun \in Orders /\ begun.frame = frame /\ ~begun.torn
  BY <1>3
<1> HIDE DEF begun
<1>5. /\ order' \in Seq(Orders) /\ Len(order') = n + 1 /\ order' # <<>>
      /\ \A i \in 1..n : order'[i] = order[i]
      /\ order'[n + 1] = begun
  BY <1>1, <1>2, <1>4, AppendProperties
<1>6. writer \in [Threads -> [pc : {"idle", "called", "writing"}, frame : SentFrames \cup {NoFrame}, n : Nat, sent : Nat]]
  BY DEF TypesInv
<1> HIDE DEF n
<1>7. writer' \in [Threads -> [pc : {"idle", "called", "writing"}, frame : SentFrames \cup {NoFrame}, n : Nat, sent : Nat]]
  <2>1. n + 1 \in Nat
    BY <1>2
  <2> DEFINE k == n + 1
  <2> HIDE DEF k
  <2>2. writer' = [writer EXCEPT ![t].pc = "writing", ![t].n = k] /\ k \in Nat
    BY <1>1, <2>1 DEF k
  <2> QED
    BY <1>6, <2>2, Zenon
<1>8. /\ writer'[t].pc = "writing" /\ writer'[t].n = n + 1 /\ writer'[t].frame = frame /\ writer'[t].sent = 0
      /\ \A u \in Threads : u # t => writer'[u] = writer[u]
  BY <1>1, <1>3, <1>6
<1>9. TypesInv'
  BY <1>1, <1>5, <1>7 DEF TypesInv, readerVars
<1>10. Len(order') + Cardinality(CalledThreads') <= MaxFrames
  <2>1. CalledThreads' = CalledThreads \ {t} /\ t \in CalledThreads
    BY <1>1, <1>8 DEF CalledThreads
  <2>2. IsFiniteSet(CalledThreads)
    BY FS_Subset, IpcAssumption DEF CalledThreads
  <2>3. Cardinality(CalledThreads') = Cardinality(CalledThreads) - 1 /\ Cardinality(CalledThreads) \in Nat
    BY <2>1, <2>2, FS_RemoveElement, FS_CardinalityType
  <2>4. n + Cardinality(CalledThreads) <= MaxFrames
    BY DEF WriterInv, CalledThreads, n
  <2> QED
    BY <1>2, <1>5, <2>3, <2>4, IpcAssumption
<1>11. WriterInv'
  <2>1. ASSUME NEW u \in Threads
        PROVE  /\ writer'[u].pc = "writing" <=> lock' = u
               /\ writer'[u].pc = "called" => writer'[u].frame \in SentFrames /\ writer'[u].sent = 0
               /\ lock' = u => /\ writer'[u].n = Len(order') /\ order' # <<>>
                               /\ order'[Len(order')].frame = writer'[u].frame /\ ~order'[Len(order')].torn
                               /\ writer'[u].sent < Total(writer'[u].frame)
    <3>1. CASE u = t
      <4>1. Total(frame) \in Nat /\ Total(frame) >= 5
        BY <1>3, SentFrameFacts
      <4> QED
        BY <1>1, <1>4, <1>5, <1>8, <3>1, <4>1
    <3>2. CASE u # t
      <4>1. lock # u /\ lock' # u
        BY <1>1, <3>2, IpcAssumption
      <4> QED
        BY <1>8, <3>2, <4>1 DEF WriterInv
    <3> QED
      BY <3>1, <3>2
  <2>2. (TornFrames # {} /\ dir = "requests" => failed)'
    <3>1. ASSUME NEW i \in 1..Len(order'), order'[i].torn PROVE i \in 1..n /\ order[i].torn
      BY <1>2, <1>4, <1>5, <3>1
    <3>2. DOMAIN order' = 1..Len(order') /\ DOMAIN order = 1..n
      BY <1>2, <1>5, LenProperties DEF n
    <3>3. TornFrames' # {} => TornFrames # {}
      BY <3>1, <3>2 DEF TornFrames
    <3> QED
      BY <1>1, <3>3 DEF WriterInv
  <2> QED
    BY <1>10, <2>1, <2>2 DEF WriterInv, CalledThreads
<1>12. OrderGrows
  <2>1. \A i \in 1..Len(order') : order'[i].torn => i \in 1..n
    BY <1>2, <1>4, <1>5
  <2>2. \A i \in 1..n : i \in 1..Len(order')
    BY <1>2, <1>5
  <2> QED
    BY <1>5, <2>1, <2>2 DEF OrderGrows, n
<1>13. SameOrJump(NextWrite, NextWrite')
  <2>1. NextWrite.n = n + 1 /\ NextWrite.lo = 1
    BY <1>1 DEF NextWrite, n
  <2>2. (NextWrite').n = n + 1 /\ (NextWrite').lo = 1
    BY <1>1, <1>5, <1>8, IpcAssumption DEF NextWrite
  <2> QED
    BY <2>1, <2>2 DEF SameOrJump
<1> QED
  BY <1>1, <1>9, <1>11, <1>12, <1>13

\* The next byte to be written is a byte of a frame.
LEMMA NextWriteType == TypesInv /\ WriterInv => NextWrite.n \in Nat /\ NextWrite.lo \in Nat
BY NextWriteFacts

\* The writers go forward.
WritesOn ==
    \/ NextWrite.n < (NextWrite').n
    \/ NextWrite.n = (NextWrite').n /\ NextWrite.lo <= (NextWrite').lo

\* What was written stays, with its frame and its descriptors.
LEMMA WrittenStays ==
    ASSUME TypesInv, WriterInv, TypesInv', WriterInv', OrderGrows, WritesOn,
           NEW p, p.n \in Nat, p.lo \in Nat, p.hi \in Nat, IsWritten(p)
    PROVE  /\ IsWritten(p)' /\ p.n \in 1..Len(order') /\ order'[p.n].frame = order[p.n].frame
           /\ order[p.n].torn => order'[p.n].torn
           /\ FdsOf(p.n)' = FdsOf(p.n)
<1>1. /\ p.n \in 1..Len(order) /\ p.lo >= 1 /\ p.lo <= p.hi /\ p.hi <= Total(order[p.n].frame)
      /\ p.n < NextWrite.n \/ (p.n = NextWrite.n /\ p.hi < NextWrite.lo)
  BY DEF IsWritten
<1>2. ~(p.n = NextWrite.n /\ NextWrite.lo = 1)
  BY <1>1, NextWriteFacts
<1>3. p.n \in 1..Len(order') /\ order'[p.n].frame = order[p.n].frame /\ (order[p.n].torn => order'[p.n].torn)
  BY <1>1, <1>2 DEF OrderGrows
<1>4. (NextWrite').n \in Nat /\ (NextWrite').lo \in Nat
  <2>1. (TypesInv /\ WriterInv)'
    OBVIOUS
  <2>2. (NextWrite.n \in Nat /\ NextWrite.lo \in Nat)'
    BY <2>1, NextWriteType, PTL
  <2> QED
    BY <2>2
<1>5. p.n < (NextWrite').n \/ (p.n = (NextWrite').n /\ p.hi < (NextWrite').lo)
  BY <1>1, <1>4, NextWriteFacts DEF WritesOn
<1>6. IsWritten(p)'
  BY <1>1, <1>3, <1>5 DEF IsWritten
<1>7. FdsOf(p.n)' = FdsOf(p.n)
  BY <1>3 DEF FdsOf
<1> QED
  BY <1>3, <1>6, <1>7

\* What follows a written part still follows it.
LEMMA FollowsStays ==
    ASSUME TypesInv, WriterInv, TypesInv', WriterInv', OrderGrows, WritesOn,
           NEW p, p.n \in Nat, p.lo \in Nat, p.hi \in Nat, IsWritten(p),
           NEW q, NEW r, q.lo \in Nat, Follows(p, q), SameOrJump(q, r)
    PROVE  Follows(p, r)'
<1>1. order'[p.n].frame = order[p.n].frame /\ (order[p.n].torn => order'[p.n].torn)
  BY WrittenStays
<1>2. CASE r.n = q.n /\ r.lo = q.lo
  BY <1>1, <1>2 DEF Follows
<1>3. CASE order'[q.n].torn /\ q.lo > 1 /\ r.n = q.n + 1 /\ r.lo = 1
  <2>1. q.n = p.n
    BY <1>3 DEF Follows
  <2> QED
    BY <1>3, <2>1 DEF Follows
<1> QED
  BY <1>2, <1>3 DEF SameOrJump

\* The parts in the socket are typed.
LEMMA SegmentType ==
    ASSUME TypesInv, NEW i \in 1..Len(stream)
    PROVE  /\ Len(stream) \in Nat /\ stream[i].n \in Nat /\ stream[i].lo \in Nat /\ stream[i].hi \in Nat
           /\ stream[i].fds \in Fds /\ stream[i] \in [n : Nat, lo : Nat, hi : Nat, fds : Fds]
<1> DEFINE Segments == [n : Nat, lo : Nat, hi : Nat, fds : Fds]
<1>1. stream \in Seq(Segments)
  BY DEF TypesInv
<1>2. stream[i] \in Segments
  BY <1>1, ElementOfSeq
<1>3. Len(stream) \in Nat
  BY <1>1, LenProperties
<1> QED
  BY <1>2, <1>3

\* A step that puts nothing into the socket.
LEMMA SocketStays ==
    ASSUME TypesInv, WriterInv, StreamInv, TypesInv', WriterInv', OrderGrows,
           SameOrJump(NextWrite, NextWrite'), UNCHANGED stream
    PROVE  Advance /\ StreamInv'
<1>1. WritesOn
  BY NextWriteFacts DEF SameOrJump, WritesOn
<1>2. SameOrJump(NextRead, NextRead')
  <2>1. CASE stream = <<>>
    BY <2>1 DEF NextRead
  <2>2. CASE stream # <<>>
    <3>1. NextRead' = NextRead
      BY <2>2 DEF NextRead
    <3> QED
      BY <3>1 DEF SameOrJump
  <2> QED
    BY <2>1, <2>2
<1>3. StreamInv'
  <2>1. ASSUME NEW i \in 1..Len(stream)
        PROVE  /\ IsWritten(stream[i])'
               /\ stream[i].fds = IF stream[i].lo = 1 THEN FdsOf(stream[i].n)' ELSE <<>>
               /\ i < Len(stream) => Follows(stream[i], stream[i + 1])'
               /\ i = Len(stream) => Follows(stream[i], NextWrite)'
    <3>1. PICK p : p = stream[i]
      OBVIOUS
    <3>2. p.n \in Nat /\ p.lo \in Nat /\ p.hi \in Nat /\ IsWritten(p)
      BY <3>1, SegmentType DEF StreamInv
    <3>3. IsWritten(p)' /\ FdsOf(p.n)' = FdsOf(p.n)
      BY <3>2, <1>1, WrittenStays
    <3>4. stream'[i] = p /\ stream[i] = p
      BY <3>1
    <3>5. p.fds = IF p.lo = 1 THEN FdsOf(p.n) ELSE <<>>
      BY <3>4 DEF StreamInv
    <3>6. ASSUME i < Len(stream) PROVE Follows(stream[i], stream[i + 1])'
      <4>1. PICK q : q = stream[i + 1]
        OBVIOUS
      <4>2. i + 1 \in 1..Len(stream)
        BY <3>6, SegmentType
      <4>3. q.lo \in Nat
        BY <4>1, <4>2, SegmentType
      <4>4. Follows(p, q) /\ SameOrJump(q, q)
        BY <3>4, <3>6, <4>1 DEF StreamInv, SameOrJump
      <4>5. Follows(p, q)'
        BY <3>2, <4>3, <4>4, <1>1, FollowsStays
      <4>6. stream'[i + 1] = q
        BY <4>1
      <4> QED
        BY <3>4, <4>5, <4>6
    <3>7. ASSUME i = Len(stream) PROVE Follows(stream[i], NextWrite)'
      <4>1. PICK q : q = NextWrite
        OBVIOUS
      <4>2. PICK r : r = NextWrite'
        OBVIOUS
      <4>3. Follows(p, q) /\ SameOrJump(q, r) /\ q.lo \in Nat
        BY <3>4, <3>7, <4>1, <4>2, NextWriteFacts DEF StreamInv
      <4>4. Follows(p, r)'
        BY <3>2, <4>3, <1>1, FollowsStays
      <4> QED
        BY <3>4, <4>2, <4>4
    <3>8. IsWritten(stream[i])'
      BY <3>3, <3>4
    <3>9. stream[i].fds = IF stream[i].lo = 1 THEN FdsOf(stream[i].n)' ELSE <<>>
      <4>1. FdsOf(stream[i].n)' = FdsOf(p.n)'
        BY <3>4
      <4> QED
        BY <3>3, <3>4, <3>5, <4>1
    <3> QED
      BY <3>6, <3>7, <3>8, <3>9
  <2>2. stream' = stream
    OBVIOUS
  <2>3. Len(stream') <= MaxSegments
    BY <2>2 DEF StreamInv
  <2> QED
    BY <2>1, <2>2, <2>3 DEF StreamInv
<1> QED
  BY <1>1, <1>2, <1>3 DEF Advance, WritesOn

\* The thread that writes, and the frame it writes.
LEMMA WriterFacts ==
    ASSUME TypesInv, WriterInv, NEW t \in Threads, writer[t].pc = "writing"
    PROVE  /\ lock = t /\ writer[t].n = Len(order) /\ Len(order) \in 1..Len(order) /\ Len(order) \in Nat
           /\ order[Len(order)].frame = writer[t].frame /\ ~order[Len(order)].torn
           /\ writer[t].sent \in Nat /\ writer[t].sent < Total(writer[t].frame)
           /\ Total(writer[t].frame) \in Nat /\ Total(writer[t].frame) >= 5
           /\ writer[t].frame \in SentFrames
           /\ NextWrite.n = Len(order) /\ NextWrite.lo = writer[t].sent + 1
<1>1. lock = t
  BY DEF WriterInv
<1>2. lock # Nobody
  BY <1>1, IpcAssumption
<1>3. writer[t].frame \in SentFrames
  BY <1>1, <1>2, NextWriteFacts, FdsOfFacts
<1>4. Total(writer[t].frame) \in Nat /\ Total(writer[t].frame) >= 5
  BY <1>3, SentFrameFacts
<1> QED
  BY <1>1, <1>2, <1>3, <1>4, NextWriteFacts DEF WriterInv

\* The other threads are not disturbed by the one that writes.
LEMMA OthersStay ==
    ASSUME TypesInv, WriterInv, NEW t \in Threads, lock = t,
           \A u \in Threads : u # t => writer'[u] = writer[u], writer'[t].pc # "called"
    PROVE  /\ \A u \in Threads : u # t => /\ writer'[u].pc # "writing"
                                          /\ writer'[u].pc = "called" => writer'[u].frame \in SentFrames
                                                                         /\ writer'[u].sent = 0
           /\ CalledThreads' = CalledThreads
<1>1. \A u \in Threads : u # t => /\ writer'[u].pc # "writing"
                                  /\ writer'[u].pc = "called" => writer'[u].frame \in SentFrames
                                                                 /\ writer'[u].sent = 0
  BY DEF WriterInv
<1>2. writer[t].pc = "writing"
  BY DEF WriterInv
<1> QED
  BY <1>1, <1>2 DEF CalledThreads

\* A send writes a part of the frame behind what was written.
LEMMA SendWrites ==
    ASSUME TypesInv, WriterInv, StreamInv, NEW t \in Threads, Send(t)
    PROVE  /\ TypesInv' /\ WriterInv' /\ StreamInv' /\ Advance
           /\ UNCHANGED <<readerVars, shut, order>>
<1> DEFINE frame == writer[t].frame
<1> DEFINE sent == writer[t].sent
<1> DEFINE n == Len(order)
<1> DEFINE Segments == [n : Nat, lo : Nat, hi : Nat, fds : Fds]
<1> DEFINE Writers == [pc : {"idle", "called", "writing"}, frame : SentFrames \cup {NoFrame}, n : Nat, sent : Nat]
<1>1. writer[t].pc = "writing" /\ Len(stream) < MaxSegments
      /\ UNCHANGED <<dir, order, timeouts, failed, shut, readerVars>>
  BY DEF Send
<1>2. PICK hi \in Cuts \cup {SendLimit(t)} :
        /\ sent < hi /\ hi <= SendLimit(t)
        /\ stream' = Append(stream, [n |-> writer[t].n, lo |-> sent + 1, hi |-> hi, fds |-> FdsWith(t)])
        /\ writer' = [writer EXCEPT ![t] = IF hi = Total(@.frame) THEN Quiet ELSE [@ EXCEPT !.sent = hi]]
        /\ lock' = IF hi = Total(frame) THEN Nobody ELSE t
  BY DEF Send
<1>3. /\ lock = t /\ writer[t].n = n /\ n \in 1..n /\ n \in Nat
      /\ order[n].frame = frame /\ ~order[n].torn
      /\ sent \in Nat /\ sent < Total(frame) /\ Total(frame) \in Nat /\ Total(frame) >= 5
      /\ frame \in SentFrames
      /\ NextWrite.n = n /\ NextWrite.lo = sent + 1
  BY <1>1, WriterFacts
<1>4. SendLimit(t) \in Nat /\ SendLimit(t) <= Total(frame)
  BY <1>3 DEF SendLimit, HeaderBytes
<1>5. hi \in Nat /\ sent < hi /\ hi <= Total(frame) /\ hi >= 1
  BY <1>2, <1>3, <1>4, IpcAssumption
<1> DEFINE fds == FdsWith(t)
<1> DEFINE seg == [n |-> n, lo |-> sent + 1, hi |-> hi, fds |-> fds]
<1>6. fds = (IF sent + 1 = 1 THEN FdsOf(n) ELSE <<>>) /\ fds \in Fds
  <2>1. fds = IF sent = 0 THEN FdsOf(n) ELSE <<>>
    BY <1>3 DEF FdsWith
  <2>2. FdsOf(n) \in Fds /\ <<>> \in Fds
    BY <1>3, FdsOfFacts, EmptySeq DEF Fds
  <2> HIDE DEF fds
  <2>3. sent = 0 <=> sent + 1 = 1
    BY <1>3
  <2> QED
    BY <2>1, <2>2, <2>3
<1> HIDE DEF fds
<1>7. writer \in [Threads -> Writers] /\ stream \in Seq(Segments) /\ Len(stream) \in Nat
  BY LenProperties DEF TypesInv
<1>8. seg \in Segments /\ seg.n = n /\ seg.lo = sent + 1 /\ seg.hi = hi /\ seg.fds = fds
  <2>1. n \in Nat /\ sent + 1 \in Nat /\ hi \in Nat /\ fds \in Fds
    BY <1>3, <1>5, <1>6
  <2> HIDE DEF n, sent
  <2> QED
    BY <2>1
<1>9. stream' = Append(stream, seg)
  BY <1>2, <1>3 DEF fds
<1> HIDE DEF seg, Segments
<1>10. /\ stream' \in Seq(Segments) /\ Len(stream') = Len(stream) + 1
       /\ \A i \in 1..Len(stream) : stream'[i] = stream[i]
       /\ stream'[Len(stream) + 1] = seg /\ stream' # <<>>
  BY <1>7, <1>8, <1>9, AppendProperties
<1>11. /\ \A u \in Threads : u # t => writer'[u] = writer[u]
       /\ writer'[t] = IF hi = Total(frame) THEN Quiet ELSE [writer[t] EXCEPT !.sent = hi]
  BY <1>2, <1>7
<1>12. writer[t] \in Writers /\ Quiet \in Writers
  BY <1>7 DEF Quiet
<1>13. writer'[t] \in Writers
  BY <1>5, <1>11, <1>12
<1>14. writer' \in [Threads -> Writers]
  <2> HIDE DEF Writers
  <2> QED
    BY <1>2, <1>7, <1>11, <1>13
<1>15. TypesInv'
  BY <1>1, <1>2, <1>3, <1>10, <1>14 DEF TypesInv, readerVars, Segments
<1>16. /\ hi # Total(frame) => /\ writer'[t].pc = "writing" /\ writer'[t].sent = hi /\ writer'[t].frame = frame
                               /\ writer'[t].n = n
       /\ hi = Total(frame) => writer'[t].pc = "idle"
  BY <1>1, <1>3, <1>11, <1>12 DEF Quiet
<1>17. WriterInv'
  <2>1. CalledThreads' = CalledThreads
        /\ \A u \in Threads : u # t => /\ writer'[u].pc # "writing"
                                       /\ writer'[u].pc = "called" => writer'[u].frame \in SentFrames
                                                                      /\ writer'[u].sent = 0
    BY <1>3, <1>11, <1>16, OthersStay
  <2>2. ASSUME NEW u \in Threads
        PROVE  /\ writer'[u].pc = "writing" <=> lock' = u
               /\ writer'[u].pc = "called" => writer'[u].frame \in SentFrames /\ writer'[u].sent = 0
               /\ lock' = u => /\ writer'[u].n = Len(order') /\ order' # <<>>
                               /\ order'[Len(order')].frame = writer'[u].frame /\ ~order'[Len(order')].torn
                               /\ writer'[u].sent < Total(writer'[u].frame)
    <3>1. order # <<>>
      BY <1>3 DEF WriterInv
    <3>2. order' = order
      BY <1>1
    <3>3. CASE u # t
      <4>1. lock' # u
        BY <1>2, <3>3, IpcAssumption
      <4>2. /\ writer'[u].pc # "writing"
            /\ writer'[u].pc = "called" => writer'[u].frame \in SentFrames /\ writer'[u].sent = 0
        BY <2>1, <3>3
      <4> QED
        BY <4>1, <4>2
    <3>4. CASE u = t /\ hi # Total(frame)
      <4>1. /\ writer'[u].pc = "writing" /\ writer'[u].sent = hi /\ writer'[u].frame = frame
            /\ writer'[u].n = n /\ lock' = u
        BY <1>2, <1>16, <3>4
      <4>2. /\ Len(order') = n /\ order' # <<>> /\ order'[n].frame = frame /\ ~order'[n].torn
        BY <1>3, <3>1, <3>2
      <4>3. hi < Total(frame)
        BY <1>3, <1>5, <3>4
      <4>4. writer'[u].pc # "called"
        BY <4>1
      <4>5. writer'[u].n = Len(order') /\ order'[Len(order')].frame = writer'[u].frame /\ ~order'[Len(order')].torn
        BY <4>1, <4>2
      <4>6. writer'[u].sent < Total(writer'[u].frame)
        BY <4>1, <4>3
      <4>7. writer'[u].pc = "writing" /\ order' # <<>>
        BY <4>1, <4>2
      <4> QED
        BY <4>1, <4>4, <4>5, <4>6, <4>7
    <3>5. CASE u = t /\ hi = Total(frame)
      <4>1. lock' # u /\ writer'[u].pc = "idle"
        BY <1>2, <1>16, <3>5, IpcAssumption
      <4> QED
        BY <4>1
    <3> QED
      BY <3>3, <3>4, <3>5
  <2>3. (TornFrames # {} /\ dir = "requests" => failed)'
    BY <1>1 DEF WriterInv, TornFrames
  <2>4. Len(order') + Cardinality(CalledThreads') <= MaxFrames
    BY <1>1, <2>1 DEF WriterInv, CalledThreads
  <2> QED
    BY <2>2, <2>3, <2>4 DEF WriterInv, CalledThreads
<1>18. OrderGrows
  BY <1>1 DEF OrderGrows
<1>19. /\ hi = Total(frame) => (NextWrite').n = n + 1 /\ (NextWrite').lo = 1
       /\ hi # Total(frame) => (NextWrite').n = n /\ (NextWrite').lo = hi + 1
  BY <1>1, <1>2, <1>16, IpcAssumption DEF NextWrite
<1>20. WritesOn
  BY <1>3, <1>5, <1>19 DEF WritesOn
<1> PICK p : p = seg
  OBVIOUS
<1>21. IsWritten(p)' /\ Follows(p, NextWrite)'
  <2>1. order' = order /\ p.n = n /\ p.lo = sent + 1 /\ p.hi = hi
    BY <1>1, <1>8
  <2>2. IsWritten(p)'
    <3>1. p.n \in 1..Len(order') /\ p.lo >= 1 /\ p.lo <= p.hi /\ p.hi <= Total(order'[p.n].frame)
      BY <1>3, <1>5, <2>1
    <3>2. p.n < (NextWrite').n \/ (p.n = (NextWrite').n /\ p.hi < (NextWrite').lo)
      BY <1>3, <1>5, <1>19, <2>1
    <3> QED
      BY <3>1, <3>2 DEF IsWritten
  <2>3. Follows(p, NextWrite)'
    BY <1>3, <1>5, <1>19, <2>1 DEF Follows
  <2> QED
    BY <2>2, <2>3
<1>22. SameOrJump(NextRead, NextRead')
  <2>1. CASE stream = <<>>
    <3>1. Len(stream) = 0
      BY <2>1
    <3>2. stream'[1] = seg
      BY <1>10, <3>1
    <3>3. (NextRead').n = n /\ (NextRead').lo = sent + 1
      BY <1>8, <1>10, <3>2 DEF NextRead
    <3>4. NextRead = NextWrite
      BY <2>1 DEF NextRead
    <3> QED
      BY <1>3, <3>3, <3>4 DEF SameOrJump
  <2>2. CASE stream # <<>>
    <3>1. 1 \in 1..Len(stream)
      BY <2>2, NextReadFacts
    <3>2. stream'[1] = stream[1]
      BY <1>10, <3>1
    <3> QED
      BY <1>10, <2>2, <3>2 DEF SameOrJump, NextRead
  <2> QED
    BY <2>1, <2>2
<1>23. StreamInv'
  <2>1. Len(stream') <= MaxSegments
    BY <1>1, <1>7, <1>10, IpcAssumption
  <2>2. ASSUME NEW i \in 1..Len(stream')
        PROVE  /\ IsWritten(stream[i])'
               /\ stream'[i].fds = IF stream'[i].lo = 1 THEN FdsOf(stream[i].n)' ELSE <<>>
               /\ i < Len(stream') => Follows(stream[i], stream[i + 1])'
               /\ i = Len(stream') => Follows(stream[i], NextWrite)'
    <3>1. CASE i = Len(stream')
      <4>1. stream'[i] = seg
        BY <1>10, <3>1
      <4>2. FdsOf(n)' = FdsOf(n)
        BY <1>1 DEF FdsOf
      <4>3. n' = n
        BY <1>1
      <4>4. FdsOf(stream[i].n)' = FdsOf(n)
        BY <4>1, <4>2, <4>3, <1>8
      <4>5. stream'[i] = p
        BY <4>1
      <4>6. IsWritten(stream[i])' /\ Follows(stream[i], NextWrite)'
        BY <4>5, <1>21
      <4>7. p.fds = IF p.lo = 1 THEN FdsOf(n) ELSE <<>>
        BY <1>6, <1>8
      <4> QED
        BY <4>4, <4>2, <4>5, <4>6, <4>7, <3>1
    <3>2. CASE i # Len(stream')
      <4>1. i \in 1..Len(stream) /\ stream'[i] = stream[i] /\ i < Len(stream') /\ i + 1 \in 1..Len(stream')
        BY <1>7, <1>10, <3>2
      <4>2. PICK s : s = stream[i]
        OBVIOUS
      <4>3. s.n \in Nat /\ s.lo \in Nat /\ s.hi \in Nat /\ IsWritten(s)
        BY <4>1, <4>2, SegmentType DEF StreamInv
      <4>4. IsWritten(s)' /\ FdsOf(s.n)' = FdsOf(s.n)
        BY <4>3, <1>15, <1>17, <1>18, <1>20, WrittenStays
      <4>5. s.fds = IF s.lo = 1 THEN FdsOf(s.n) ELSE <<>>
        BY <4>1, <4>2 DEF StreamInv
      <4>6. Follows(stream[i], stream[i + 1])'
        <5>1. CASE i = Len(stream)
          <6>1. Follows(s, NextWrite)
            BY <5>1, <4>1, <4>2 DEF StreamInv
          <6>2. stream'[i + 1] = seg
            BY <5>1, <1>10
          <6>3. Follows(s, seg)
            BY <6>1, <1>3, <1>8 DEF Follows
          <6> QED
            BY <6>2, <6>3, <4>1, <4>2, <1>1 DEF Follows
        <5>2. CASE i # Len(stream)
          <6>1. i < Len(stream) /\ i + 1 \in 1..Len(stream)
            BY <5>2, <4>1, <1>7
          <6>2. Follows(stream[i], stream[i + 1]) /\ stream'[i + 1] = stream[i + 1]
            BY <6>1, <4>1, <1>10 DEF StreamInv
          <6> QED
            BY <6>2, <4>1, <1>1 DEF Follows
        <5> QED
          BY <5>1, <5>2
      <4>7. IsWritten(stream[i])' /\ FdsOf(stream[i].n)' = FdsOf(s.n)'
        <5>1. stream'[i] = s
          BY <4>1, <4>2
        <5> QED
          BY <5>1, <4>4
      <4> QED
        BY <4>1, <4>2, <4>4, <4>5, <4>6, <4>7, <3>2
    <3> QED
      BY <3>1, <3>2
  <2> QED
    BY <2>1, <2>2 DEF StreamInv
<1> QED
  BY <1>1, <1>15, <1>17, <1>18, <1>20, <1>22, <1>23 DEF Advance, WritesOn

\* A send fails: a frame none of which was written never was, another one is torn.
LEMMA SendFailsWrites ==
    ASSUME TypesInv, WriterInv, NEW t \in Threads, SendFails(t)
    PROVE  /\ TypesInv' /\ WriterInv' /\ OrderGrows /\ SameOrJump(NextWrite, NextWrite')
           /\ UNCHANGED <<stream, readerVars, shut>>
<1> DEFINE n == Len(order)
<1> DEFINE Orders == [frame : SentFrames, torn : BOOLEAN]
<1> DEFINE Writers == [pc : {"idle", "called", "writing"}, frame : SentFrames \cup {NoFrame}, n : Nat, sent : Nat]
<1>1. /\ writer[t].pc = "writing" /\ timeouts' \in {timeouts, timeouts + 1}
      /\ timeouts' = timeouts + 1 => timeouts < MaxTimeouts
      /\ order' = IF writer[t].sent = 0 THEN Front(order) ELSE [order EXCEPT ![writer[t].n].torn = TRUE]
      /\ writer' = [writer EXCEPT ![t] = Quiet]
      /\ lock' = Nobody
      /\ failed' = (failed \/ dir = "requests")
      /\ UNCHANGED <<dir, shut, stream, readerVars>>
  BY IpcAssumption DEF SendFails, TypesInv
<1>2. /\ lock = t /\ writer[t].n = n /\ n \in 1..n /\ n \in Nat /\ ~order[n].torn
      /\ writer[t].sent \in Nat
      /\ NextWrite.n = n /\ NextWrite.lo = writer[t].sent + 1
  BY <1>1, WriterFacts
<1>3. order \in Seq(Orders) /\ writer \in [Threads -> Writers]
  BY DEF TypesInv
<1>4. Quiet \in Writers /\ Quiet.pc = "idle"
  BY DEF Quiet
<1>5. writer' \in [Threads -> Writers] /\ writer'[t] = Quiet /\ \A u \in Threads : u # t => writer'[u] = writer[u]
  <2> HIDE DEF Writers
  <2> QED
    BY <1>1, <1>3, <1>4
<1>6. timeouts' \in 0..MaxTimeouts /\ failed' \in BOOLEAN
  BY <1>1, IpcAssumption DEF TypesInv
<1>7. ASSUME writer[t].sent = 0
      PROVE  order' \in Seq(Orders) /\ OrderGrows /\ SameOrJump(NextWrite, NextWrite')
             /\ Len(order') <= n /\ Len(order') \in Nat
  <2>1. order' = SubSeq(order, 1, n - 1)
    BY <1>1, <1>7 DEF Front
  <2>2. /\ order' \in Seq(Orders) /\ Len(order') = n - 1
        /\ \A i \in 1..(n - 1) : order'[i] = order[i]
    <3>1. ASSUME NEW i \in 1..(n - 1) PROVE order[i] \in Orders
      <4>1. i \in 1..Len(order)
        BY <1>2
      <4> HIDE DEF Orders
      <4> QED
        BY <4>1, <1>3, ElementOfSeq
    <3>2. n - 1 \in Int /\ 1 \in Int
      BY <1>2
    <3> DEFINE s == SubSeq(order, 1, n - 1)
    <3>3. s \in Seq(Orders) /\ Len(s) = (IF 1 <= n - 1 THEN (n - 1) - 1 + 1 ELSE 0)
          /\ \A i \in 1..((n - 1) - 1 + 1) : s[i] = order[1 + i - 1]
      BY <3>1, <3>2, SubSeqProperties
    <3> HIDE DEF s, Orders, n
    <3>4. Len(s) = n - 1
      BY <3>3, <1>2
    <3>5. ASSUME NEW i \in 1..(n - 1) PROVE s[i] = order[i]
      <4>1. i \in 1..((n - 1) - 1 + 1) /\ 1 + i - 1 = i
        BY <1>2
      <4> QED
        BY <3>3, <4>1
    <3> QED
      BY <2>1, <3>3, <3>4, <3>5 DEF s
  <2>3. (NextWrite').n = n /\ (NextWrite').lo = 1
    BY <1>1, <1>2, <2>2 DEF NextWrite
  <2>4. SameOrJump(NextWrite, NextWrite')
    BY <1>2, <1>7, <2>3 DEF SameOrJump
  <2>5. \A i \in 1..Len(order') : i \in 1..n /\ order'[i] = order[i]
    BY <1>2, <2>2
  <2>6. \A i \in 1..n : i \in 1..Len(order') \/ i = n
    BY <1>2, <2>2
  <2>7. OrderGrows
    <3>1. NextWrite.n = n /\ NextWrite.lo = 1 /\ ~order[n].torn
      BY <1>2, <1>7
    <3> QED
      BY <2>5, <2>6, <3>1 DEF OrderGrows
  <2>8. Len(order') <= n /\ Len(order') \in Nat
    BY <1>2, <2>2
  <2> QED
    BY <2>2, <2>4, <2>7, <2>8
<1>8. ASSUME writer[t].sent # 0
      PROVE  order' \in Seq(Orders) /\ OrderGrows /\ SameOrJump(NextWrite, NextWrite')
             /\ Len(order') <= n /\ Len(order') \in Nat
  <2>1. order' = [order EXCEPT ![n].torn = TRUE]
    BY <1>1, <1>2, <1>8
  <2>2. order[n] \in Orders /\ [order[n] EXCEPT !.torn = TRUE] \in Orders
    <3>1. order[n] \in Orders
      <4> HIDE DEF Orders
      <4> QED
        BY <1>2, <1>3, ElementOfSeq
    <3> QED
      BY <3>1
  <2> DEFINE o == [order[n] EXCEPT !.torn = TRUE]
  <2>3. order' = [order EXCEPT ![n] = o]
    BY <2>1
  <2>4. o.torn /\ o.frame = order[n].frame
    BY <2>2
  <2> HIDE DEF o, Orders
  <2>5. order' \in Seq(Orders) /\ Len(order') = n /\ \A i \in 1..n : order'[i] = IF i = n THEN o ELSE order[i]
    BY <1>2, <1>3, <2>2, <2>3, ExceptSeq DEF o
  <2>6. (NextWrite').n = n + 1 /\ (NextWrite').lo = 1
    BY <1>1, <2>5 DEF NextWrite
  <2>7. SameOrJump(NextWrite, NextWrite')
    BY <1>2, <1>8, <2>4, <2>5, <2>6 DEF SameOrJump
  <2>8. OrderGrows
    BY <1>2, <2>4, <2>5 DEF OrderGrows
  <2> QED
    BY <1>2, <2>5, <2>7, <2>8 DEF Orders
<1>9. order' \in Seq(Orders) /\ OrderGrows /\ SameOrJump(NextWrite, NextWrite') /\ Len(order') <= n /\ Len(order') \in Nat
  BY <1>7, <1>8
<1>10. TypesInv'
  BY <1>1, <1>5, <1>6, <1>9 DEF TypesInv, readerVars
<1>11. WriterInv'
  <2>1. CalledThreads' = CalledThreads
        /\ \A u \in Threads : u # t => /\ writer'[u].pc # "writing"
                                       /\ writer'[u].pc = "called" => writer'[u].frame \in SentFrames
                                                                      /\ writer'[u].sent = 0
    BY <1>2, <1>4, <1>5, OthersStay
  <2>2. ASSUME NEW u \in Threads
        PROVE  /\ lock' # u /\ writer'[u].pc # "writing"
               /\ writer'[u].pc = "called" => writer'[u].frame \in SentFrames /\ writer'[u].sent = 0
    <3>1. lock' # u
      BY <1>1, IpcAssumption
    <3>2. CASE u = t
      <4>1. writer'[u].pc = "idle"
        BY <1>4, <1>5, <3>2
      <4> QED
        BY <3>1, <4>1
    <3>3. CASE u # t
      BY <2>1, <3>1, <3>3
    <3> QED
      BY <3>2, <3>3
  <2>3. TornFrames' # {} /\ dir' = "requests" => failed'
    BY <1>1
  <2>4. Len(order') + Cardinality(CalledThreads') <= MaxFrames
    <3>1. n + Cardinality(CalledThreads) <= MaxFrames
      BY DEF WriterInv, CalledThreads
    <3>2. Cardinality(CalledThreads) \in Nat
      BY FS_Subset, FS_CardinalityType, IpcAssumption DEF CalledThreads
    <3> QED
      BY <2>1, <3>1, <3>2, <1>2, <1>9, IpcAssumption
  <2> QED
    BY <2>2, <2>3, <2>4 DEF WriterInv, CalledThreads
<1> QED
  BY <1>1, <1>9, <1>10, <1>11

\* The client shuts the socket down.
LEMMA ShutdownWrites ==
    ASSUME TypesInv, WriterInv, Shutdown
    PROVE  /\ TypesInv' /\ WriterInv' /\ OrderGrows /\ SameOrJump(NextWrite, NextWrite')
           /\ UNCHANGED <<stream, readerVars>> /\ shut'
<1>1. shut' /\ failed' = (failed \/ dir = "requests") /\ UNCHANGED <<dir, writerVars, stream, readerVars>>
  BY DEF Shutdown
<1>2. UNCHANGED <<writer, lock, order, timeouts>>
  BY <1>1 DEF writerVars
<1>3. TypesInv'
  BY <1>1, <1>2 DEF TypesInv, readerVars, Shutdown
<1>4. WriterInv'
  <2>1. TornFrames' # {} /\ dir' = "requests" => failed'
    BY <1>1
  <2>2. writer' = writer /\ lock' = lock /\ order' = order
    BY <1>2
  <2> QED
    BY <2>1, <2>2 DEF WriterInv
<1> QED
  BY <1>1, <1>2, <1>3, <1>4, SameWrite

-----------------------------------------------------------------------------
\* What the reader knows while the writers go on

\* The parts the reader has taken are typed.
LEMMA GotType ==
    ASSUME TypesInv
    PROVE  /\ reader.got \in Seq(Parts) /\ Len(reader.got) \in Nat
           /\ reader.fds \in Fds /\ Len(reader.fds) \in Nat
           /\ reader.size \in Nat /\ reader.taken \in Nat
           /\ reader.phase \in {"header", "payload", "handling", "ended"}
           /\ reader.got = <<>> <=> Len(reader.got) = 0
           /\ reader.got # <<>> => /\ Last(reader.got) = reader.got[Len(reader.got)]
                                   /\ Last(reader.got).n \in Nat /\ Last(reader.got).lo \in Nat
                                   /\ Last(reader.got).hi \in Nat
           /\ Len(handled) \in Nat /\ Current \in Nat /\ Current >= 1
<1>1. /\ reader.got \in Seq(Parts) /\ reader.fds \in Fds /\ reader.size \in Nat /\ reader.taken \in Nat
      /\ reader.phase \in {"header", "payload", "handling", "ended"}
  BY DEF TypesInv
<1>2. Len(reader.got) \in Nat /\ Len(reader.fds) \in Nat /\ Len(handled) \in Nat
  BY <1>1, LenProperties DEF Fds, TypesInv
<1>3. reader.got = <<>> <=> Len(reader.got) = 0
  BY <1>1, EmptySeq
<1>4. ASSUME reader.got # <<>>
      PROVE  /\ Last(reader.got) = reader.got[Len(reader.got)] /\ Last(reader.got).n \in Nat
             /\ Last(reader.got).lo \in Nat /\ Last(reader.got).hi \in Nat
  <2>1. Len(reader.got) \in 1..Len(reader.got)
    BY <1>2, <1>3, <1>4
  <2>2. reader.got[Len(reader.got)] \in Parts
    BY <1>1, <2>1, ElementOfSeq
  <2> QED
    BY <2>2 DEF Last, Parts
<1> QED
  BY <1>1, <1>2, <1>3, <1>4 DEF Current

\* A frame that is torn stays so.
LEMMA TornStays ==
    ASSUME OrderGrows, NEW n \in 1..Len(order), order[n].torn
    PROVE  n \in 1..Len(order') /\ order'[n].torn
BY DEF OrderGrows

\* The next byte of the current frame stays the next one to be read.
LEMMA NextIsStays ==
    ASSUME TypesInv, WriterInv, StreamInv, TypesInv', WriterInv', Advance, UNCHANGED handled,
           NoneTorn', NEW c, c = Current, NEW b \in Nat, NextIs(c, b)
    PROVE  NextIs(c, b)'
<1>1. PICK q : q = NextRead
  OBVIOUS
<1>2. PICK r : r = NextRead'
  OBVIOUS
<1>3. SameOrJump(q, r)
  BY <1>1, <1>2 DEF Advance
<1>4. /\ c \in Nat /\ q.n \in Nat /\ q.lo \in Nat /\ q.n <= NextWrite.n /\ NextWrite.n \in Nat
      /\ Current' = c
  BY <1>1, GotType, NextReadFacts, NextWriteFacts DEF Current
<1>5. \/ q.n = c /\ q.lo = b
      \/ c \in 1..Len(order) /\ b = Total(order[c].frame) + 1 /\ q.n = c + 1 /\ q.lo = 1
  BY <1>1 DEF NextIs
<1>6. CASE r.n = q.n /\ r.lo = q.lo
  <2>1. CASE q.n = c /\ q.lo = b
    BY <1>2, <1>6, <2>1 DEF NextIs
  <2>2. CASE c \in 1..Len(order) /\ b = Total(order[c].frame) + 1 /\ q.n = c + 1 /\ q.lo = 1
    <3>1. c # NextWrite.n
      BY <1>4, <2>2
    <3>2. c \in 1..Len(order') /\ order'[c].frame = order[c].frame
      BY <2>2, <3>1 DEF Advance, OrderGrows
    <3> QED
      BY <1>2, <1>6, <2>2, <3>2 DEF NextIs
  <2> QED
    BY <1>5, <2>1, <2>2
<1>7. CASE q.n \in 1..Len(order') /\ order'[q.n].torn /\ q.lo > 1
  <2>1. q.n > c
    BY <1>4, <1>7 DEF NoneTorn
  <2> QED
    BY <1>4, <1>5, <1>7, <2>1
<1> QED
  BY <1>3, <1>6, <1>7 DEF SameOrJump

\* The reader's invariants hold whatever the writers do.
LEMMA ReaderUndisturbed ==
    ASSUME IpcInv, TypesInv', WriterInv', Advance, UNCHANGED readerVars, shut => shut'
    PROVE  ReaderInv' /\ HeaderInv' /\ PayloadInv' /\ InStep' /\ HandledInv' /\ CauseInv'
<1>1. TypesInv /\ WriterInv /\ StreamInv /\ ReaderInv /\ HeaderInv /\ PayloadInv /\ InStep /\ HandledInv /\ CauseInv
  BY DEF IpcInv
<1>2. reader' = reader /\ open' = open /\ handled' = handled
  BY DEF readerVars
<1>3. OrderGrows /\ WritesOn
  BY DEF Advance, WritesOn
<1>4. ReaderInv'
  BY <1>1, <1>2 DEF ReaderInv
<1> DEFINE got == reader.got
<1>5. HeaderInv'
  <2> SUFFICES ASSUME reader.phase = "header", got # <<>>
               PROVE  /\ IsWritten(Last(got))' /\ Follows(Last(got), NextRead)'
                      /\ Len(got) = 1 /\ Last(got).lo = 1 => reader.fds = FdsOf(Last(got).n)'
    BY <1>1, <1>2 DEF HeaderInv
  <2>1. PICK p : p = Last(got)
    OBVIOUS
  <2>2. p.n \in Nat /\ p.lo \in Nat /\ p.hi \in Nat
    BY <1>1, <2>1, GotType
  <2>3. IsWritten(p) /\ Follows(p, NextRead)
    BY <1>1, <2>1 DEF HeaderInv
  <2>4. IsWritten(p)' /\ FdsOf(p.n)' = FdsOf(p.n)
    BY <1>1, <1>3, <2>2, <2>3, WrittenStays
  <2>5. PICK q : q = NextRead
    OBVIOUS
  <2>6. PICK r : r = NextRead'
    OBVIOUS
  <2>7. q.lo \in Nat /\ Follows(p, q) /\ SameOrJump(q, r)
    BY <1>1, <2>3, <2>5, <2>6, NextReadFacts DEF Advance
  <2>8. Follows(p, r)'
    BY <1>1, <1>3, <2>2, <2>3, <2>7, FollowsStays
  <2>9. Last(got)' = p /\ (got' = got)
    BY <1>2, <2>1
  <2>10. IsWritten(Last(got))' /\ Follows(Last(got), NextRead)'
    BY <2>4, <2>6, <2>8, <2>9
  <2>11. Len(got) = 1 /\ p.lo = 1 => reader.fds = FdsOf(p.n)
    BY <1>1, <2>1 DEF HeaderInv
  <2>12. FdsOf(Last(got).n)' = FdsOf(p.n)'
    BY <2>9
  <2> QED
    BY <2>1, <2>4, <2>10, <2>11, <2>12
<1>6. PayloadInv'
  <2>1. ASSUME reader.phase = "payload", got = <<>>, (NextRead').lo = HeaderBytes + 1
        PROVE  reader.fds = FdsOf(NextRead.n)'
    <3>1. PICK q : q = NextRead
      OBVIOUS
    <3>2. PICK r : r = NextRead'
      OBVIOUS
    <3>3. SameOrJump(q, r) /\ r.lo = 5
      BY <2>1, <3>1, <3>2 DEF Advance, HeaderBytes
    <3>4. r.n = q.n /\ q.lo = 5
      BY <3>3 DEF SameOrJump
    <3>5. reader.fds = FdsOf(q.n)
      BY <1>1, <2>1, <3>1, <3>4 DEF PayloadInv, HeaderBytes
    <3>6. q.n \in Nat /\ q.n <= NextWrite.n /\ NextWrite.n \in Nat /\ (q.n = NextWrite.n => q.lo <= NextWrite.lo)
          /\ q.n >= 1 /\ (q.n \notin 1..Len(order) => NextWrite.lo = q.lo /\ NextWrite.lo = 1)
      BY <1>1, <3>1, NextReadFacts, NextWriteFacts
    <3>7. q.n \in 1..Len(order)
      BY <3>4, <3>6
    <3>8. ~(q.n = NextWrite.n /\ NextWrite.lo = 1)
      BY <3>4, <3>6
    <3>9. q.n \in 1..Len(order') /\ order'[q.n].frame = order[q.n].frame
      BY <1>3, <3>7, <3>8 DEF OrderGrows
    <3>10. FdsOf(q.n)' = FdsOf(q.n)
      BY <3>9 DEF FdsOf
    <3>11. FdsOf(NextRead.n)' = FdsOf(r.n)'
      BY <3>2
    <3> QED
      BY <3>4, <3>5, <3>10, <3>11
  <2>2. ASSUME reader.phase = "payload", Len(got) = 1
        PROVE  /\ IsWritten(got[1])'
               /\ got[1].lo = HeaderBytes + 1 => reader.fds = FdsOf(got[1].n)'
    <3>1. PICK p : p = got[1]
      OBVIOUS
    <3>2. p.n \in Nat /\ p.lo \in Nat /\ p.hi \in Nat
      BY <1>1, <2>2, <3>1, GotType
    <3>3. IsWritten(p) /\ (p.lo = HeaderBytes + 1 => reader.fds = FdsOf(p.n))
      BY <1>1, <2>2, <3>1 DEF PayloadInv
    <3>4. IsWritten(p)' /\ FdsOf(p.n)' = FdsOf(p.n)
      BY <1>1, <1>3, <3>2, <3>3, WrittenStays
    <3>5. (got[1])' = p
      BY <1>2, <3>1
    <3>6. IsWritten(got[1])' /\ FdsOf(got[1].n)' = FdsOf(p.n)'
      BY <3>4, <3>5
    <3> QED
      BY <3>1, <3>3, <3>4, <3>6
  <2> QED
    BY <1>1, <1>2, <2>1, <2>2 DEF PayloadInv
<1>7. ASSUME NEW n \in 1..Len(order), order[n].torn PROVE n \in 1..Len(order') /\ order'[n].torn
  BY <1>3, <1>7, TornStays
<1>8. InStep'
  <2> SUFFICES ASSUME NoneTorn'
               PROVE  /\ reader.phase = "header" => InStepHeader'
                      /\ reader.phase = "payload" => InStepPayload'
                      /\ reader.phase = "handling" => NextIs(Current, 1)'
    BY <1>2 DEF InStep
  <2>1. PICK c : c = Current
    OBVIOUS
  <2>2. Current' = c /\ c \in Nat /\ c >= 1 /\ reader.taken \in Nat
    BY <1>1, <1>2, <2>1, GotType DEF Current
  <2>3. NoneTorn
    BY <1>2, <1>7, <2>1, <2>2 DEF NoneTorn
  <2>4. ASSUME NEW b \in Nat, NextIs(c, b) PROVE NextIs(c, b)'
    BY <1>1, <1>2, <2>1, <2>4, NextIsStays
  <2>5. CASE reader.phase = "header"
    <3>1. PICK b : b = reader.taken + 1
      OBVIOUS
    <3>2. b \in Nat /\ NextIs(c, b)
      BY <1>1, <2>1, <2>2, <2>3, <2>5, <3>1 DEF InStep, InStepHeader
    <3>3. NextIs(c, b)'
      BY <2>4, <3>2
    <3>4. NextIs(Current, reader.taken + 1)'
      BY <1>2, <2>2, <3>1, <3>3
    <3>5. ASSUME got # <<>>
          PROVE got = << [n |-> c, lo |-> 1, hi |-> reader.taken] >> /\ reader.fds = FdsOf(c)'
      <4>1. got = << [n |-> c, lo |-> 1, hi |-> reader.taken] >> /\ reader.fds = FdsOf(c)
        BY <1>1, <2>1, <2>3, <2>5, <3>5 DEF InStep, InStepHeader
      <4>2. PICK p : p = [n |-> c, lo |-> 1, hi |-> reader.taken]
        OBVIOUS
      <4>3. p = Last(got)
        BY <4>1, <4>2 DEF Last
      <4>4. IsWritten(p) /\ p.n = c /\ p.n \in Nat /\ p.lo \in Nat /\ p.hi \in Nat
        BY <1>1, <2>2, <2>5, <3>5, <4>2, <4>3 DEF HeaderInv
      <4>5. FdsOf(p.n)' = FdsOf(p.n)
        BY <1>1, <1>3, <4>4, WrittenStays
      <4> QED
        BY <4>1, <4>4, <4>5
    <3>6. FdsOf(Current)' = FdsOf(c)'
      BY <2>2
    <3> QED
      BY <1>2, <2>1, <2>2, <2>5, <3>4, <3>5, <3>6 DEF InStepHeader
  <2>6. CASE reader.phase = "payload"
    <3>1. PICK b : b = HeaderBytes + reader.taken + 1
      OBVIOUS
    <3>2. /\ b \in Nat /\ b >= 5 /\ NextIs(c, b) /\ c \in 1..Len(order)
          /\ reader.size = order[c].frame.size /\ reader.fds = FdsOf(c)
          /\ got # <<>> => got = << [n |-> c, lo |-> HeaderBytes + 1, hi |-> HeaderBytes + reader.taken] >>
      BY <1>1, <2>1, <2>2, <2>3, <2>6, <3>1 DEF InStep, InStepPayload, HeaderBytes
    <3>3. NextIs(c, b)'
      BY <2>4, <3>2
    <3>4. ~(c = NextWrite.n /\ NextWrite.lo = 1)
      <4>1. (NextRead.n = c /\ NextRead.lo = b) \/ NextRead.n = c + 1
        BY <3>2 DEF NextIs
      <4> QED
        BY <1>1, <2>2, <3>2, <4>1, NextReadFacts, NextWriteFacts
    <3>5. c \in 1..Len(order') /\ order'[c].frame = order[c].frame
      BY <1>3, <3>2, <3>4 DEF OrderGrows
    <3>6. FdsOf(c)' = FdsOf(c)
      BY <3>5 DEF FdsOf
    <3>7. NextIs(Current, HeaderBytes + reader.taken + 1)' /\ FdsOf(Current)' = FdsOf(c)'
      BY <1>2, <2>2, <3>1, <3>3
    <3> QED
      BY <1>2, <2>2, <2>6, <3>2, <3>5, <3>6, <3>7 DEF InStepPayload
  <2>7. CASE reader.phase = "handling"
    <3>1. NextIs(c, 1)
      BY <1>1, <2>1, <2>3, <2>7 DEF InStep
    <3>2. NextIs(c, 1)'
      BY <2>4, <3>1
    <3> QED
      BY <2>2, <2>7, <3>2
  <2> QED
    BY <2>5, <2>6, <2>7
<1>9. HandledInv'
  <2> SUFFICES ASSUME NEW k \in 1..Len(handled)
               PROVE  \/ k < (NextWrite').n /\ handled[k].msg = order'[k].frame.msg /\ handled[k].fds = FdsOf(k)'
                      \/ \E n \in 1..Len(order') : order'[n].torn /\ n <= k
    BY <1>2 DEF HandledInv
  <2>1. CASE k < NextWrite.n /\ handled[k].msg = order[k].frame.msg /\ handled[k].fds = FdsOf(k)
    <3>1. k \in 1..Len(order) /\ k # NextWrite.n
      BY <1>1, <2>1, GotType, NextWriteFacts
    <3>2. k \in 1..Len(order') /\ order'[k].frame = order[k].frame
      BY <1>3, <3>1 DEF OrderGrows
    <3>3. FdsOf(k)' = FdsOf(k)
      BY <3>2 DEF FdsOf
    <3>4. NextWrite.n \in Nat /\ k \in Nat
      BY <1>1, NextWriteFacts
    <3>5. (NextWrite').n \in Nat
      <4>1. (TypesInv /\ WriterInv)'
        OBVIOUS
      <4>2. (NextWrite.n \in Nat /\ NextWrite.lo \in Nat)'
        BY <4>1, NextWriteType, PTL
      <4> QED
        BY <4>2
    <3>6. k < (NextWrite').n
      BY <1>3, <2>1, <3>4, <3>5 DEF WritesOn
    <3> QED
      BY <2>1, <3>2, <3>3, <3>6
  <2>2. CASE \E n \in 1..Len(order) : order[n].torn /\ n <= k
    BY <1>7, <2>2
  <2> QED
    BY <1>1, <2>1, <2>2 DEF HandledInv
<1>10. CauseInv'
  BY <1>1, <1>2, <1>7 DEF CauseInv
<1> QED
  BY <1>4, <1>5, <1>6, <1>8, <1>9, <1>10

-----------------------------------------------------------------------------
\* Steps of the reader

\* The reader leaves the writers alone.
LEMMA WritersUndisturbed ==
    ASSUME TypesInv, WriterInv, UNCHANGED <<dir, writerVars, shut>>, failed \in BOOLEAN, failed => failed'
    PROVE  /\ WriterInv' /\ NextWrite' = NextWrite /\ order' = order /\ dir' = dir /\ shut' = shut
           /\ writer' = writer /\ lock' = lock /\ timeouts' = timeouts
<1>1. writer' = writer /\ lock' = lock /\ order' = order /\ dir' = dir /\ shut' = shut /\ timeouts' = timeouts
  BY DEF writerVars
<1>2. NextWrite' = NextWrite
  BY <1>1 DEF NextWrite
<1>3. WriterInv'
  <2>1. TornFrames' = TornFrames
    BY <1>1 DEF TornFrames
  <2> QED
    BY <1>1, <2>1 DEF WriterInv
<1> QED
  BY <1>1, <1>2, <1>3

\* An error of the reader that has a cause.
LEMMA ReadFailsKeeps ==
    ASSUME IpcInv, ReadFails, UNCHANGED <<dir, writerVars, shut>>,
           shut \/ \E n \in 1..Len(order) : order[n].torn
    PROVE  IpcInv'
<1>1. TypesInv /\ WriterInv /\ StreamInv /\ HandledInv /\ failed \in BOOLEAN
  BY DEF IpcInv, TypesInv
<1>2. /\ reader' = [reader EXCEPT !.phase = "ended", !.taken = 0, !.got = <<>>, !.fds = <<>>]
      /\ open' = {} /\ failed' = (failed \/ dir = "events")
      /\ stream' = IF dir = "requests" THEN <<>> ELSE stream
      /\ handled' = handled
  BY DEF ReadFails, CloseOnError
<1>3. /\ WriterInv' /\ NextWrite' = NextWrite /\ order' = order /\ dir' = dir /\ shut' = shut
      /\ writer' = writer /\ lock' = lock /\ timeouts' = timeouts
  BY <1>1, <1>2, WritersUndisturbed
<1>4. reader \in [phase : {"header", "payload", "handling", "ended"}, size : Nat, taken : Nat,
                  got : Seq(Parts), fds : Fds]
  BY <1>1 DEF TypesInv
<1>5. <<>> \in Seq(Parts) /\ <<>> \in Fds /\ Len(<<>>) = 0
  BY EmptySeq DEF Fds
<1>6. reader'.phase = "ended" /\ reader'.taken = 0 /\ reader'.fds = <<>> /\ reader'.size = reader.size /\ reader'.got = <<>>
  BY <1>2, <1>4
<1>7. reader' \in [phase : {"header", "payload", "handling", "ended"}, size : Nat, taken : Nat,
                   got : Seq(Parts), fds : Fds]
  BY <1>2, <1>4, <1>5
<1>8. TypesInv'
  <2>1. stream' \in Seq([n : Nat, lo : Nat, hi : Nat, fds : Fds])
    <3>1. stream \in Seq([n : Nat, lo : Nat, hi : Nat, fds : Fds])
      BY <1>1 DEF TypesInv
    <3> QED
      BY <1>2, <3>1, EmptySeq
  <2>2. failed' \in BOOLEAN
    BY <1>1, <1>2
  <2> QED
    BY <1>1, <1>2, <1>3, <1>7, <2>1, <2>2 DEF TypesInv
<1>9. StreamInv'
  <2>1. CASE stream' = <<>>
    <3>1. Len(stream') = 0 /\ MaxSegments \in Nat
      BY <2>1, IpcAssumption
    <3> QED
      BY <3>1 DEF StreamInv
  <2>2. CASE stream' = stream
    <3>1. ASSUME NEW i \in 1..Len(stream)
          PROVE  /\ IsWritten(stream[i])'
                 /\ stream'[i].fds = IF stream'[i].lo = 1 THEN FdsOf(stream[i].n)' ELSE <<>>
                 /\ i < Len(stream') => Follows(stream[i], stream[i + 1])'
                 /\ i = Len(stream') => Follows(stream[i], NextWrite)'
      <4>1. PICK p : p = stream[i]
        OBVIOUS
      <4>2. /\ IsWritten(p) /\ p.fds = IF p.lo = 1 THEN FdsOf(p.n) ELSE <<>>
            /\ i < Len(stream) => Follows(p, stream[i + 1])
            /\ i = Len(stream) => Follows(p, NextWrite)
        BY <1>1, <4>1 DEF StreamInv
      <4>3. stream'[i] = p
        BY <2>2, <4>1
      <4> QED
        BY <1>3, <2>2, <4>2, <4>3 DEF IsWritten, Follows, FdsOf
    <3>2. Len(stream') <= MaxSegments
      BY <1>1, <2>2 DEF StreamInv
    <3> QED
      BY <2>2, <3>1, <3>2 DEF StreamInv
  <2> QED
    BY <1>2, <2>1, <2>2
<1>10. ReaderInv'
  <2>1. Range(<<>>) = {}
    BY DEF Range
  <2>2. 0 <= reader.size /\ 0 <= MaxFds
    BY <1>4, IpcAssumption
  <2> QED
    BY <1>2, <1>5, <1>6, <2>1, <2>2 DEF ReaderInv
<1>11. HeaderInv' /\ PayloadInv' /\ InStep'
  BY <1>6 DEF HeaderInv, PayloadInv, InStep
<1>12. HandledInv'
  BY <1>1, <1>2, <1>3 DEF HandledInv, FdsOf
<1>13. CauseInv'
  BY <1>3 DEF CauseInv
<1> QED
  BY <1>3, <1>8, <1>9, <1>10, <1>11, <1>12, <1>13 DEF IpcInv

\* Joining a part to those already taken: it lengthens the last one, or is one more.
LEMMA JoinedFacts ==
    ASSUME NEW got \in Seq(Parts), NEW n \in Nat, NEW lo \in Nat, NEW hi \in Nat
    PROVE  /\ Joined(got, n, lo, hi) \in Seq(Parts) /\ Joined(got, n, lo, hi) # <<>>
           /\ Last(Joined(got, n, lo, hi)).n = n /\ Last(Joined(got, n, lo, hi)).hi = hi
           /\ \/ /\ got # <<>> /\ Last(got).n = n /\ Last(got).hi + 1 = lo
                 /\ Len(Joined(got, n, lo, hi)) = Len(got) /\ Last(Joined(got, n, lo, hi)).lo = Last(got).lo
              \/ /\ ~(got # <<>> /\ Last(got).n = n /\ Last(got).hi + 1 = lo)
                 /\ Len(Joined(got, n, lo, hi)) = Len(got) + 1 /\ Last(Joined(got, n, lo, hi)).lo = lo
           /\ Len(Joined(got, n, lo, hi)) = 1 =>
                Joined(got, n, lo, hi) = <<Last(Joined(got, n, lo, hi))>>
<1>1. CASE got # <<>> /\ Last(got).n = n /\ Last(got).hi + 1 = lo
  <2>1. Len(got) \in Nat /\ Len(got) \in 1..Len(got)
    BY <1>1, EmptySeq
  <2>2. Last(got) \in Parts
    BY <2>1, ElementOfSeq DEF Last
  <2> DEFINE last == [Last(got) EXCEPT !.hi = hi]
  <2>3. last \in Parts /\ last.n = n /\ last.hi = hi /\ last.lo = Last(got).lo
    BY <1>1, <2>2 DEF Parts
  <2> DEFINE f == SubSeq(got, 1, Len(got) - 1)
  <2>4. f \in Seq(Parts) /\ Len(f) = Len(got) - 1
    <3>1. \A i \in 1..(Len(got) - 1) : got[i] \in Parts
      BY <2>1, ElementOfSeq
    <3>2. Len(got) - 1 \in Int /\ 1 \in Int
      BY <2>1
    <3>3. f \in Seq(Parts) /\ Len(f) = IF 1 <= Len(got) - 1 THEN (Len(got) - 1) - 1 + 1 ELSE 0
      BY <3>1, <3>2, SubSeqProperties
    <3> HIDE DEF f
    <3>4. PICK k : k = Len(got)
      OBVIOUS
    <3>5. k \in Nat /\ k >= 1 /\ Len(f) = IF 1 <= k - 1 THEN (k - 1) - 1 + 1 ELSE 0
      BY <2>1, <3>3, <3>4
    <3>6. Len(f) = k - 1
      BY <3>5
    <3> QED
      BY <3>3, <3>4, <3>6
  <2>5. Joined(got, n, lo, hi) = Append(f, last)
    BY <1>1 DEF Joined, Front
  <2> HIDE DEF f, last
  <2> DEFINE j == Append(f, last)
  <2>6. j \in Seq(Parts) /\ j # <<>> /\ Len(j) = Len(got) /\ j[Len(got)] = last
    <3>1. j \in Seq(Parts) /\ j # <<>> /\ Len(j) = Len(f) + 1 /\ j[Len(f) + 1] = last
      BY <2>3, <2>4, AppendProperties
    <3>2. Len(f) + 1 = Len(got)
      BY <2>1, <2>4
    <3> QED
      BY <3>1, <3>2
  <2>7. Last(j) = last
    BY <2>6 DEF Last
  <2>8. Len(j) = 1 => j = <<last>>
    <3>1. ASSUME Len(got) = 1 PROVE f = <<>>
      BY <2>4, <3>1, EmptySeq
    <3>2. ASSUME Len(got) = 1 PROVE j = <<last>>
      BY <2>3, <3>1, <3>2
    <3> QED
      BY <2>6, <3>2
  <2> HIDE DEF j
  <2> QED
    BY <1>1, <2>3, <2>5, <2>6, <2>7, <2>8 DEF j
<1>2. CASE ~(got # <<>> /\ Last(got).n = n /\ Last(got).hi + 1 = lo)
  <2> DEFINE last == [n |-> n, lo |-> lo, hi |-> hi]
  <2>1. last \in Parts /\ last.n = n /\ last.hi = hi /\ last.lo = lo
    BY DEF Parts
  <2>2. Joined(got, n, lo, hi) = Append(got, last)
    BY <1>2 DEF Joined
  <2> HIDE DEF last
  <2> DEFINE j == Append(got, last)
  <2>3. j \in Seq(Parts) /\ j # <<>> /\ Len(j) = Len(got) + 1 /\ j[Len(got) + 1] = last /\ Len(got) \in Nat
    BY <2>1, AppendProperties, LenProperties
  <2>4. Last(j) = last
    BY <2>3 DEF Last
  <2>5. Len(j) = 1 => j = <<last>>
    <3>1. ASSUME Len(j) = 1 PROVE got = <<>>
      BY <2>3, <3>1, EmptySeq
    <3> QED
      BY <2>1, <3>1
  <2> HIDE DEF j
  <2> QED
    BY <1>2, <2>1, <2>2, <2>3, <2>4, <2>5 DEF j
<1> QED
  BY <1>1, <1>2

\* What is left in the socket when bytes up to hi of its first part were taken.
LEMMA HeadTaken ==
    ASSUME TypesInv, WriterInv, StreamInv, stream # <<>>, UNCHANGED <<order, lock, writer>>,
           NEW hi \in Nat, stream[1].lo <= hi, hi <= stream[1].hi,
           stream' = IF hi = stream[1].hi THEN Tail(stream)
                     ELSE <<[stream[1] EXCEPT !.lo = hi + 1, !.fds = <<>>]>> \o Tail(stream)
    PROVE  /\ stream' \in Seq([n : Nat, lo : Nat, hi : Nat, fds : Fds]) /\ StreamInv'
           /\ \A p : p.n = stream[1].n /\ p.hi = hi => Follows(p, NextRead')
<1> DEFINE Segments == [n : Nat, lo : Nat, hi : Nat, fds : Fds]
<1> DEFINE t == Tail(stream)
<1>1. stream \in Seq(Segments) /\ Len(stream) \in Nat /\ Len(stream) >= 1
  BY EmptySeq DEF TypesInv
<1>2. t \in Seq(Segments) /\ Len(t) = Len(stream) - 1 /\ \A i \in 1..Len(t) : t[i] = stream[i + 1]
  <2> HIDE DEF Segments
  <2> QED
    BY <1>1, HeadTailProperties
<1>3. PICK s : s = stream[1]
  OBVIOUS
<1>4. 1 \in 1..Len(stream)
  BY <1>1
<1>5. s \in Segments /\ s.n \in Nat /\ s.lo \in Nat /\ s.hi \in Nat
  BY <1>3, <1>4, SegmentType
<1>6. /\ IsWritten(s)
      /\ 1 < Len(stream) => Follows(s, stream[2])
      /\ 1 = Len(stream) => Follows(s, NextWrite)
  <2>1. 1 + 1 = 2
    OBVIOUS
  <2> QED
    BY <1>3, <1>4, <2>1 DEF StreamInv
<1>7. NextWrite' = NextWrite /\ order' = order
  BY DEF NextWrite
<1> HIDE DEF t
<1>8. ASSUME hi = s.hi
      PROVE  /\ stream' \in Seq(Segments) /\ StreamInv'
             /\ \A p : p.n = s.n /\ p.hi = hi => Follows(p, NextRead')
  <2>1. stream' = t
    BY <1>3, <1>8 DEF t
  <2>2. StreamInv'
    <3>1. Len(stream') <= MaxSegments
      BY <1>1, <1>2, <2>1, IpcAssumption DEF StreamInv
    <3>2. ASSUME NEW i \in 1..Len(t)
          PROVE  /\ IsWritten(stream[i])'
                 /\ stream'[i].fds = IF stream'[i].lo = 1 THEN FdsOf(stream[i].n)' ELSE <<>>
                 /\ i < Len(stream') => Follows(stream[i], stream[i + 1])'
                 /\ i = Len(stream') => Follows(stream[i], NextWrite)'
      <4>0. PICK k : k = Len(stream)
        OBVIOUS
      <4>a. k \in Nat /\ k >= 1 /\ Len(t) = k - 1 /\ i \in 1..(k - 1)
        BY <1>1, <1>2, <4>0
      <4>b. i + 1 \in 1..k /\ (i < k - 1 => i + 1 < k /\ i + 1 \in 1..(k - 1)) /\ (i = k - 1 => i + 1 = k)
        BY <4>a
      <4>c. stream'[i] = stream[i + 1]
        BY <1>2, <2>1
      <4>d. i + 1 \in 1..Len(t) => stream'[i + 1] = stream[(i + 1) + 1]
        BY <1>2, <2>1
      <4>1. /\ i + 1 \in 1..Len(stream) /\ stream'[i] = stream[i + 1]
            /\ i < Len(t) => i + 1 < Len(stream) /\ i + 1 \in 1..Len(t) /\ stream'[i + 1] = stream[(i + 1) + 1]
            /\ i = Len(t) => i + 1 = Len(stream)
        BY <4>0, <4>a, <4>b, <4>c, <4>d
      <4>2. PICK p : p = stream[i + 1]
        OBVIOUS
      <4>3. /\ IsWritten(p) /\ p.fds = IF p.lo = 1 THEN FdsOf(p.n) ELSE <<>>
            /\ i + 1 < Len(stream) => Follows(p, stream[(i + 1) + 1])
            /\ i + 1 = Len(stream) => Follows(p, NextWrite)
        BY <4>1, <4>2 DEF StreamInv
      <4>4. stream'[i] = p
        BY <4>1, <4>2
      <4> QED
        BY <1>7, <2>1, <4>1, <4>3, <4>4 DEF IsWritten, Follows, FdsOf
    <3> QED
      BY <2>1, <3>1, <3>2 DEF StreamInv
  <2>3. ASSUME NEW p, p.n = s.n, p.hi = hi PROVE Follows(p, NextRead')
    <3>1. CASE t = <<>>
      <4>1. NextRead' = NextWrite /\ Len(stream) = 1
        BY <1>1, <1>2, <1>7, <2>1, <3>1 DEF NextRead
      <4> QED
        BY <1>6, <1>8, <2>3, <4>1 DEF Follows
    <3>2. CASE t # <<>>
      <4>1. Len(t) >= 1 /\ Len(t) \in Nat
        <5> HIDE DEF Segments
        <5> QED
          BY <1>2, <3>2, EmptySeq
      <4>2. t[1] = stream[2] /\ 1 < Len(stream)
        <5>1. 1 \in 1..Len(t) /\ 1 + 1 = 2
          BY <4>1
        <5>2. t[1] = stream[1 + 1]
          BY <1>2, <5>1
        <5>3. PICK k : k = Len(stream)
          OBVIOUS
        <5>4. Len(t) = k - 1 /\ k \in Nat
          BY <1>1, <1>2, <5>3
        <5>5. 1 < k
          BY <4>1, <5>4
        <5> QED
          BY <5>1, <5>2, <5>3, <5>5
      <4>3. (NextRead').n = stream[2].n /\ (NextRead').lo = stream[2].lo
        BY <2>1, <3>2, <4>2 DEF NextRead
      <4> QED
        BY <1>6, <1>8, <2>3, <4>2, <4>3 DEF Follows
    <3> QED
      BY <3>1, <3>2
  <2> QED
    BY <1>2, <2>1, <2>2, <2>3
<1>9. ASSUME hi # s.hi
      PROVE  /\ stream' \in Seq(Segments) /\ StreamInv'
             /\ \A p : p.n = s.n /\ p.hi = hi => Follows(p, NextRead')
  <2> DEFINE rest == [s EXCEPT !.lo = hi + 1, !.fds = <<>>]
  <2>1. rest \in Segments /\ rest.n = s.n /\ rest.lo = hi + 1 /\ rest.hi = s.hi /\ rest.fds = <<>>
    <3>1. <<>> \in Fds /\ hi + 1 \in Nat
      BY EmptySeq DEF Fds
    <3> QED
      BY <1>5, <3>1
  <2>2. stream' = <<rest>> \o t
    BY <1>3, <1>9 DEF t
  <2> HIDE DEF rest, Segments
  <2>3. /\ stream' \in Seq(Segments) /\ Len(stream') = Len(stream) /\ stream'[1] = rest
        /\ \A i \in 2..Len(stream) : stream'[i] = stream[i]
    <3>1. <<rest>> \in Seq(Segments) /\ Len(<<rest>>) = 1 /\ <<rest>>[1] = rest
      BY <2>1
    <3>2. /\ <<rest>> \o t \in Seq(Segments) /\ Len(<<rest>> \o t) = 1 + Len(t)
          /\ \A i \in 1..(1 + Len(t)) : (<<rest>> \o t)[i] = IF i <= 1 THEN <<rest>>[i] ELSE t[i - 1]
      BY <3>1, <1>2, ConcatProperties
    <3>3. 1 + Len(t) = Len(stream)
      BY <1>1, <1>2
    <3>4. ASSUME NEW i \in 2..Len(stream) PROVE stream'[i] = stream[i]
      <4>1. i \in 1..(1 + Len(t)) /\ ~(i <= 1) /\ i - 1 \in 1..Len(t) /\ (i - 1) + 1 = i
        BY <1>1, <3>3
      <4> QED
        BY <1>2, <2>2, <3>2, <4>1
    <3>5. stream'[1] = rest
      BY <1>1, <2>2, <3>1, <3>2, <3>3
    <3> QED
      BY <2>2, <3>2, <3>3, <3>4, <3>5
  <2>4. hi >= 1 /\ hi + 1 <= s.hi /\ s.lo >= 1
    BY <1>3, <1>5, <1>6, <1>9 DEF IsWritten
  <2>5. StreamInv'
    <3>1. Len(stream') <= MaxSegments
      BY <2>3 DEF StreamInv
    <3>2. ASSUME NEW i \in 1..Len(stream')
          PROVE  /\ IsWritten(stream[i])'
                 /\ stream'[i].fds = IF stream'[i].lo = 1 THEN FdsOf(stream[i].n)' ELSE <<>>
                 /\ i < Len(stream') => Follows(stream[i], stream[i + 1])'
                 /\ i = Len(stream') => Follows(stream[i], NextWrite)'
      <4>0. i < Len(stream) => i + 1 \in 2..Len(stream) /\ stream'[i + 1] = stream[i + 1]
        BY <1>1, <2>3
      <4>1. CASE i = 1
        <5>1. PICK p : p = rest
          OBVIOUS
        <5>2. stream'[i] = p /\ p.n = s.n /\ p.lo = hi + 1 /\ p.hi = s.hi /\ p.fds = <<>> /\ p.lo # 1
          BY <2>1, <2>3, <2>4, <4>1, <5>1
        <5>3. IsWritten(p)
          BY <1>5, <1>6, <2>4, <5>2 DEF IsWritten
        <5>4. /\ 1 < Len(stream) => Follows(p, stream[2])
              /\ 1 = Len(stream) => Follows(p, NextWrite)
          BY <1>6, <5>2 DEF Follows
        <5>5. 1 + 1 = 2
          OBVIOUS
        <5> QED
          BY <1>7, <2>3, <4>0, <4>1, <5>2, <5>3, <5>4, <5>5 DEF IsWritten, Follows
      <4>2. CASE i # 1
        <5>1. i \in 2..Len(stream) /\ stream'[i] = stream[i] /\ i \in 1..Len(stream)
          BY <2>3, <4>2
        <5>2. PICK p : p = stream[i]
          OBVIOUS
        <5>3. /\ IsWritten(p) /\ p.fds = IF p.lo = 1 THEN FdsOf(p.n) ELSE <<>>
              /\ i < Len(stream) => Follows(p, stream[i + 1])
              /\ i = Len(stream) => Follows(p, NextWrite)
          BY <5>1, <5>2 DEF StreamInv
        <5>4. stream'[i] = p
          BY <5>1, <5>2
        <5> QED
          BY <1>7, <2>3, <4>0, <5>3, <5>4 DEF IsWritten, Follows, FdsOf
      <4> QED
        BY <4>1, <4>2
    <3> QED
      BY <3>1, <3>2 DEF StreamInv
  <2>6. stream' # <<>>
    BY <1>1, <2>3
  <2>7. (NextRead').n = s.n /\ (NextRead').lo = hi + 1
    BY <2>1, <2>3, <2>6 DEF NextRead
  <2>8. \A p : p.n = s.n /\ p.hi = hi => Follows(p, NextRead')
    BY <2>7 DEF Follows
  <2> QED
    BY <2>3, <2>5, <2>8
<1> QED
  BY <1>3, <1>8, <1>9

\* What the reader is about to take, as long as no frame was torn.
LEMMA WantedInStep ==
    ASSUME IpcInv, Wanting, stream # <<>>, NoneTorn
    PROVE  /\ stream[1].n = Current /\ Current \in 1..Len(order) /\ ~order[Current].torn
           /\ reader.phase = "header" => stream[1].lo = reader.taken + 1
           /\ reader.phase = "payload" => stream[1].lo = HeaderBytes + reader.taken + 1
           /\ reader.phase = "header" /\ reader.got = <<>> => reader.fds = <<>> /\ stream[1].fds = FdsOf(Current)
           /\ ~(reader.phase = "header" /\ reader.got = <<>>) => stream[1].fds = <<>>
           /\ Len(reader.fds \o stream[1].fds) <= MaxFds
<1>1. TypesInv /\ WriterInv /\ StreamInv /\ ReaderInv /\ HeaderInv /\ PayloadInv /\ InStep
  BY DEF IpcInv
<1>2. PICK s : s = stream[1]
  OBVIOUS
<1>3. PICK c : c = Current
  OBVIOUS
<1>4. /\ 1 \in 1..Len(stream) /\ NextRead.n = s.n /\ NextRead.lo = s.lo /\ s.n \in 1..Len(order)
      /\ s.n \in Nat /\ s.lo \in Nat /\ s.hi \in Nat
  BY <1>1, <1>2, NextReadFacts
<1>5. s.fds = (IF s.lo = 1 THEN FdsOf(s.n) ELSE <<>>) /\ s.fds \in Fds /\ s.lo >= 1
  <2>1. s.fds = (IF s.lo = 1 THEN FdsOf(s.n) ELSE <<>>) /\ IsWritten(s)
    BY <1>1, <1>2, <1>4 DEF StreamInv
  <2>2. s.fds \in Fds
    BY <1>1, <1>2, <1>4, SegmentType
  <2> QED
    BY <2>1, <2>2 DEF IsWritten
<1>6. /\ reader.phase \in {"header", "payload"} /\ reader.taken \in Nat /\ reader.size \in Nat
      /\ reader.taken < reader.size /\ c \in Nat /\ Len(reader.fds) <= MaxFds /\ reader.fds \in Fds
      /\ reader.got \in Seq(Parts)
  <2>1. reader.taken \in Nat /\ reader.size \in Nat /\ Current \in Nat /\ reader.fds \in Fds /\ reader.got \in Seq(Parts)
    BY <1>1, GotType
  <2>2. reader.phase \in {"header", "payload"} /\ reader.size - reader.taken > 0
    BY DEF Wanting, Missing
  <2> QED
    BY <1>1, <1>3, <2>1, <2>2 DEF ReaderInv
<1>7. ASSUME NEW n \in 1..Len(order), n = c PROVE ~order[n].torn /\ Total(order[n].frame) = order[n].frame.size + 4
      /\ order[n].frame.size \in Nat /\ order[n].frame.size >= 1
  <2>1. order[n].frame \in SentFrames
    BY <1>1, FdsOfFacts
  <2>2. ~order[n].torn
    BY <1>3, <1>6, <1>7 DEF NoneTorn
  <2>3. order[n].frame.size \in 1..MaxFrameBytes /\ MaxFrameBytes \in Nat
    BY <2>1, SentFrameFacts, IpcAssumption
  <2> QED
    BY <2>1, <2>2, <2>3, SentFrameFacts
<1>8. CASE reader.phase = "header"
  <2>1. NextIs(c, reader.taken + 1) /\ reader.size = 4
    BY <1>1, <1>3, <1>8 DEF InStep, InStepHeader, HeaderInv, HeaderBytes
  <2>2. s.n = c /\ s.lo = reader.taken + 1
    <3>1. ASSUME c \in 1..Len(order), reader.taken + 1 = Total(order[c].frame) + 1 PROVE FALSE
      <4>1. Total(order[c].frame) = order[c].frame.size + 4 /\ order[c].frame.size \in Nat /\ order[c].frame.size >= 1
        BY <1>7, <3>1
      <4> QED
        BY <1>6, <2>1, <3>1, <4>1
    <3> QED
      BY <1>4, <2>1, <3>1 DEF NextIs
  <2>3. CASE reader.got = <<>>
    <3>1. reader.fds = <<>> /\ reader.taken = 0
      BY <1>1, <1>8, <2>3 DEF HeaderInv
    <3>2. s.lo = 1
      BY <2>2, <3>1
    <3>3. s.fds = FdsOf(c)
      BY <1>5, <2>2, <3>2
    <3>4. Len(FdsOf(c)) <= MaxFds
      BY <1>1, <1>4, <2>2, FdsOfFacts
    <3>5. reader.fds \o s.fds = s.fds
      BY <1>5, <3>1, ConcatEmptySeq DEF Fds
    <3> QED
      BY <1>2, <1>3, <1>4, <1>7, <1>8, <2>2, <2>3, <3>1, <3>3, <3>4, <3>5
  <2>4. CASE reader.got # <<>>
    <3>1. reader.got = << [n |-> c, lo |-> 1, hi |-> reader.taken] >>
      BY <1>1, <1>3, <1>8, <2>4 DEF InStep, InStepHeader
    <3>2. IsWritten(Last(reader.got))
      BY <1>1, <1>8, <2>4 DEF HeaderInv
    <3>3. Last(reader.got) = [n |-> c, lo |-> 1, hi |-> reader.taken]
      BY <3>1 DEF Last
    <3>4. 1 <= reader.taken
      BY <3>2, <3>3 DEF IsWritten
    <3>5. s.lo # 1
      BY <1>6, <2>2, <3>4
    <3>6. s.fds = <<>>
      BY <1>5, <3>5
    <3>7. reader.fds \o s.fds = reader.fds
      BY <1>6, <3>6, ConcatEmptySeq DEF Fds
    <3> QED
      BY <1>2, <1>3, <1>4, <1>6, <1>7, <1>8, <2>2, <2>4, <3>6, <3>7
  <2> QED
    BY <2>3, <2>4
<1>9. CASE reader.phase = "payload"
  <2>1. /\ NextIs(c, HeaderBytes + reader.taken + 1) /\ c \in 1..Len(order)
        /\ reader.size = order[c].frame.size
    BY <1>1, <1>3, <1>9 DEF InStep, InStepPayload
  <2>2. s.n = c /\ s.lo = HeaderBytes + reader.taken + 1
    <3>1. ASSUME HeaderBytes + reader.taken + 1 = Total(order[c].frame) + 1 PROVE FALSE
      <4>1. Total(order[c].frame) = order[c].frame.size + 4 /\ order[c].frame.size \in Nat
        BY <1>7, <2>1
      <4> QED
        BY <1>6, <2>1, <3>1, <4>1 DEF HeaderBytes
    <3> QED
      BY <1>4, <2>1, <3>1 DEF NextIs
  <2>3. s.lo # 1
    BY <1>6, <2>2 DEF HeaderBytes
  <2>4. s.fds = <<>>
    BY <1>5, <2>3
  <2>5. reader.fds \o s.fds = reader.fds
    BY <1>6, <2>4, ConcatEmptySeq DEF Fds
  <2> QED
    BY <1>2, <1>3, <1>6, <1>7, <1>9, <2>1, <2>2, <2>4, <2>5
<1> QED
  BY <1>6, <1>8, <1>9

\* A part of the first one in the socket, behind what was taken.
LEMMA TakenPart ==
    ASSUME TypesInv, WriterInv, StreamInv, stream # <<>>,
           NEW hi \in Nat, stream[1].lo <= hi, hi <= stream[1].hi,
           NEW p \in Parts, p.n = stream[1].n, p.hi = hi, p.lo >= 1, p.lo <= stream[1].lo
    PROVE  IsWritten(p)
<1>1. PICK s : s = stream[1]
  OBVIOUS
<1>2. 1 \in 1..Len(stream) /\ s.n \in Nat /\ s.lo \in Nat /\ s.hi \in Nat
  BY <1>1, NextReadFacts
<1>3. IsWritten(s)
  BY <1>1, <1>2 DEF StreamInv
<1>4. p.lo \in Nat
  BY DEF Parts
<1>5. NextWrite.n \in Nat /\ NextWrite.lo \in Nat /\ Total(order[s.n].frame) \in Nat
  <2>1. order[s.n].frame \in SentFrames
    BY <1>3, FdsOfFacts DEF IsWritten
  <2> QED
    BY <2>1, NextWriteFacts, SentFrameFacts
<1> QED
  BY <1>1, <1>2, <1>3, <1>4, <1>5 DEF IsWritten

\* One recvmsg returned bytes and descriptors within the limit.
Received(hi) ==
    /\ reader' = [reader EXCEPT !.got = Joined(@, stream[1].n, stream[1].lo, hi),
                                !.taken = @ + (hi - stream[1].lo + 1),
                                !.fds = @ \o stream[1].fds]
    /\ open' = open \cup Range(stream[1].fds)
    /\ stream' = IF hi = stream[1].hi THEN Tail(stream)
                 ELSE <<[stream[1] EXCEPT !.lo = hi + 1, !.fds = <<>>]>> \o Tail(stream)
    /\ UNCHANGED <<dir, writerVars, shut, failed, handled>>

\* What a recvmsg leaves of the invariant, and what it did to the reader.
LEMMA ReceivedFacts ==
    ASSUME IpcInv, Wanting, stream # <<>>, NEW hi \in Nat, stream[1].lo <= hi, hi <= stream[1].hi,
           hi - stream[1].lo + 1 <= Missing, Len(reader.fds \o stream[1].fds) <= MaxFds, Received(hi)
    PROVE  /\ TypesInv' /\ WriterInv' /\ StreamInv' /\ ReaderInv' /\ HandledInv' /\ CauseInv'
           /\ NextWrite' = NextWrite /\ order' = order /\ handled' = handled
           /\ reader'.phase = reader.phase /\ reader'.size = reader.size
           /\ reader'.taken = reader.taken + (hi - stream[1].lo + 1)
           /\ reader'.got = Joined(reader.got, stream[1].n, stream[1].lo, hi)
           /\ reader'.fds = reader.fds \o stream[1].fds
           /\ \A p : p.n = stream[1].n /\ p.hi = hi => Follows(p, NextRead')
<1>1. TypesInv /\ WriterInv /\ StreamInv /\ ReaderInv /\ HandledInv /\ CauseInv /\ failed \in BOOLEAN
  BY DEF IpcInv, TypesInv
<1>2. PICK s : s = stream[1]
  OBVIOUS
<1>3. 1 \in 1..Len(stream) /\ s.n \in Nat /\ s.lo \in Nat /\ s.hi \in Nat /\ s.fds \in Fds
  BY <1>1, <1>2, NextReadFacts, SegmentType
<1>4. reader \in [phase : {"header", "payload", "handling", "ended"}, size : Nat, taken : Nat,
                  got : Seq(Parts), fds : Fds]
  BY <1>1 DEF TypesInv
<1>5. reader.taken \in Nat /\ reader.size \in Nat /\ reader.got \in Seq(Parts) /\ reader.fds \in Fds
  BY <1>1, GotType
<1>6. /\ WriterInv' /\ NextWrite' = NextWrite /\ order' = order /\ dir' = dir /\ shut' = shut
      /\ writer' = writer /\ lock' = lock /\ timeouts' = timeouts /\ handled' = handled /\ failed' = failed
  <2>1. UNCHANGED <<dir, writerVars, shut>> /\ failed' = failed /\ handled' = handled
    BY DEF Received
  <2> QED
    BY <1>1, <2>1, WritersUndisturbed
<1>7. PICK got : got = Joined(reader.got, s.n, s.lo, hi)
  OBVIOUS
<1>8. got \in Seq(Parts)
  BY <1>3, <1>5, <1>7, JoinedFacts
<1>9. PICK fds : fds = reader.fds \o s.fds
  OBVIOUS
<1>10. fds \in Fds /\ Range(fds) = Range(reader.fds) \cup Range(s.fds)
  BY <1>3, <1>5, <1>9, ConcatProperties, RangeConcatenation DEF Fds
<1>11. PICK taken : taken = reader.taken + (hi - s.lo + 1)
  OBVIOUS
<1>12. taken \in Nat /\ taken <= reader.size
  BY <1>2, <1>3, <1>5, <1>11 DEF Missing
<1>13. reader' = [reader EXCEPT !.got = got, !.taken = taken, !.fds = fds]
  BY <1>2, <1>7, <1>9, <1>11 DEF Received
<1>14. /\ reader'.phase = reader.phase /\ reader'.size = reader.size /\ reader'.taken = taken
       /\ reader'.got = got /\ reader'.fds = fds
  BY <1>4, <1>13
<1>15. reader' \in [phase : {"header", "payload", "handling", "ended"}, size : Nat, taken : Nat,
                    got : Seq(Parts), fds : Fds]
  BY <1>4, <1>8, <1>10, <1>12, <1>13
<1>16. /\ stream' \in Seq([n : Nat, lo : Nat, hi : Nat, fds : Fds]) /\ StreamInv'
       /\ \A p : p.n = s.n /\ p.hi = hi => Follows(p, NextRead')
  <2>1. UNCHANGED <<order, lock, writer>>
    BY <1>6
  <2>2. stream' = IF hi = stream[1].hi THEN Tail(stream)
                  ELSE <<[stream[1] EXCEPT !.lo = hi + 1, !.fds = <<>>]>> \o Tail(stream)
    BY DEF Received
  <2> QED
    BY <1>1, <1>2, <2>1, <2>2, HeadTaken
<1>17. TypesInv'
  BY <1>1, <1>6, <1>15, <1>16 DEF TypesInv
<1>18. ReaderInv'
  <2>1. open' = open \cup Range(s.fds)
    BY <1>2 DEF Received
  <2>2. Len(fds) <= MaxFds
    BY <1>2, <1>9
  <2>3. reader.phase # "ended"
    BY DEF Wanting
  <2> QED
    BY <1>1, <1>10, <1>12, <1>14, <2>1, <2>2, <2>3 DEF ReaderInv
<1>19. HandledInv'
  BY <1>1, <1>6 DEF HandledInv, FdsOf
<1>20. CauseInv'
  BY <1>1, <1>6, <1>14 DEF CauseInv
<1> QED
  BY <1>2, <1>6, <1>7, <1>9, <1>11, <1>14, <1>16, <1>17, <1>18, <1>19, <1>20

\* The account of a header and of a payload.
LEMMA ReceivedAccount ==
    ASSUME IpcInv, Wanting, stream # <<>>, NEW hi \in Nat, stream[1].lo <= hi, hi <= stream[1].hi,
           hi - stream[1].lo + 1 <= Missing, Len(reader.fds \o stream[1].fds) <= MaxFds, Received(hi)
    PROVE  HeaderInv' /\ PayloadInv'
<1>1. TypesInv /\ WriterInv /\ StreamInv /\ HeaderInv /\ PayloadInv
  BY DEF IpcInv
<1>2. PICK s : s = stream[1]
  OBVIOUS
<1>3. /\ 1 \in 1..Len(stream) /\ s.n \in Nat /\ s.lo \in Nat /\ s.hi \in Nat /\ s.fds \in Fds
      /\ NextRead.n = s.n /\ NextRead.lo = s.lo
  BY <1>1, <1>2, NextReadFacts, SegmentType
<1>4. s.fds = (IF s.lo = 1 THEN FdsOf(s.n) ELSE <<>>) /\ s.lo >= 1
  <2>1. s.fds = (IF s.lo = 1 THEN FdsOf(s.n) ELSE <<>>) /\ IsWritten(s)
    BY <1>1, <1>2, <1>3 DEF StreamInv
  <2> QED
    BY <2>1 DEF IsWritten
<1>5. PICK g : g = reader.got
  OBVIOUS
<1>6. PICK taken : taken = reader.taken
  OBVIOUS
<1>7. PICK fds : fds = reader.fds
  OBVIOUS
<1>8. /\ taken \in Nat /\ g \in Seq(Parts) /\ fds \in Fds /\ Len(g) \in Nat /\ (g = <<>> <=> Len(g) = 0)
      /\ g # <<>> => /\ Last(g).n \in Nat /\ Last(g).lo \in Nat /\ Last(g).hi \in Nat /\ Last(g) = g[Len(g)]
  BY <1>1, <1>5, <1>6, <1>7, GotType
<1>9. PICK got : got = Joined(g, s.n, s.lo, hi)
  OBVIOUS
<1>10. PICK p : p = Last(got)
  OBVIOUS
<1>11. /\ got \in Seq(Parts) /\ got # <<>> /\ p.n = s.n /\ p.hi = hi
       /\ \/ /\ g # <<>> /\ Last(g).n = s.n /\ Last(g).hi + 1 = s.lo
             /\ Len(got) = Len(g) /\ p.lo = Last(g).lo
          \/ /\ ~(g # <<>> /\ Last(g).n = s.n /\ Last(g).hi + 1 = s.lo)
             /\ Len(got) = Len(g) + 1 /\ p.lo = s.lo
       /\ Len(got) = 1 => got = <<p>>
  BY <1>3, <1>8, <1>9, <1>10, JoinedFacts
<1>12. p \in Parts
  <2>1. Len(got) \in 1..Len(got)
    BY <1>11, EmptySeq
  <2>2. got[Len(got)] \in Parts
    BY <1>11, <2>1, ElementOfSeq
  <2> QED
    BY <1>10, <2>2 DEF Last
<1>13. /\ order' = order /\ NextWrite' = NextWrite
       /\ reader'.phase = reader.phase /\ reader'.size = reader.size
       /\ reader'.taken = taken + (hi - s.lo + 1) /\ reader'.got = got /\ reader'.fds = fds \o s.fds
       /\ Follows(p, NextRead')
  BY <1>2, <1>5, <1>6, <1>7, <1>9, <1>11, ReceivedFacts
<1>14. s.fds = <<>> => fds \o s.fds = fds
  BY <1>8, ConcatEmptySeq DEF Fds
<1>15. fds = <<>> => fds \o s.fds = s.fds
  BY <1>3, ConcatEmptySeq DEF Fds
<1>16. ASSUME g # <<>> => Last(g).lo >= 1 /\ Last(g).lo <= Last(g).hi PROVE IsWritten(p)'
  <2>1. p.lo >= 1 /\ p.lo <= s.lo
    BY <1>3, <1>4, <1>8, <1>11, <1>16
  <2>2. IsWritten(p)
    BY <1>1, <1>2, <1>11, <1>12, <2>1, TakenPart
  <2> QED
    BY <1>13, <2>2 DEF IsWritten
<1>17. ASSUME g # <<>>, Last(g).hi + 1 = s.lo, Last(g).lo >= 1, Last(g).lo <= Last(g).hi
       PROVE  fds \o s.fds = fds
  <2>1. s.lo # 1
    BY <1>3, <1>8, <1>17
  <2> QED
    BY <1>4, <1>14, <2>1
<1>18. HeaderInv'
  <2> SUFFICES ASSUME reader.phase = "header" PROVE HeaderInv'
    BY <1>13 DEF HeaderInv
  <2>1. /\ reader.size = HeaderBytes
        /\ g = <<>> => fds = <<>> /\ taken = 0
        /\ g # <<>> => /\ IsWritten(Last(g)) /\ Follows(Last(g), NextRead)
                       /\ Len(g) = 1 => /\ taken = Last(g).hi - Last(g).lo + 1
                                        /\ Last(g).lo = 1 => fds = FdsOf(Last(g).n)
                       /\ Len(g) > 1 => Last(g).lo = 1 /\ Last(g).hi < taken
    BY <1>1, <1>5, <1>6, <1>7 DEF HeaderInv
  <2>2. g # <<>> => Last(g).lo >= 1 /\ Last(g).lo <= Last(g).hi
    BY <2>1 DEF IsWritten
  <2>3. IsWritten(p)'
    BY <1>16, <2>2
  <2>4. Len(got) = 1 => /\ reader'.taken = p.hi - p.lo + 1
                        /\ p.lo = 1 => reader'.fds = FdsOf(p.n)
    <3>1. CASE g = <<>>
      <4>1. taken = 0 /\ p.lo = s.lo /\ reader'.fds = s.fds
        BY <1>11, <1>13, <1>15, <2>1, <3>1
      <4>2. 0 + (hi - s.lo + 1) = hi - s.lo + 1
        BY <1>3
      <4>3. reader'.taken = p.hi - p.lo + 1
        BY <1>11, <1>13, <4>1, <4>2
      <4>4. p.lo = 1 => reader'.fds = FdsOf(p.n)
        BY <1>4, <1>11, <4>1
      <4> QED
        BY <4>3, <4>4
    <3>2. ASSUME g # <<>>, Len(got) = 1
          PROVE  /\ reader'.taken = p.hi - p.lo + 1
                 /\ p.lo = 1 => reader'.fds = FdsOf(p.n)
      <4>1. Last(g).n = s.n /\ Last(g).hi + 1 = s.lo /\ Len(g) = 1 /\ p.lo = Last(g).lo
        BY <1>8, <1>11, <3>2
      <4>2. taken = Last(g).hi - Last(g).lo + 1 /\ (Last(g).lo = 1 => fds = FdsOf(Last(g).n))
        BY <2>1, <3>2, <4>1
      <4>3. reader'.fds = fds
        BY <1>13, <1>17, <2>2, <3>2, <4>1
      <4>4. reader'.taken = p.hi - p.lo + 1
        <5>1. PICK q : q = Last(g)
          OBVIOUS
        <5>2. q.lo \in Nat /\ q.hi \in Nat
          BY <1>8, <3>2, <5>1
        <5>3. s.lo = q.hi + 1 /\ taken = q.hi - q.lo + 1 /\ p.lo = q.lo
          BY <4>1, <4>2, <5>1
        <5>4. taken + (hi - s.lo + 1) = hi - q.lo + 1
          BY <5>2, <5>3
        <5> QED
          BY <1>11, <1>13, <5>3, <5>4
      <4> QED
        BY <1>11, <4>1, <4>2, <4>3, <4>4
    <3> QED
      BY <3>1, <3>2
  <2>5. Len(got) > 1 => p.lo = 1 /\ p.hi < reader'.taken
    <3> SUFFICES ASSUME Len(got) > 1 PROVE p.lo = 1 /\ p.hi < reader'.taken
      OBVIOUS
    <3>1. g # <<>> /\ Len(g) >= 1
      BY <1>8, <1>11
    <3>2. CASE Last(g).n = s.n /\ Last(g).hi + 1 = s.lo
      <4>1. Len(g) > 1 /\ p.lo = Last(g).lo
        BY <1>11, <3>1, <3>2
      <4> QED
        BY <1>3, <1>8, <1>11, <1>13, <2>1, <3>1, <3>2, <4>1
    <3>3. CASE ~(Last(g).n = s.n /\ Last(g).hi + 1 = s.lo)
      <4>1. s.lo = 1 /\ p.lo = 1
        BY <1>3, <1>11, <2>1, <3>1, <3>3 DEF Follows
      <4>2. taken >= 1
        <5>1. PICK q : q = Last(g)
          OBVIOUS
        <5>2. q.lo \in Nat /\ q.hi \in Nat /\ q.lo >= 1 /\ q.lo <= q.hi
          BY <1>8, <2>2, <3>1, <5>1
        <5>3. Len(g) = 1 \/ Len(g) > 1
          <6>1. PICK k : k = Len(g)
            OBVIOUS
          <6>2. k \in Nat /\ k >= 1
            BY <1>8, <3>1, <6>1
          <6>3. k = 1 \/ k > 1
            BY <6>2
          <6> QED
            BY <6>1, <6>3
        <5>4. CASE Len(g) = 1
          BY <2>1, <3>1, <5>1, <5>2, <5>4
        <5>5. CASE Len(g) > 1
          <6>1. q.hi < taken
            BY <2>1, <3>1, <5>1, <5>5
          <6> QED
            BY <1>8, <5>2, <6>1
        <5> QED
          BY <5>3, <5>4, <5>5
      <4> QED
        BY <1>3, <1>8, <1>11, <1>13, <4>1, <4>2
    <3> QED
      BY <3>2, <3>3
  <2> QED
    <3>1. FdsOf(p.n)' = FdsOf(p.n)
      BY <1>13 DEF FdsOf
    <3>2. Follows(p, NextRead)'
      BY <1>13 DEF Follows
    <3>3. reader'.got # <<>> /\ p = Last(reader'.got) /\ Len(reader'.got) = Len(got) /\ reader'.size = HeaderBytes
      BY <1>10, <1>11, <1>13, <2>1
    <3> QED
      BY <2>3, <2>4, <2>5, <3>1, <3>2, <3>3 DEF HeaderInv
<1>19. PayloadInv'
  <2> SUFFICES ASSUME reader.phase = "payload", Len(got) = 1 PROVE PayloadInv'
    BY <1>11, <1>13 DEF PayloadInv
  <2>1. /\ g = <<>> => taken = 0 /\ (NextRead.lo = HeaderBytes + 1 => fds = FdsOf(NextRead.n))
        /\ Len(g) = 1 => /\ IsWritten(g[1])
                         /\ g[1].lo = HeaderBytes + 1 => fds = FdsOf(g[1].n)
    BY <1>1, <1>5, <1>6, <1>7 DEF PayloadInv
  <2>2. IsWritten(p)' /\ (p.lo = HeaderBytes + 1 => reader'.fds = FdsOf(p.n))
    <3>1. CASE g = <<>>
      <4>1. p.lo = s.lo
        BY <1>11, <3>1
      <4>2. s.lo = HeaderBytes + 1 => s.fds = <<>>
        BY <1>4 DEF HeaderBytes
      <4> QED
        BY <1>3, <1>11, <1>13, <1>14, <1>16, <2>1, <3>1, <4>1, <4>2
    <3>2. CASE g # <<>>
      <4>1. Last(g).n = s.n /\ Last(g).hi + 1 = s.lo /\ Len(g) = 1 /\ p.lo = Last(g).lo
        BY <1>8, <1>11, <3>2
      <4>2. Last(g) = g[1]
        BY <1>8, <3>2, <4>1
      <4>3. Last(g).lo >= 1 /\ Last(g).lo <= Last(g).hi
        BY <2>1, <4>1, <4>2 DEF IsWritten
      <4>4. reader'.fds = fds
        BY <1>13, <1>17, <3>2, <4>1, <4>3
      <4> QED
        BY <1>11, <1>16, <2>1, <4>1, <4>2, <4>3, <4>4
    <3> QED
      BY <3>1, <3>2
  <2>3. reader'.got = <<p>> /\ reader'.got # <<>> /\ reader'.got[1] = p
    BY <1>11, <1>13
  <2>4. FdsOf(p.n)' = FdsOf(p.n)
    BY <1>13 DEF FdsOf
  <2> QED
    BY <2>2, <2>3, <2>4 DEF PayloadInv
<1> QED
  BY <1>18, <1>19

\* A reader in step takes the bytes it expects.
LEMMA ReceivedInStep ==
    ASSUME IpcInv, Wanting, stream # <<>>, NEW hi \in Nat, stream[1].lo <= hi, hi <= stream[1].hi,
           hi - stream[1].lo + 1 <= Missing, Len(reader.fds \o stream[1].fds) <= MaxFds, Received(hi)
    PROVE  InStep'
<1>1. TypesInv /\ WriterInv /\ StreamInv /\ ReaderInv /\ HeaderInv /\ PayloadInv /\ InStep
  BY DEF IpcInv
<1>2. PICK s : s = stream[1]
  OBVIOUS
<1>3. PICK c : c = Current
  OBVIOUS
<1>4. PICK g : g = reader.got
  OBVIOUS
<1>5. PICK taken : taken = reader.taken
  OBVIOUS
<1>6. PICK got : got = Joined(g, s.n, s.lo, hi)
  OBVIOUS
<1>7. PICK p : p = Last(got)
  OBVIOUS
<1>8. PICK fds : fds = reader.fds
  OBVIOUS
<1>9. /\ s.n \in Nat /\ s.lo \in Nat /\ s.hi \in Nat /\ s.fds \in Fds /\ s.lo >= 1
      /\ taken \in Nat /\ g \in Seq(Parts) /\ fds \in Fds /\ c \in Nat
  <2>1. 1 \in 1..Len(stream) /\ NextRead.lo = s.lo /\ NextRead.lo >= 1
    BY <1>1, <1>2, NextReadFacts
  <2> QED
    BY <1>1, <1>2, <1>3, <1>4, <1>5, <1>8, <2>1, GotType, SegmentType
<1>10. /\ order' = order /\ handled' = handled /\ NextWrite' = NextWrite
       /\ reader'.phase = reader.phase /\ reader'.size = reader.size
       /\ reader'.taken = taken + (hi - s.lo + 1) /\ reader'.got = got /\ reader'.fds = fds \o s.fds
       /\ \A q : q.n = s.n /\ q.hi = hi => Follows(q, NextRead')
  BY <1>2, <1>4, <1>5, <1>6, <1>8, ReceivedFacts
<1>11. /\ got \in Seq(Parts) /\ got # <<>> /\ p.n = s.n /\ p.hi = hi
       /\ \/ /\ g # <<>> /\ Last(g).n = s.n /\ Last(g).hi + 1 = s.lo
             /\ Len(got) = Len(g) /\ p.lo = Last(g).lo
          \/ /\ ~(g # <<>> /\ Last(g).n = s.n /\ Last(g).hi + 1 = s.lo)
             /\ Len(got) = Len(g) + 1 /\ p.lo = s.lo
       /\ Len(got) = 1 => got = <<p>>
  BY <1>6, <1>7, <1>9, JoinedFacts
<1>12. p \in Parts
  <2>1. Len(got) \in 1..Len(got)
    BY <1>11, EmptySeq
  <2>2. got[Len(got)] \in Parts
    BY <1>11, <2>1, ElementOfSeq
  <2> QED
    BY <1>7, <2>2 DEF Last
<1>13. Current' = c /\ (NoneTorn' <=> NoneTorn)
  BY <1>3, <1>10 DEF Current, NoneTorn
<1> SUFFICES ASSUME NoneTorn PROVE InStep'
  BY <1>13 DEF InStep
<1>14. /\ s.n = c /\ c \in 1..Len(order) /\ ~order[c].torn
       /\ reader.phase = "header" => s.lo = taken + 1
       /\ reader.phase = "payload" => s.lo = HeaderBytes + taken + 1
       /\ reader.phase = "header" /\ g = <<>> => fds = <<>> /\ s.fds = FdsOf(c)
       /\ ~(reader.phase = "header" /\ g = <<>>) => s.fds = <<>>
  BY <1>2, <1>3, <1>4, <1>5, <1>8, WantedInStep
<1>15. NextIs(c, hi + 1)'
  <2>1. PICK q : q = NextRead'
    OBVIOUS
  <2>2. Follows(p, q)
    BY <1>10, <1>11, <2>1
  <2>3. \/ q.n = c /\ q.lo = hi + 1
        \/ hi = Total(order[c].frame) /\ q.n = c + 1 /\ q.lo = 1
    BY <1>11, <1>14, <2>2 DEF Follows
  <2>4. \/ (NextRead').n = c /\ (NextRead').lo = hi + 1
        \/ /\ c \in 1..Len(order') /\ hi + 1 = Total(order'[c].frame) + 1
           /\ (NextRead').n = c + 1 /\ (NextRead').lo = 1
    BY <1>10, <1>14, <2>1, <2>3
  <2> QED
    BY <2>4 DEF NextIs, Total
<1>16. FdsOf(c)' = FdsOf(c)
  BY <1>10 DEF FdsOf
<1>17. reader.phase \in {"header", "payload"}
  BY DEF Wanting
<1>18. ASSUME NEW lo \in Nat, g = <<>> => s.lo = lo,
              g # <<>> => g = << [n |-> c, lo |-> lo, hi |-> s.lo - 1] >>
       PROVE  got = << [n |-> c, lo |-> lo, hi |-> hi] >>
  <2>1. CASE g = <<>>
    <3>1. Len(g) = 0
      BY <2>1, EmptySeq
    <3>2. Len(got) = 1 /\ p.lo = lo
      BY <1>11, <1>18, <2>1, <3>1
    <3>3. p = [n |-> c, lo |-> lo, hi |-> hi]
      BY <1>11, <1>12, <1>14, <3>2 DEF Parts
    <3> QED
      BY <1>11, <3>2, <3>3
  <2>2. CASE g # <<>>
    <3>1. PICK q : q = [n |-> c, lo |-> lo, hi |-> s.lo - 1]
      OBVIOUS
    <3>2. g = <<q>> /\ q.n = c /\ q.lo = lo /\ q.hi = s.lo - 1
      BY <1>18, <2>2, <3>1
    <3>3. Last(g) = q /\ Len(g) = 1
      BY <3>2 DEF Last
    <3>4. q.hi + 1 = s.lo
      BY <1>9, <3>2
    <3>5. Len(got) = 1 /\ p.lo = lo
      BY <1>11, <1>14, <2>2, <3>2, <3>3, <3>4
    <3>6. p = [n |-> c, lo |-> lo, hi |-> hi]
      BY <1>11, <1>12, <1>14, <3>5 DEF Parts
    <3> QED
      BY <1>11, <3>5, <3>6
  <2> QED
    BY <2>1, <2>2
<1>19. CASE reader.phase = "header"
  <2>1. /\ g = <<>> => fds = <<>> /\ taken = 0
        /\ g # <<>> => g = << [n |-> c, lo |-> 1, hi |-> taken] >> /\ fds = FdsOf(c)
    BY <1>1, <1>3, <1>4, <1>5, <1>8, <1>19 DEF HeaderInv, InStep, InStepHeader
  <2>2. s.lo - 1 = taken /\ reader'.taken = hi
    <3>1. PICK l : l = s.lo
      OBVIOUS
    <3>2. l \in Nat /\ l = taken + 1
      BY <1>9, <1>14, <1>19, <3>1
    <3>3. l - 1 = taken /\ taken + (hi - l + 1) = hi
      BY <1>9, <3>2
    <3> QED
      BY <1>10, <3>1, <3>3
  <2>3. got = << [n |-> c, lo |-> 1, hi |-> hi] >>
    BY <1>14, <1>18, <1>19, <2>1, <2>2
  <2>4. fds \o s.fds = FdsOf(c)
    <3>1. CASE g = <<>>
      <4>1. fds = <<>> /\ s.fds = FdsOf(c)
        BY <1>14, <1>19, <3>1
      <4>2. <<>> \o s.fds = s.fds
        BY <1>9, ConcatEmptySeq DEF Fds
      <4> QED
        BY <4>1, <4>2
    <3>2. CASE g # <<>>
      <4>1. s.fds = <<>> /\ fds = FdsOf(c)
        BY <1>14, <2>1, <3>2
      <4>2. fds \o <<>> = fds
        BY <1>9, ConcatEmptySeq DEF Fds
      <4> QED
        BY <4>1, <4>2
    <3> QED
      BY <3>1, <3>2
  <2>5. InStepHeader'
    <3>1. NextIs(Current, reader.taken + 1)'
      BY <1>13, <1>15, <2>2 DEF NextIs
    <3>2. reader'.got = << [n |-> Current', lo |-> 1, hi |-> reader'.taken] >> /\ reader'.fds = FdsOf(Current)'
      BY <1>10, <1>13, <1>16, <2>2, <2>3, <2>4 DEF FdsOf
    <3> QED
      BY <3>1, <3>2 DEF InStepHeader
  <2> QED
    BY <1>10, <1>19, <2>5 DEF InStep
<1>20. CASE reader.phase = "payload"
  <2>1. /\ c \in 1..Len(order) /\ reader.size = order[c].frame.size /\ fds = FdsOf(c)
        /\ g # <<>> => g = << [n |-> c, lo |-> HeaderBytes + 1, hi |-> HeaderBytes + taken] >>
    BY <1>1, <1>3, <1>4, <1>5, <1>8, <1>20 DEF InStep, InStepPayload
  <2>2. g = <<>> => taken = 0
    BY <1>1, <1>4, <1>5, <1>20 DEF PayloadInv
  <2>3. s.lo - 1 = HeaderBytes + taken /\ HeaderBytes + reader'.taken = hi /\ HeaderBytes + 1 \in Nat
    <3>1. PICK l : l = s.lo
      OBVIOUS
    <3>2. l \in Nat /\ l = 4 + taken + 1
      BY <1>9, <1>14, <1>20, <3>1 DEF HeaderBytes
    <3>3. l - 1 = 4 + taken /\ 4 + (taken + (hi - l + 1)) = hi /\ 4 + 1 \in Nat
      BY <1>9, <3>2
    <3> QED
      BY <1>10, <3>1, <3>3 DEF HeaderBytes
  <2>4. g = <<>> => s.lo = HeaderBytes + 1
    BY <1>14, <1>20, <2>2 DEF HeaderBytes
  <2>5. got = << [n |-> c, lo |-> HeaderBytes + 1, hi |-> hi] >>
    BY <1>18, <2>1, <2>3, <2>4
  <2>6. fds \o s.fds = FdsOf(c)
    <3>1. s.fds = <<>>
      BY <1>14, <1>20
    <3>2. fds \o <<>> = fds
      BY <1>9, ConcatEmptySeq DEF Fds
    <3> QED
      BY <2>1, <3>1, <3>2
  <2>7. InStepPayload'
    <3>1. NextIs(Current, HeaderBytes + reader.taken + 1)'
      BY <1>13, <1>15, <2>3 DEF NextIs
    <3>2. reader'.got = << [n |-> Current', lo |-> HeaderBytes + 1, hi |-> HeaderBytes + reader'.taken] >>
      BY <1>10, <1>13, <2>3, <2>5
    <3>3. Current' \in 1..Len(order') /\ reader'.size = order'[Current'].frame.size /\ reader'.fds = FdsOf(Current)'
      BY <1>10, <1>13, <1>16, <2>1, <2>6 DEF FdsOf
    <3> QED
      BY <3>1, <3>2, <3>3 DEF InStepPayload
  <2> QED
    BY <1>10, <1>20, <2>7 DEF InStep
<1> QED
  BY <1>17, <1>19, <1>20

\* A recvmsg keeps the invariant: too many descriptors come with torn frames only.
LEMMA ReceiveKeeps ==
    ASSUME IpcInv, Receive
    PROVE  IpcInv'
<1>1. TypesInv /\ WriterInv /\ StreamInv /\ ReaderInv
  BY DEF IpcInv
<1>2. Wanting /\ stream # <<>> /\ UNCHANGED <<dir, writerVars, shut>>
  BY DEF Receive
<1>3. PICK s : s = stream[1]
  OBVIOUS
<1>4. Head(stream) = s /\ s.n \in Nat /\ s.lo \in Nat /\ s.hi \in Nat /\ Missing \in Nat /\ Missing > 0
  <2>1. stream[1].n \in Nat /\ stream[1].lo \in Nat /\ stream[1].hi \in Nat
    BY <1>1, <1>2, NextReadFacts
  <2>2. Head(stream) = stream[1]
    OBVIOUS
  <2>3. Missing \in Nat /\ Missing > 0
    <3>1. reader.size \in Nat /\ reader.taken \in Nat
      BY <1>1, GotType
    <3> QED
      BY <1>2, <3>1 DEF Wanting, Missing
  <2> QED
    BY <1>3, <2>1, <2>2, <2>3
<1>5. PICK hi \in Cuts \cup {IF s.hi - s.lo + 1 <= Missing THEN s.hi ELSE s.lo + Missing - 1} :
        /\ s.lo <= hi /\ hi <= IF s.hi - s.lo + 1 <= Missing THEN s.hi ELSE s.lo + Missing - 1
        /\ IF TooMany(s.fds)
           THEN ReadFails
           ELSE /\ reader' = [reader EXCEPT !.got = Joined(@, s.n, s.lo, hi), !.taken = @ + (hi - s.lo + 1),
                                           !.fds = @ \o s.fds]
                /\ open' = open \cup Range(s.fds)
                /\ stream' = IF hi = s.hi THEN Tail(stream)
                             ELSE <<[s EXCEPT !.lo = hi + 1, !.fds = <<>>]>> \o Tail(stream)
                /\ UNCHANGED <<failed, handled>>
  BY <1>4 DEF Receive
<1>6. hi \in Nat /\ hi <= s.hi /\ hi - s.lo + 1 <= Missing
  <2>1. hi \in Nat
    BY <1>4, <1>5, IpcAssumption
  <2>2. PICK m : m = Missing
    OBVIOUS
  <2>3. CASE s.hi - s.lo + 1 <= m
    BY <1>4, <1>5, <2>1, <2>2, <2>3
  <2>4. CASE ~(s.hi - s.lo + 1 <= m)
    BY <1>4, <1>5, <2>1, <2>2, <2>4
  <2> QED
    BY <2>3, <2>4
<1>7. CASE TooMany(s.fds)
  <2>1. ~NoneTorn
    <3>1. Len(reader.fds \o stream[1].fds) > MaxFds
      BY <1>3, <1>7 DEF TooMany
    <3>2. PICK k : k = Len(reader.fds \o stream[1].fds)
      OBVIOUS
    <3>3. k \in Nat /\ MaxFds \in Nat
      <4>1. 1 \in 1..Len(stream) /\ reader.fds \in Fds
        BY <1>1, <1>2, NextReadFacts, GotType
      <4>2. stream[1].fds \in Fds
        BY <1>1, <4>1, SegmentType
      <4>3. reader.fds \o stream[1].fds \in Fds
        BY <4>1, <4>2, ConcatProperties DEF Fds
      <4> QED
        BY <3>2, <4>3, LenProperties, IpcAssumption DEF Fds
    <3>4. k > MaxFds
      BY <3>1, <3>2
    <3>5. ~(k <= MaxFds)
      BY <3>3, <3>4
    <3> QED
      BY <1>2, <3>2, <3>5, WantedInStep
  <2>2. \E n \in 1..Len(order) : order[n].torn
    BY <2>1 DEF NoneTorn
  <2> QED
    BY <1>2, <1>5, <1>7, <2>2, ReadFailsKeeps
<1>8. CASE ~TooMany(s.fds)
  <2>1. Received(hi)
    BY <1>2, <1>3, <1>5, <1>8 DEF Received
  <2>2. Len(reader.fds \o stream[1].fds) <= MaxFds
    <3>1. PICK k : k = Len(reader.fds \o stream[1].fds)
      OBVIOUS
    <3>2. k \in Nat /\ MaxFds \in Nat
      <4>1. 1 \in 1..Len(stream) /\ reader.fds \in Fds
        BY <1>1, <1>2, NextReadFacts, GotType
      <4>2. stream[1].fds \in Fds
        BY <1>1, <4>1, SegmentType
      <4>3. reader.fds \o stream[1].fds \in Fds
        BY <4>1, <4>2, ConcatProperties DEF Fds
      <4> QED
        BY <3>1, <4>3, LenProperties, IpcAssumption DEF Fds
    <3>3. ~(k > MaxFds)
      BY <1>3, <1>8, <3>1 DEF TooMany
    <3>4. k <= MaxFds
      BY <3>2, <3>3
    <3> QED
      BY <3>1, <3>4
  <2>3. stream[1].lo <= hi /\ hi <= stream[1].hi /\ hi - stream[1].lo + 1 <= Missing
    BY <1>3, <1>5, <1>6
  <2> QED
    BY <1>2, <1>6, <2>1, <2>2, <2>3, ReceivedFacts, ReceivedAccount, ReceivedInStep DEF IpcInv
<1> QED
  BY <1>7, <1>8

\* The socket and the writers are left alone.
LEMMA StreamUndisturbed ==
    ASSUME TypesInv, WriterInv, StreamInv, UNCHANGED <<dir, writerVars, shut, failed, stream>>
    PROVE  /\ WriterInv' /\ StreamInv' /\ NextWrite' = NextWrite /\ NextRead' = NextRead
           /\ order' = order /\ dir' = dir /\ shut' = shut /\ failed' = failed /\ stream' = stream
           /\ writer' = writer /\ lock' = lock /\ timeouts' = timeouts
<1>1. UNCHANGED <<dir, writerVars, shut>> /\ failed' = failed /\ stream' = stream /\ failed \in BOOLEAN
  BY DEF TypesInv
<1>2. /\ WriterInv' /\ NextWrite' = NextWrite /\ order' = order /\ dir' = dir /\ shut' = shut
      /\ writer' = writer /\ lock' = lock /\ timeouts' = timeouts
  BY <1>1, WritersUndisturbed
<1>3. NextRead' = NextRead
  BY <1>1, <1>2 DEF NextRead
<1>4. ASSUME NEW i \in 1..Len(stream)
      PROVE  /\ IsWritten(stream[i])'
             /\ stream'[i].fds = IF stream'[i].lo = 1 THEN FdsOf(stream[i].n)' ELSE <<>>
             /\ i < Len(stream') => Follows(stream[i], stream[i + 1])'
             /\ i = Len(stream') => Follows(stream[i], NextWrite)'
  <2>1. PICK p : p = stream[i]
    OBVIOUS
  <2>2. /\ IsWritten(p) /\ p.fds = IF p.lo = 1 THEN FdsOf(p.n) ELSE <<>>
        /\ i < Len(stream) => Follows(p, stream[i + 1])
        /\ i = Len(stream) => Follows(p, NextWrite)
    BY <2>1 DEF StreamInv
  <2>3. stream'[i] = p
    BY <1>1, <2>1
  <2> QED
    BY <1>1, <1>2, <2>2, <2>3 DEF IsWritten, Follows, FdsOf
<1>5. Len(stream') <= MaxSegments
  BY <1>1 DEF StreamInv
<1>6. StreamInv'
  BY <1>1, <1>4, <1>5 DEF StreamInv
<1> QED
  BY <1>1, <1>2, <1>3, <1>6

\* The invariant after a step that leaves the socket and the writers alone.
LEMMA SocketUndisturbed ==
    ASSUME IpcInv, UNCHANGED <<dir, writerVars, shut, failed, stream>>,
           reader' \in [phase : {"header", "payload", "handling", "ended"}, size : Nat, taken : Nat,
                        got : Seq(Parts), fds : Fds],
           handled' \in Seq([msg : Names \cup {Foreign}, fds : Fds, mapped : BOOLEAN])
    PROVE  /\ TypesInv' /\ WriterInv' /\ StreamInv' /\ NextWrite' = NextWrite /\ NextRead' = NextRead
           /\ order' = order
<1>1. TypesInv /\ WriterInv /\ StreamInv
  BY DEF IpcInv
<1>2. /\ WriterInv' /\ StreamInv' /\ NextWrite' = NextWrite /\ NextRead' = NextRead
      /\ order' = order /\ dir' = dir /\ shut' = shut /\ failed' = failed /\ stream' = stream
      /\ writer' = writer /\ lock' = lock /\ timeouts' = timeouts
  BY <1>1, StreamUndisturbed
<1>3. TypesInv'
  BY <1>1, <1>2 DEF TypesInv
<1> QED
  BY <1>2, <1>3

\* A step of nobody.
LEMMA StutterKeeps ==
    ASSUME IpcInv, UNCHANGED vars
    PROVE  IpcInv'
<1>1. UNCHANGED <<dir, writerVars, shut, failed, stream, reader, open, handled>>
  BY DEF vars, readerVars
<1>2. TypesInv /\ WriterInv /\ StreamInv
  BY DEF IpcInv
<1>3. UNCHANGED <<dir, writerVars, shut, failed, stream>>
  BY <1>1
<1>4. /\ WriterInv' /\ StreamInv' /\ NextWrite' = NextWrite /\ NextRead' = NextRead
      /\ order' = order /\ dir' = dir /\ shut' = shut /\ failed' = failed /\ stream' = stream
      /\ writer' = writer /\ lock' = lock /\ timeouts' = timeouts
  BY <1>2, <1>3, StreamUndisturbed
<1>5. TypesInv'
  BY <1>1, <1>2, <1>4 DEF TypesInv
<1>6. OrderGrows /\ SameOrJump(NextWrite, NextWrite')
  BY <1>2, <1>4, SameWrite
<1>7. Advance
  BY <1>2, <1>4, <1>5, <1>6, SocketStays
<1>8. UNCHANGED readerVars /\ (shut => shut')
  BY <1>1, <1>4 DEF readerVars
<1> QED
  BY <1>4, <1>5, <1>7, <1>8, ReaderUndisturbed DEF IpcInv

\* The end of the stream is read after a shutdown.
LEMMA ReadEofKeeps ==
    ASSUME IpcInv, ReadEof
    PROVE  IpcInv'
<1>1. shut /\ ReadFails /\ UNCHANGED <<dir, writerVars, shut>>
  BY DEF ReadEof
<1> QED
  BY <1>1, ReadFailsKeeps

\* The frame's destructor closes its descriptors.
LEMMA FrameDoneKeeps ==
    ASSUME IpcInv, FrameDone
    PROVE  IpcInv'
<1>1. /\ reader.phase = "handling" /\ open' = open \ Range(reader.fds) /\ reader' = NewReader
      /\ UNCHANGED <<dir, writerVars, shut, failed, stream>> /\ handled' = handled
  BY DEF FrameDone
<1>2. TypesInv /\ WriterInv /\ StreamInv /\ ReaderInv /\ InStep /\ HandledInv
  BY DEF IpcInv
<1>3. <<>> \in Seq(Parts) /\ <<>> \in Fds /\ Len(<<>>) = 0
  BY EmptySeq DEF Fds
<1>4. /\ reader'.phase = "header" /\ reader'.size = HeaderBytes /\ reader'.taken = 0
      /\ reader'.got = <<>> /\ reader'.fds = <<>>
  BY <1>1 DEF NewReader
<1>5. reader' \in [phase : {"header", "payload", "handling", "ended"}, size : Nat, taken : Nat,
                   got : Seq(Parts), fds : Fds]
  BY <1>1, <1>3 DEF NewReader, HeaderBytes
<1>6. handled' \in Seq([msg : Names \cup {Foreign}, fds : Fds, mapped : BOOLEAN])
  BY <1>1, <1>2 DEF TypesInv
<1>7. /\ TypesInv' /\ WriterInv' /\ StreamInv' /\ NextWrite' = NextWrite /\ NextRead' = NextRead
      /\ order' = order
  BY <1>1, <1>5, <1>6, SocketUndisturbed
<1>8. ReaderInv'
  <2>1. open' = {} /\ Range(<<>>) = {}
    BY <1>1, <1>2 DEF ReaderInv, Range
  <2> QED
    BY <1>3, <1>4, <2>1, IpcAssumption DEF ReaderInv, HeaderBytes
<1>9. HeaderInv' /\ PayloadInv' /\ CauseInv'
  BY <1>4 DEF HeaderInv, PayloadInv, CauseInv
<1>10. InStep'
  <2> SUFFICES ASSUME NoneTorn' PROVE InStepHeader'
    BY <1>4 DEF InStep
  <2>1. Current' = Current /\ NoneTorn
    BY <1>1, <1>7 DEF Current, NoneTorn
  <2>2. NextIs(Current, 1)
    BY <1>1, <1>2, <2>1 DEF InStep
  <2>3. 0 + 1 = 1
    OBVIOUS
  <2>4. NextIs(Current, reader.taken + 1)'
    BY <1>4, <1>7, <2>1, <2>2, <2>3 DEF NextIs
  <2> QED
    BY <1>4, <2>4 DEF InStepHeader
<1>11. HandledInv'
  BY <1>1, <1>2, <1>7 DEF HandledInv, FdsOf
<1> QED
  BY <1>7, <1>8, <1>9, <1>10, <1>11 DEF IpcInv

\* A header that was read in step is the one of the current frame.
LEMMA HeaderInStep ==
    ASSUME IpcInv, reader.phase = "header", Missing = 0, NoneTorn
    PROVE  /\ WholeHeader /\ reader.got[1].n = Current /\ Current \in 1..Len(order)
           /\ order[Current].frame.size \in Nat /\ ~SizeRefused(order[Current].frame.size)
           /\ reader.fds = FdsOf(Current) /\ NextIs(Current, HeaderBytes + 1)
<1>1. TypesInv /\ WriterInv /\ StreamInv /\ ReaderInv /\ HeaderInv /\ PayloadInv /\ InStep
  BY DEF IpcInv
<1>2. PICK c : c = Current
  OBVIOUS
<1>3. reader.taken = HeaderBytes /\ HeaderBytes = 4
  <2>1. reader.size = 4 /\ reader.taken \in Nat
    BY <1>1, GotType DEF HeaderInv, HeaderBytes
  <2>2. reader.size - reader.taken = 0
    BY DEF Missing
  <2> QED
    BY <2>1, <2>2 DEF HeaderBytes
<1>4. reader.got # <<>>
  BY <1>1, <1>3 DEF HeaderInv
<1>5. /\ NextIs(c, reader.taken + 1) /\ reader.fds = FdsOf(c)
      /\ reader.got = << [n |-> c, lo |-> 1, hi |-> reader.taken] >>
  BY <1>1, <1>2, <1>4 DEF InStep, InStepHeader
<1>6. /\ reader.got[1].n = c /\ reader.got[1].lo = 1 /\ reader.got[1].hi = HeaderBytes
      /\ Len(reader.got) = 1 /\ Last(reader.got).n = c
  BY <1>3, <1>5 DEF Last
<1>7. c \in 1..Len(order)
  <2>1. IsWritten(Last(reader.got))
    BY <1>1, <1>4 DEF HeaderInv
  <2> QED
    BY <1>6, <2>1 DEF IsWritten
<1>8. order[c].frame.size \in Nat /\ ~SizeRefused(order[c].frame.size)
  <2>1. order[c].frame \in SentFrames
    BY <1>1, <1>7, FdsOfFacts
  <2>2. order[c].frame.size \in 1..MaxFrameBytes /\ MaxFrameBytes \in Nat
    BY <2>1, SentFrameFacts, IpcAssumption
  <2> QED
    BY <2>2 DEF SizeRefused
<1> QED
  BY <1>2, <1>3, <1>5, <1>6, <1>7, <1>8 DEF WholeHeader

\* A header was read: its payload is next, or the reader ends for a cause.
LEMMA HeaderReadKeeps ==
    ASSUME IpcInv, HeaderRead
    PROVE  IpcInv'
<1>1. TypesInv /\ WriterInv /\ StreamInv /\ ReaderInv /\ HeaderInv /\ InStep /\ HandledInv
  BY DEF IpcInv
<1>2. reader.phase = "header" /\ Missing = 0 /\ UNCHANGED <<dir, writerVars, shut>>
  BY DEF HeaderRead
<1>3. PICK size \in IF WholeHeader THEN {order[reader.got[1].n].frame.size} ELSE MixedSizes :
        IF SizeRefused(size) THEN ReadFails
        ELSE /\ reader' = [phase |-> "payload", size |-> size, taken |-> 0, got |-> <<>>, fds |-> reader.fds]
             /\ UNCHANGED <<failed, stream, open, handled>>
  BY DEF HeaderRead
<1>4. NoneTorn => size = order[Current].frame.size /\ ~SizeRefused(size)
  BY <1>2, <1>3, HeaderInStep
<1>5. CASE SizeRefused(size)
  <2>1. \E n \in 1..Len(order) : order[n].torn
    BY <1>4, <1>5 DEF NoneTorn
  <2> QED
    BY <1>2, <1>3, <1>5, <2>1, ReadFailsKeeps
<1>6. CASE ~SizeRefused(size)
  <2>1. /\ reader' = [phase |-> "payload", size |-> size, taken |-> 0, got |-> <<>>, fds |-> reader.fds]
        /\ failed' = failed /\ stream' = stream /\ open' = open /\ handled' = handled
    BY <1>3, <1>6
  <2>2. /\ reader'.phase = "payload" /\ reader'.size = size /\ reader'.taken = 0
        /\ reader'.got = <<>> /\ reader'.fds = reader.fds
    BY <2>1
  <2>3. /\ reader.got \in Seq(Parts) /\ Len(reader.got) \in Nat /\ reader.fds \in Fds
        /\ reader.size \in Nat /\ reader.taken \in Nat /\ (reader.got = <<>> <=> Len(reader.got) = 0)
        /\ reader.got # <<>> => /\ Last(reader.got) = reader.got[Len(reader.got)]
                                /\ Last(reader.got).n \in Nat /\ Last(reader.got).lo \in Nat
                                /\ Last(reader.got).hi \in Nat
    BY <1>1, GotType
  <2>4. reader.taken = 4 /\ reader.got # <<>>
    <3>1. reader.size = 4 /\ reader.size - reader.taken = 0
      BY <1>1, <1>2 DEF HeaderInv, HeaderBytes, Missing
    <3>2. reader.taken = 4
      BY <2>3, <3>1
    <3> QED
      BY <1>1, <1>2, <3>2 DEF HeaderInv
  <2>5. PICK p : p = Last(reader.got)
    OBVIOUS
  <2>6. /\ IsWritten(p) /\ Follows(p, NextRead) /\ p.n \in Nat /\ p.lo \in Nat /\ p.hi \in Nat
        /\ Len(reader.got) = 1 => /\ reader.taken = p.hi - p.lo + 1
                                  /\ p.lo = 1 => reader.fds = FdsOf(p.n)
        /\ Len(reader.got) > 1 => p.lo = 1 /\ p.hi < reader.taken
    BY <1>1, <1>2, <2>3, <2>4, <2>5 DEF HeaderInv
  <2>7. size \in Nat
    <3>1. CASE WholeHeader
      <4>1. size = order[p.n].frame.size
        BY <1>3, <2>3, <2>4, <2>5, <3>1 DEF WholeHeader
      <4>2. p.n \in 1..Len(order)
        BY <2>6 DEF IsWritten
      <4>3. order[p.n].frame \in SentFrames
        BY <1>1, <4>2, FdsOfFacts
      <4> QED
        BY <4>1, <4>3, SentFrameFacts
    <3>2. CASE ~WholeHeader
      BY <1>3, <3>2, IpcAssumption
    <3> QED
      BY <3>1, <3>2
  <2>8. reader' \in [phase : {"header", "payload", "handling", "ended"}, size : Nat, taken : Nat,
                     got : Seq(Parts), fds : Fds]
    <3>1. <<>> \in Seq(Parts)
      BY EmptySeq
    <3> QED
      BY <2>1, <2>3, <2>7, <3>1
  <2>9. handled' \in Seq([msg : Names \cup {Foreign}, fds : Fds, mapped : BOOLEAN])
    BY <1>1, <2>1 DEF TypesInv
  <2>10. UNCHANGED <<dir, writerVars, shut, failed, stream>>
    BY <1>2, <2>1
  <2>11. /\ TypesInv' /\ WriterInv' /\ StreamInv' /\ NextWrite' = NextWrite /\ NextRead' = NextRead
         /\ order' = order
    BY <2>8, <2>9, <2>10, SocketUndisturbed
  <2>12. ReaderInv'
    BY <1>1, <2>1, <2>2, <2>7 DEF ReaderInv
  <2>13. HeaderInv' /\ CauseInv'
    BY <2>2 DEF HeaderInv, CauseInv
  <2>14. NextRead.lo = 5 => reader.fds = FdsOf(NextRead.n)
    <3> SUFFICES ASSUME NextRead.lo = 5 PROVE reader.fds = FdsOf(NextRead.n)
      OBVIOUS
    <3>1. NextRead.n = p.n /\ p.hi + 1 = 5
      BY <2>6 DEF Follows
    <3>2. p.hi = 4
      BY <2>6, <3>1
    <3>3. ~(Len(reader.got) > 1)
      BY <2>4, <2>6, <3>2
    <3>4. Len(reader.got) = 1
      <4>1. PICK k : k = Len(reader.got)
        OBVIOUS
      <4>2. k \in Nat /\ k # 0 /\ ~(k > 1)
        BY <2>3, <2>4, <3>3, <4>1
      <4>3. k = 1
        BY <4>2
      <4> QED
        BY <4>1, <4>3
    <3>5. 4 = 4 - p.lo + 1
      BY <2>4, <2>6, <3>2, <3>4
    <3>6. p.lo = 1
      BY <2>6, <3>5
    <3> QED
      BY <2>6, <3>1, <3>4, <3>6
  <2>15. PayloadInv'
    <3>1. FdsOf(NextRead.n)' = FdsOf(NextRead.n)
      BY <2>11 DEF FdsOf
    <3>2. Len(<<>>) = 0 /\ Len(<<>>) # 1 /\ HeaderBytes + 1 = 5
      BY EmptySeq DEF HeaderBytes
    <3> QED
      BY <2>2, <2>11, <2>14, <3>1, <3>2 DEF PayloadInv
  <2>16. InStep'
    <3> SUFFICES ASSUME NoneTorn' PROVE InStepPayload'
      BY <2>2 DEF InStep
    <3>1. Current' = Current /\ NoneTorn
      BY <2>1, <2>11 DEF Current, NoneTorn
    <3>2. /\ Current \in 1..Len(order) /\ reader.fds = FdsOf(Current) /\ NextIs(Current, HeaderBytes + 1)
          /\ size = order[Current].frame.size
      BY <1>2, <1>4, <3>1, HeaderInStep
    <3>3. HeaderBytes + 0 + 1 = HeaderBytes + 1
      BY DEF HeaderBytes
    <3>4. NextIs(Current, HeaderBytes + reader.taken + 1)'
      BY <2>2, <2>11, <3>1, <3>2, <3>3 DEF NextIs
    <3>5. FdsOf(Current)' = FdsOf(Current)
      BY <2>11, <3>1 DEF FdsOf
    <3> QED
      BY <2>2, <2>11, <3>1, <3>2, <3>4, <3>5 DEF InStepPayload
  <2>17. HandledInv'
    BY <1>1, <2>1, <2>11 DEF HandledInv, FdsOf
  <2> QED
    BY <2>11, <2>12, <2>13, <2>15, <2>16, <2>17 DEF IpcInv
<1> QED
  BY <1>5, <1>6

\* A whole frame was read and its message is handled.
LEMMA HandlingKeeps ==
    ASSUME IpcInv, reader.phase = "payload", UNCHANGED <<dir, writerVars, shut, failed, stream>>,
           open' = open, NEW m \in Names \cup {Foreign}, NEW mapped \in BOOLEAN,
           handled' = Append(handled, [msg |-> m, fds |-> reader.fds, mapped |-> mapped]),
           reader' = [reader EXCEPT !.phase = "handling", !.taken = 0, !.got = <<>>],
           NoneTorn => /\ Current \in 1..Len(order) /\ m = order[Current].frame.msg
                       /\ reader.fds = FdsOf(Current) /\ NextIs(Current, Total(order[Current].frame) + 1)
    PROVE  IpcInv'
<1>1. TypesInv /\ WriterInv /\ StreamInv /\ ReaderInv /\ HandledInv
  BY DEF IpcInv
<1>2. reader \in [phase : {"header", "payload", "handling", "ended"}, size : Nat, taken : Nat,
                  got : Seq(Parts), fds : Fds]
  BY <1>1 DEF TypesInv
<1>3. /\ reader'.phase = "handling" /\ reader'.size = reader.size /\ reader'.taken = 0
      /\ reader'.got = <<>> /\ reader'.fds = reader.fds
  BY <1>2
<1>4. reader' \in [phase : {"header", "payload", "handling", "ended"}, size : Nat, taken : Nat,
                   got : Seq(Parts), fds : Fds]
  <2>1. <<>> \in Seq(Parts)
    BY EmptySeq
  <2> QED
    BY <1>2, <2>1
<1> DEFINE Entries == [msg : Names \cup {Foreign}, fds : Fds, mapped : BOOLEAN]
<1> DEFINE entry == [msg |-> m, fds |-> reader.fds, mapped |-> mapped]
<1>5. handled \in Seq(Entries) /\ Len(handled) \in Nat /\ Current = Len(handled) + 1
  BY <1>1, GotType DEF TypesInv, Current
<1>6. entry \in Entries /\ entry.msg = m /\ entry.fds = reader.fds
  <2>1. reader.fds \in Fds
    BY <1>1, GotType
  <2> QED
    BY <2>1
<1> HIDE DEF Entries, entry
<1>7. /\ handled' \in Seq(Entries) /\ Len(handled') = Len(handled) + 1 /\ handled'[Len(handled) + 1] = entry
      /\ \A i \in 1..Len(handled) : handled'[i] = handled[i]
  <2>1. handled' = Append(handled, entry)
    BY DEF entry
  <2> QED
    BY <1>5, <1>6, <2>1, AppendProperties
<1>8. /\ TypesInv' /\ WriterInv' /\ StreamInv' /\ NextWrite' = NextWrite /\ NextRead' = NextRead
      /\ order' = order
  BY <1>4, <1>7, SocketUndisturbed DEF Entries
<1>9. ReaderInv'
  BY <1>1, <1>2, <1>3 DEF ReaderInv
<1>10. HeaderInv' /\ PayloadInv' /\ CauseInv'
  BY <1>3 DEF HeaderInv, PayloadInv, CauseInv
<1>11. PICK c : c = Current
  OBVIOUS
<1>12. c \in Nat /\ Current' = c + 1 /\ c = Len(handled) + 1
  BY <1>5, <1>7, <1>11 DEF Current
<1>13. NoneTorn => NextRead.n = c + 1 /\ NextRead.lo = 1
  <2> SUFFICES ASSUME NoneTorn PROVE NextRead.n = c + 1 /\ NextRead.lo = 1
    OBVIOUS
  <2>1. c \in 1..Len(order) /\ NextIs(c, Total(order[c].frame) + 1)
    BY <1>11
  <2>2. Total(order[c].frame) \in Nat
    BY <1>1, <2>1, FdsOfFacts, SentFrameFacts
  <2>3. ASSUME NextRead.n = c, NextRead.lo = Total(order[c].frame) + 1 PROVE FALSE
    <3>1. NextRead.lo <= Total(order[c].frame)
      BY <1>1, <2>1, <2>3, NextReadFacts
    <3> QED
      BY <2>2, <2>3, <3>1
  <2> QED
    BY <2>1, <2>3 DEF NextIs
<1>14. InStep'
  <2> SUFFICES ASSUME NoneTorn' PROVE NextIs(Current, 1)'
    BY <1>3 DEF InStep
  <2>1. NoneTorn
    <3>1. ASSUME NEW n \in 1..Len(order), order[n].torn PROVE n > c
      <4>1. n > c + 1
        BY <1>8, <1>12, <3>1 DEF NoneTorn
      <4>2. n \in Nat
        OBVIOUS
      <4> QED
        BY <1>12, <4>1, <4>2
    <3> QED
      BY <1>11, <3>1 DEF NoneTorn
  <2> QED
    BY <1>8, <1>12, <1>13, <2>1 DEF NextIs
<1>15. HandledInv'
  <2>1. ASSUME NEW k \in 1..Len(handled)
        PROVE  \/ k < NextWrite.n /\ handled'[k].msg = order[k].frame.msg /\ handled'[k].fds = FdsOf(k)
               \/ \E n \in 1..Len(order) : order[n].torn /\ n <= k
    BY <1>1, <1>7 DEF HandledInv
  <2>2. \/ c < NextWrite.n /\ handled'[c].msg = order[c].frame.msg /\ handled'[c].fds = FdsOf(c)
        \/ \E n \in 1..Len(order) : order[n].torn /\ n <= c
    <3>1. CASE NoneTorn
      <4>1. NextRead.n <= NextWrite.n /\ NextWrite.n \in Nat
        BY <1>1, NextReadFacts, NextWriteFacts
      <4>2. c < NextWrite.n
        BY <1>12, <1>13, <3>1, <4>1
      <4>3. handled'[c] = entry
        BY <1>7, <1>12
      <4> QED
        BY <1>6, <1>11, <3>1, <4>2, <4>3
    <3>2. CASE ~NoneTorn
      <4>1. PICK n \in 1..Len(order) : order[n].torn /\ ~(n > c)
        BY <1>11, <3>2 DEF NoneTorn
      <4>2. n \in Nat
        OBVIOUS
      <4>3. n <= c
        BY <1>12, <4>1, <4>2
      <4> QED
        BY <4>1, <4>3
    <3> QED
      BY <3>1, <3>2
  <2>3. ASSUME NEW k \in 1..Len(handled')
        PROVE  \/ k < (NextWrite').n /\ handled'[k].msg = order'[k].frame.msg /\ handled'[k].fds = FdsOf(k)'
               \/ \E n \in 1..Len(order') : order'[n].torn /\ n <= k
    <3>1. k = c \/ k \in 1..Len(handled)
      BY <1>5, <1>7, <1>12
    <3>2. FdsOf(k)' = FdsOf(k)
      BY <1>8 DEF FdsOf
    <3> QED
      BY <1>8, <2>1, <2>2, <3>1, <3>2
  <2> QED
    BY <2>3 DEF HandledInv
<1> QED
  BY <1>8, <1>9, <1>10, <1>14, <1>15 DEF IpcInv

\* A payload that is one frame's: that frame was sent, and its descriptors are here.
LEMMA WholePayloadFacts ==
    ASSUME IpcInv, reader.phase = "payload", WholePayload
    PROVE  /\ reader.got[1].n \in 1..Len(order) /\ order[reader.got[1].n].frame \in SentFrames
           /\ reader.fds = FdsOf(reader.got[1].n)
<1>1. TypesInv /\ PayloadInv
  BY DEF IpcInv
<1>2. IsWritten(reader.got[1]) /\ reader.fds = FdsOf(reader.got[1].n)
  BY <1>1 DEF PayloadInv, WholePayload
<1>3. reader.got[1].n \in 1..Len(order)
  BY <1>2 DEF IsWritten
<1> QED
  BY <1>1, <1>2, <1>3, FdsOfFacts

\* A payload that was read in step is the one of the current frame.
LEMMA PayloadInStep ==
    ASSUME IpcInv, reader.phase = "payload", Missing = 0, NoneTorn
    PROVE  /\ WholePayload /\ reader.got[1].n = Current /\ Current \in 1..Len(order)
           /\ reader.fds = FdsOf(Current) /\ NextIs(Current, Total(order[Current].frame) + 1)
<1>1. TypesInv /\ PayloadInv /\ InStep
  BY DEF IpcInv
<1>2. PICK c : c = Current
  OBVIOUS
<1>3. /\ c \in 1..Len(order) /\ reader.size = order[c].frame.size /\ reader.fds = FdsOf(c)
      /\ NextIs(c, HeaderBytes + reader.taken + 1)
      /\ reader.got # <<>> =>
           reader.got = << [n |-> c, lo |-> HeaderBytes + 1, hi |-> HeaderBytes + reader.taken] >>
  BY <1>1, <1>2 DEF InStep, InStepPayload
<1>4. /\ order[c].frame.size \in Nat /\ order[c].frame.size >= 1
      /\ Total(order[c].frame) = order[c].frame.size + 4
  <2>1. order[c].frame \in SentFrames
    BY <1>1, <1>3, FdsOfFacts
  <2>2. order[c].frame.size \in 1..MaxFrameBytes /\ MaxFrameBytes \in Nat
    BY <2>1, SentFrameFacts, IpcAssumption
  <2> QED
    BY <2>1, <2>2, SentFrameFacts
<1>5. reader.taken = order[c].frame.size
  <2>1. reader.taken \in Nat /\ reader.size - reader.taken = 0
    BY <1>1, GotType DEF Missing
  <2> QED
    BY <1>3, <1>4, <2>1
<1>6. reader.got # <<>>
  BY <1>1, <1>4, <1>5 DEF PayloadInv
<1>7. HeaderBytes + reader.taken = Total(order[c].frame)
  BY <1>4, <1>5 DEF HeaderBytes
<1>8. /\ Len(reader.got) = 1 /\ reader.got[1].n = c /\ reader.got[1].lo = HeaderBytes + 1
      /\ reader.got[1].hi = Total(order[c].frame)
  <2>1. PICK q : q = [n |-> c, lo |-> HeaderBytes + 1, hi |-> HeaderBytes + reader.taken]
    OBVIOUS
  <2>2. q.n = c /\ q.lo = HeaderBytes + 1 /\ q.hi = HeaderBytes + reader.taken
    BY <2>1
  <2>3. reader.got = <<q>>
    BY <1>3, <1>6, <2>1
  <2>4. Len(reader.got) = 1 /\ reader.got[1] = q
    BY <2>3
  <2> QED
    BY <1>7, <2>2, <2>4
<1> QED
  BY <1>2, <1>3, <1>7, <1>8 DEF WholePayload

\* A payload was read: it is handled, or the reader ends for a cause.
LEMMA PayloadReadKeeps ==
    ASSUME CodecRoundTrips, IpcInv, PayloadRead
    PROVE  IpcInv'
<1>1. /\ reader.phase = "payload" /\ Missing = 0 /\ UNCHANGED <<dir, writerVars, shut>>
      /\ \/ /\ WholePayload
            /\ LET results == order[reader.got[1].n].frame.decoded IN
               \/ results = {} /\ ReadFails
               \/ \E d \in results :
                    /\ handled' = Append(handled, [msg |-> d.msg, fds |-> reader.fds,
                                                   mapped |-> Mapped(d.rings, reader.fds)])
                    /\ reader' = [reader EXCEPT !.phase = "handling", !.taken = 0, !.got = <<>>]
                    /\ UNCHANGED <<failed, stream, open>>
         \/ ~WholePayload /\ ReadFails
         \/ /\ ~WholePayload
            /\ handled' = Append(handled, [msg |-> Foreign, fds |-> reader.fds, mapped |-> FALSE])
            /\ reader' = [reader EXCEPT !.phase = "handling", !.taken = 0, !.got = <<>>]
            /\ UNCHANGED <<failed, stream, open>>
  BY DEF PayloadRead
<1>2. NoneTorn => /\ WholePayload /\ reader.got[1].n = Current /\ Current \in 1..Len(order)
                  /\ reader.fds = FdsOf(Current) /\ NextIs(Current, Total(order[Current].frame) + 1)
  BY <1>1, PayloadInStep
<1>3. CASE WholePayload
  <2>1. PICK f : f = order[reader.got[1].n].frame
    OBVIOUS
  <2>2. f \in SentFrames /\ f.msg \in Names /\ f.decoded = {[msg |-> f.msg, rings |-> f.rings]}
    BY <1>1, <1>3, <2>1, WholePayloadFacts, SentFrameFacts
  <2>3. PICK d \in f.decoded :
          /\ handled' = Append(handled, [msg |-> d.msg, fds |-> reader.fds,
                                         mapped |-> Mapped(d.rings, reader.fds)])
          /\ reader' = [reader EXCEPT !.phase = "handling", !.taken = 0, !.got = <<>>]
          /\ UNCHANGED <<failed, stream, open>>
    BY <1>1, <1>3, <2>1, <2>2
  <2>4. d.msg = f.msg
    BY <2>2, <2>3
  <2>5. PICK mapped : mapped = Mapped(d.rings, reader.fds)
    OBVIOUS
  <2>6. mapped \in BOOLEAN
    BY <2>5 DEF Mapped
  <2>7. NoneTorn => /\ Current \in 1..Len(order) /\ f.msg = order[Current].frame.msg
                    /\ reader.fds = FdsOf(Current) /\ NextIs(Current, Total(order[Current].frame) + 1)
    BY <1>2, <2>1
  <2>8. handled' = Append(handled, [msg |-> f.msg, fds |-> reader.fds, mapped |-> mapped])
    BY <2>3, <2>4, <2>5
  <2>9. UNCHANGED <<dir, writerVars, shut, failed, stream>> /\ open' = open /\ f.msg \in Names \cup {Foreign}
    BY <1>1, <2>2, <2>3
  <2> QED
    BY <1>1, <2>3, <2>6, <2>7, <2>8, <2>9, HandlingKeeps
<1>4. CASE ~WholePayload
  <2>1. \E n \in 1..Len(order) : order[n].torn
    BY <1>2, <1>4 DEF NoneTorn
  <2>2. CASE ReadFails
    BY <1>1, <2>1, <2>2, ReadFailsKeeps
  <2>3. CASE /\ handled' = Append(handled, [msg |-> Foreign, fds |-> reader.fds, mapped |-> FALSE])
             /\ reader' = [reader EXCEPT !.phase = "handling", !.taken = 0, !.got = <<>>]
             /\ UNCHANGED <<failed, stream, open>>
    <3>1. UNCHANGED <<dir, writerVars, shut, failed, stream>> /\ open' = open
          /\ Foreign \in Names \cup {Foreign} /\ FALSE \in BOOLEAN
      BY <1>1, <2>3
    <3>2. ~NoneTorn
      BY <1>2, <1>4
    <3> QED
      BY <1>1, <2>3, <3>1, <3>2, HandlingKeeps
  <2> QED
    BY <1>1, <1>4, <2>2, <2>3
<1> QED
  BY <1>3, <1>4

-----------------------------------------------------------------------------
\* The invariant

\* A step of a writer.
LEMMA WriterStepKeeps ==
    ASSUME IpcInv, NEW t \in Threads, Call(t) \/ Lock(t) \/ Send(t) \/ SendFails(t)
    PROVE  IpcInv'
<1>1. TypesInv /\ WriterInv /\ StreamInv
  BY DEF IpcInv
<1>2. CASE Call(t) \/ Lock(t) \/ SendFails(t)
  <2>1. /\ TypesInv' /\ WriterInv' /\ OrderGrows /\ SameOrJump(NextWrite, NextWrite')
        /\ UNCHANGED <<stream, readerVars, shut>>
    BY <1>1, <1>2, CallWrites, LockWrites, SendFailsWrites
  <2>2. UNCHANGED stream /\ UNCHANGED readerVars /\ (shut => shut')
    BY <2>1
  <2>3. Advance /\ StreamInv'
    BY <1>1, <2>1, <2>2, SocketStays
  <2> QED
    BY <2>1, <2>2, <2>3, ReaderUndisturbed DEF IpcInv
<1>3. CASE Send(t)
  <2>1. TypesInv' /\ WriterInv' /\ StreamInv' /\ Advance /\ UNCHANGED <<readerVars, shut, order>>
    BY <1>1, <1>3, SendWrites
  <2>2. UNCHANGED readerVars /\ (shut => shut')
    BY <2>1
  <2> QED
    BY <2>1, <2>2, ReaderUndisturbed DEF IpcInv
<1> QED
  BY <1>2, <1>3

\* A shutdown of the socket.
LEMMA ShutdownKeeps ==
    ASSUME IpcInv, Shutdown
    PROVE  IpcInv'
<1>1. TypesInv /\ WriterInv /\ StreamInv
  BY DEF IpcInv
<1>2. /\ TypesInv' /\ WriterInv' /\ OrderGrows /\ SameOrJump(NextWrite, NextWrite')
      /\ UNCHANGED <<stream, readerVars>> /\ shut'
  BY <1>1, ShutdownWrites
<1>3. UNCHANGED stream /\ UNCHANGED readerVars /\ (shut => shut')
  BY <1>2
<1>4. Advance /\ StreamInv'
  BY <1>1, <1>2, <1>3, SocketStays
<1> QED
  BY <1>2, <1>3, <1>4, ReaderUndisturbed DEF IpcInv

\* The invariant holds in the beginning, ...
LEMMA IpcInvInit == Init => IpcInv
<1> SUFFICES ASSUME Init PROVE IpcInv
  OBVIOUS
<1>1. /\ dir \in Directions
      /\ writer = [t \in Threads |-> Quiet] /\ lock = Nobody /\ failed = FALSE /\ shut = FALSE
      /\ stream = <<>> /\ timeouts = 0 /\ order = <<>>
      /\ reader = NewReader /\ open = {} /\ handled = <<>>
  BY DEF Init
<1>2. /\ reader.phase = "header" /\ reader.size = 4 /\ reader.taken = 0
      /\ reader.got = <<>> /\ reader.fds = <<>>
  BY <1>1 DEF NewReader, HeaderBytes
<1>3. Len(<<>>) = 0 /\ Range(<<>>) = {}
  BY EmptySeq DEF Range
<1>4. TypesInv
  <2>1. NewReader \in [phase : {"header", "payload", "handling", "ended"}, size : Nat, taken : Nat,
                       got : Seq(Parts), fds : Fds]
    <3>1. <<>> \in Seq(Parts) /\ <<>> \in Fds
      BY EmptySeq DEF Fds
    <3> QED
      BY <3>1 DEF NewReader, HeaderBytes
  <2>2. writer \in [Threads -> [pc : {"idle", "called", "writing"}, frame : SentFrames \cup {NoFrame},
                                n : Nat, sent : Nat]]
    BY <1>1 DEF Quiet
  <2>3. /\ <<>> \in Seq([n : Nat, lo : Nat, hi : Nat, fds : Fds])
        /\ <<>> \in Seq([frame : SentFrames, torn : BOOLEAN])
        /\ <<>> \in Seq([msg : Names \cup {Foreign}, fds : Fds, mapped : BOOLEAN])
    BY EmptySeq
  <2>4. 0 \in 0..MaxTimeouts
    BY IpcAssumption
  <2> QED
    BY <1>1, <2>1, <2>2, <2>3, <2>4 DEF TypesInv
<1>5. WriterInv
  <2>1. \A t \in Threads : writer[t].pc = "idle" /\ lock # t
    BY <1>1, IpcAssumption DEF Quiet
  <2>2. {u \in Threads : writer[u].pc = "called"} = {}
    BY <2>1
  <2>3. Cardinality({}) = 0
    BY FS_EmptySet
  <2>4. TornFrames = {}
    BY <1>1 DEF TornFrames
  <2>5. 0 + 0 <= MaxFrames
    BY IpcAssumption
  <2> QED
    BY <1>1, <1>3, <2>1, <2>2, <2>3, <2>4, <2>5 DEF WriterInv
<1>6. StreamInv
  BY <1>1, <1>3, IpcAssumption DEF StreamInv
<1>7. ReaderInv /\ HeaderInv /\ PayloadInv /\ CauseInv
  BY <1>1, <1>2, <1>3, IpcAssumption DEF ReaderInv, HeaderInv, PayloadInv, CauseInv, HeaderBytes
<1>8. InStep
  <2>1. NextWrite.n = 1 /\ NextWrite.lo = 1
    BY <1>1, <1>3 DEF NextWrite
  <2>2. NextRead = NextWrite /\ Current = 1
    BY <1>1, <1>3 DEF NextRead, Current
  <2> QED
    BY <1>2, <2>1, <2>2 DEF InStep, InStepHeader, NextIs
<1>9. HandledInv
  BY <1>1, <1>3 DEF HandledInv
<1> QED
  BY <1>4, <1>5, <1>6, <1>7, <1>8, <1>9 DEF IpcInv

\* ... every step keeps it, ...
LEMMA IpcInvNext ==
    ASSUME CodecRoundTrips, IpcInv, [Next]_vars
    PROVE  IpcInv'
<1>1. CASE \E t \in Threads : Call(t) \/ Lock(t) \/ Send(t) \/ SendFails(t)
  BY <1>1, WriterStepKeeps
<1>2. CASE Shutdown
  BY <1>2, ShutdownKeeps
<1>3. CASE Receive
  BY <1>3, ReceiveKeeps
<1>4. CASE ReadEof
  BY <1>4, ReadEofKeeps
<1>5. CASE HeaderRead
  BY <1>5, HeaderReadKeeps
<1>6. CASE PayloadRead
  BY <1>6, PayloadReadKeeps
<1>7. CASE FrameDone
  BY <1>7, FrameDoneKeeps
<1>8. CASE UNCHANGED vars
  BY <1>8, StutterKeeps
<1> QED
  BY <1>1, <1>2, <1>3, <1>4, <1>5, <1>6, <1>7, <1>8 DEF Next, ReaderStep

\* ... and so it always holds, if the receiver's codec undoes the sender's.
LEMMA IpcInvAlways == ASSUME CodecRoundTrips PROVE Spec => []IpcInv
<1>1. Init => IpcInv
  BY IpcInvInit
<1>2. IpcInv /\ [Next]_vars => IpcInv'
  BY IpcInvNext
<1> QED
  BY <1>1, <1>2, PTL DEF Spec

\* The invariant says that frames arrive intact ...
LEMMA IntactFrames == IpcInv => FramesArriveIntact
<1> SUFFICES ASSUME IpcInv PROVE FramesArriveIntact
  OBVIOUS
<1>1. TypesInv /\ WriterInv /\ HandledInv
  BY DEF IpcInv
<1>2. DOMAIN handled = 1..Len(handled) /\ Len(handled) \in Nat
  BY <1>1, LenProperties DEF TypesInv
<1>3. /\ DOMAIN order = 1..Len(order) /\ Len(order) \in Nat /\ NextWrite.n \in Nat
      /\ NextWrite.n <= Len(order) + 1
  BY <1>1, NextWriteFacts
<1>4. ASSUME NEW k \in 1..Len(handled)
      PROVE  \/ k <= Len(order) /\ handled[k].msg = order[k].frame.msg /\ handled[k].fds = FdsOf(k)
             \/ \E n \in TornFrames : n <= k /\ (dir = "requests" => failed)
  <2>1. CASE k < NextWrite.n /\ handled[k].msg = order[k].frame.msg /\ handled[k].fds = FdsOf(k)
    BY <1>3, <2>1
  <2>2. CASE \E n \in 1..Len(order) : order[n].torn /\ n <= k
    <3>1. PICK n \in 1..Len(order) : order[n].torn /\ n <= k
      BY <2>2
    <3>2. n \in TornFrames
      BY <1>3, <3>1 DEF TornFrames
    <3>3. dir = "requests" => failed
      BY <1>1, <3>2 DEF WriterInv
    <3> QED
      BY <3>1, <3>2, <3>3
  <2> QED
    BY <1>1, <2>1, <2>2 DEF HandledInv
<1> QED
  BY <1>2, <1>4 DEF FramesArriveIntact

\* ... and that the reader is sound.
LEMMA SoundReader == IpcInv => ReaderIsSound
<1> SUFFICES ASSUME IpcInv PROVE ReaderIsSound
  OBVIOUS
<1>1. TypesInv /\ WriterInv /\ StreamInv /\ ReaderInv /\ HeaderInv /\ CauseInv
  BY DEF IpcInv
<1>2. /\ dir \in Directions /\ lock \in Threads \cup {Nobody}
      /\ failed \in BOOLEAN /\ shut \in BOOLEAN /\ timeouts \in 0..MaxTimeouts
  BY <1>1 DEF TypesInv
<1>3. \A t \in Threads : writer[t].pc \in {"idle", "called", "writing"}
  BY <1>1 DEF TypesInv
<1>4. Len(order) <= MaxFrames
  <2>1. PICK n : n = Cardinality({u \in Threads : writer[u].pc = "called"})
    OBVIOUS
  <2>2. n \in Nat
    <3>1. IsFiniteSet({u \in Threads : writer[u].pc = "called"})
      BY FS_Subset, IpcAssumption
    <3> QED
      BY <2>1, <3>1, FS_CardinalityType
  <2>3. Len(order) \in Nat /\ Len(order) + n <= MaxFrames /\ MaxFrames \in Nat
    BY <1>1, <2>1, NextWriteFacts, IpcAssumption DEF WriterInv
  <2> QED
    BY <2>2, <2>3
<1>5. Missing >= 0 /\ reader.phase \in {"header", "payload", "handling", "ended"}
  <2>1. reader.size \in Nat /\ reader.taken \in Nat
        /\ reader.phase \in {"header", "payload", "handling", "ended"}
    BY <1>1, GotType
  <2>2. reader.taken <= reader.size
    BY <1>1 DEF ReaderInv
  <2> QED
    BY <2>1, <2>2 DEF Missing
<1>6. TypeOK
  BY <1>1, <1>2, <1>3, <1>4, <1>5 DEF TypeOK, StreamInv, ReaderInv
<1>7. EndsOnlyForCause
  <2>1. DOMAIN order = 1..Len(order)
    BY <1>1, NextWriteFacts
  <2> QED
    BY <1>1, <2>1 DEF CauseInv, EndsOnlyForCause, TornFrames
<1>8. DescriptorsClosed
  <2>1. Range(<<>>) = {}
    BY DEF Range
  <2>2. (reader.phase = "header" /\ reader.got = <<>>) \/ reader.phase = "ended" => reader.fds = <<>>
    BY <1>1 DEF HeaderInv, ReaderInv
  <2> QED
    BY <1>1, <2>1, <2>2 DEF DescriptorsClosed, ReaderInv
<1> QED
  BY <1>6, <1>7, <1>8 DEF ReaderIsSound

\* Frames arrive intact: whatever way the writers' sends and the reader's receives
\* cut them, what the other process handles is what was sent, in the order of the
\* write lock and with its own descriptors, up to the first frame a failed send
\* tore; by then a channel of requests is marked failed.
THEOREM FramesAlwaysArriveIntact ==
    ASSUME CodecRoundTrips
    PROVE  Spec => []FramesArriveIntact
BY IpcInvAlways, IntactFrames, PTL

\* The reader is sound: it ends for a shutdown or a torn frame only, never takes
\* more descriptors than a frame may carry, and closes those of a frame with it.
THEOREM ReaderAlwaysSound ==
    ASSUME CodecRoundTrips
    PROVE  Spec => []ReaderIsSound
BY IpcInvAlways, SoundReader, PTL

-----------------------------------------------------------------------------
\* Rings of a StartSessions request

\* Rings that map: ring i has descriptor i - 1 and sound slots.
MappableRings ==
    {r \in Seq(Descriptors) :
       \A i \in 1..Len(r) : r[i].fd_index = i - 1 /\ ValidForMapping(r[i]) /\ SlotsSound(r[i])}

\* append_ring: with one more ring they still map.
LEMMA AppendedRings ==
    ASSUME NEW rings \in SUBSET MappableRings, NEW kind \in MediaKinds, NEW capacities \in SUBSET U64,
           NEW count \in U64
    PROVE  AppendRing(rings, kind, capacities, count) \subseteq MappableRings
<1> SUFFICES ASSUME NEW s \in AppendRing(rings, kind, capacities, count) PROVE s \in MappableRings
  OBVIOUS
<1> DEFINE Cfg(r, c) == [ring_id |-> kind + 1, media_kind |-> kind, fd_index |-> Len(r),
                         slot_count |-> SlotCount(count), capacity |-> c]
<1>0. PICK r \in rings, c \in capacities : \E d \in CreateRing(Cfg(r, c)) : s = Append(r, d)
  BY DEF AppendRing
<1>1. PICK d \in CreateRing(Cfg(r, c)) : s = Append(r, d)
  BY <1>0
<1>2. r \in Seq(Descriptors) /\ Len(r) \in Nat
      /\ \A i \in 1..Len(r) : r[i].fd_index = i - 1 /\ ValidForMapping(r[i]) /\ SlotsSound(r[i])
  BY LenProperties DEF MappableRings
<1>3. Cfg(r, c) \in RingConfigs
  <2>1. kind \in Nat /\ kind + 1 \in U64
    BY LayoutAssumption DEF MediaKinds, U64
  <2>2. SlotCount(count) \in U64
    BY LayoutAssumption DEF SlotCount, U64
  <2>3. c \in U64
    OBVIOUS
  <2> QED
    BY <1>2, <2>1, <2>2, <2>3 DEF RingConfigs
<1>4. d \in MakeDescriptor(Cfg(r, c))
  BY <1>1 DEF CreateRing
<1> DEFINE cfg == Cfg(r, c)
<1>5. cfg \in RingConfigs /\ cfg.fd_index = Len(r)
  BY <1>3
<1> HIDE DEF cfg
<1>6. d \in Descriptors /\ SlotsSound(d)
  BY <1>4, <1>5, MadeRingsAreSound DEF cfg
<1>7. ValidForMapping(d) /\ d.fd_index = cfg.fd_index
  <2>1. d \in MakeDescriptor(cfg)
    BY <1>4 DEF cfg
  <2> QED
    BY <1>5, <2>1, CandidateDescriptor
<1>8. /\ s \in Seq(Descriptors) /\ Len(s) = Len(r) + 1 /\ s[Len(r) + 1] = d
      /\ \A i \in 1..Len(r) : s[i] = r[i]
  BY <1>1, <1>2, <1>6, AppendProperties
<1>9. ASSUME NEW i \in 1..Len(s) PROVE s[i].fd_index = i - 1 /\ ValidForMapping(s[i]) /\ SlotsSound(s[i])
  <2>1. CASE i \in 1..Len(r)
    BY <1>2, <1>8, <2>1
  <2>2. CASE i \notin 1..Len(r)
    <3>1. i = Len(r) + 1 /\ i - 1 = Len(r)
      BY <1>2, <1>8, <2>2
    <3> QED
      BY <1>5, <1>6, <1>7, <1>8, <3>1
  <2> QED
    BY <2>1, <2>2
<1> QED
  BY <1>8, <1>9 DEF MappableRings

\* The rings of every message map.
LEMMA PreparedRings ==
    ASSUME RingsArePrepared, NEW m \in Names
    PROVE  RingsIn(Msg[m]) \in MappableRings
<1>1. <<>> \in MappableRings
  <2>1. <<>> \in Seq(Descriptors) /\ Len(<<>>) = 0
    BY EmptySeq
  <2> QED
    BY <2>1 DEF MappableRings
<1>2. CASE Msg[m].tag # "StartSessions"
  BY <1>1, <1>2 DEF RingsIn
<1>3. CASE Msg[m].tag = "StartSessions"
  <2>1. PICK video, audio : /\ \A v \in video : VideoFits(v)
                            /\ \A a \in audio : AudioFits(a)
                            /\ RingsIn(Msg[m]) \in PrepareMediaRings(video, audio)
    BY <1>3 DEF RingsArePrepared
  <2> DEFINE one == IF video = {} THEN {<<>>}
                    ELSE UNION {AppendRing({<<>>}, 0, VideoCapacity(v), v.frame_buffer_count) : v \in video}
  <2>2. one \subseteq MappableRings
    <3>1. \A v \in video : AppendRing({<<>>}, 0, VideoCapacity(v), v.frame_buffer_count) \subseteq MappableRings
      <4> SUFFICES ASSUME NEW v \in video
                   PROVE  AppendRing({<<>>}, 0, VideoCapacity(v), v.frame_buffer_count) \subseteq MappableRings
        OBVIOUS
      <4>1. {<<>>} \in SUBSET MappableRings /\ 0 \in MediaKinds
        BY <1>1 DEF MediaKinds
      <4>2. VideoCapacity(v) \in SUBSET U64 /\ v.frame_buffer_count \in U64
        BY <2>1 DEF VideoFits
      <4> QED
        BY <4>1, <4>2, AppendedRings
    <3> QED
      BY <1>1, <3>1
  <2> HIDE DEF one
  <2>3. \A a \in audio : AppendRing(one, 1, AudioCapacity(a), a.frame_buffer_count) \subseteq MappableRings
    <3> SUFFICES ASSUME NEW a \in audio
                 PROVE  AppendRing(one, 1, AudioCapacity(a), a.frame_buffer_count) \subseteq MappableRings
      OBVIOUS
    <3>1. one \in SUBSET MappableRings /\ 1 \in MediaKinds
      BY <2>2 DEF MediaKinds
    <3>2. AudioCapacity(a) \in SUBSET U64 /\ a.frame_buffer_count \in U64
      BY <2>1 DEF AudioFits
    <3> QED
      BY <3>1, <3>2, AppendedRings
  <2>4. RingsIn(Msg[m]) \in one \/ \E a \in audio :
          RingsIn(Msg[m]) \in AppendRing(one, 1, AudioCapacity(a), a.frame_buffer_count)
    BY <2>1 DEF PrepareMediaRings, one
  <2> QED
    BY <2>2, <2>3, <2>4
<1> QED
  BY <1>2, <1>3

\* Only a payload that was read adds to what was handled.
LEMMA HandledChanges ==
    ASSUME [Next]_vars
    PROVE  handled' = handled \/ PayloadRead
<1>1. ASSUME NEW t \in Threads, Call(t) \/ Lock(t) \/ Send(t) \/ SendFails(t) PROVE handled' = handled
  BY <1>1 DEF Call, Lock, Send, SendFails, readerVars
<1>2. ASSUME Shutdown PROVE handled' = handled
  BY <1>2 DEF Shutdown, readerVars
<1>3. ASSUME Receive PROVE handled' = handled
  BY <1>3 DEF Receive, ReadFails
<1>4. ASSUME ReadEof \/ HeaderRead \/ FrameDone PROVE handled' = handled
  BY <1>4 DEF ReadEof, HeaderRead, FrameDone, ReadFails
<1>5. ASSUME UNCHANGED vars PROVE handled' = handled
  BY <1>5 DEF vars, readerVars
<1> QED
  BY <1>1, <1>2, <1>3, <1>4, <1>5 DEF Next, ReaderStep

\* What is handled is mapped when it is handled.
LEMMA MappedInvNext ==
    ASSUME CodecRoundTrips, RingsArePrepared, IpcInv, MappedInv, [Next]_vars
    PROVE  MappedInv'
<1>1. CASE handled' = handled
  BY <1>1 DEF MappedInv
<1>2. CASE PayloadRead /\ handled' # handled
  <2>1. TypesInv
    BY DEF IpcInv
  <2>2. reader.phase = "payload"
    BY <1>2 DEF PayloadRead
  <2>3. PICK e : /\ handled' = Append(handled, e) /\ (e.msg # Foreign => e.mapped)
                 /\ e \in [msg : Names \cup {Foreign}, fds : Fds, mapped : BOOLEAN]
    <3>1. reader.fds \in Fds
      BY <2>1, GotType
    <3>2. CASE WholePayload
      <4>1. PICK f : f = order[reader.got[1].n].frame
        OBVIOUS
      <4>2. /\ f \in SentFrames /\ f.msg \in Names /\ f.decoded = {[msg |-> f.msg, rings |-> f.rings]}
            /\ reader.fds = FdsOf(reader.got[1].n) /\ reader.got[1].n \in 1..Len(order)
            /\ f.rings = RingsIn(Msg[f.msg])
        BY <2>2, <3>2, <4>1, WholePayloadFacts, SentFrameFacts
      <4>3. Len(reader.fds) = Len(f.rings)
        BY <2>1, <4>1, <4>2, FdsOfFacts
      <4>4. Mapped(f.rings, reader.fds)
        <5>1. f.rings \in MappableRings
          BY <4>2, PreparedRings
        <5>2. f.rings \in Seq(Descriptors)
          BY <5>1 DEF MappableRings
        <5>3. DOMAIN f.rings = 1..Len(f.rings) /\ Len(f.rings) \in Nat
          BY <5>2, LenProperties
        <5>4. ASSUME NEW i \in 1..Len(f.rings)
              PROVE  f.rings[i].fd_index < Len(reader.fds) /\ ValidForMapping(f.rings[i])
          <6>1. f.rings[i].fd_index = i - 1 /\ ValidForMapping(f.rings[i])
            BY <5>1 DEF MappableRings
          <6>2. i - 1 < Len(f.rings)
            BY <5>3
          <6> QED
            BY <4>3, <6>1, <6>2
        <5> QED
          BY <5>3, <5>4 DEF Mapped
      <4>5. handled' = Append(handled, [msg |-> f.msg, fds |-> reader.fds, mapped |-> TRUE])
        <5>1. PICK d \in f.decoded :
                handled' = Append(handled, [msg |-> d.msg, fds |-> reader.fds,
                                            mapped |-> Mapped(d.rings, reader.fds)])
          BY <1>2, <3>2, <4>1 DEF PayloadRead, ReadFails
        <5>2. d.msg = f.msg /\ d.rings = f.rings
          BY <4>2, <5>1
        <5>3. Mapped(d.rings, reader.fds) = TRUE
          BY <4>4, <5>2 DEF Mapped
        <5> QED
          BY <5>1, <5>2, <5>3
      <4>6. PICK e : e = [msg |-> f.msg, fds |-> reader.fds, mapped |-> TRUE]
        OBVIOUS
      <4>7. e \in [msg : Names \cup {Foreign}, fds : Fds, mapped : BOOLEAN] /\ e.mapped
        BY <3>1, <4>2, <4>6
      <4> QED
        BY <4>5, <4>6, <4>7
    <3>3. CASE ~WholePayload
      <4>1. handled' = Append(handled, [msg |-> Foreign, fds |-> reader.fds, mapped |-> FALSE])
        BY <1>2, <3>3 DEF PayloadRead, ReadFails
      <4>2. PICK e : e = [msg |-> Foreign, fds |-> reader.fds, mapped |-> FALSE]
        OBVIOUS
      <4>3. e \in [msg : Names \cup {Foreign}, fds : Fds, mapped : BOOLEAN] /\ e.msg = Foreign
        BY <3>1, <4>2
      <4> QED
        BY <4>1, <4>2, <4>3
    <3> QED
      BY <3>2, <3>3
  <2> DEFINE Entries == [msg : Names \cup {Foreign}, fds : Fds, mapped : BOOLEAN]
  <2>4. handled \in Seq(Entries) /\ e \in Entries /\ Len(handled) \in Nat
    BY <2>1, <2>3, GotType DEF TypesInv
  <2> HIDE DEF Entries
  <2>5. /\ Len(handled') = Len(handled) + 1 /\ handled'[Len(handled) + 1] = e
        /\ \A i \in 1..Len(handled) : handled'[i] = handled[i]
    BY <2>3, <2>4, AppendProperties
  <2>6. ASSUME NEW k \in 1..Len(handled'), handled'[k].msg # Foreign PROVE handled'[k].mapped
    <3>1. k \in 1..Len(handled) \/ k = Len(handled) + 1
      BY <2>4, <2>5
    <3> QED
      BY <2>3, <2>5, <2>6, <3>1 DEF MappedInv
  <2> QED
    BY <2>6 DEF MappedInv
<1> QED
  BY <1>1, <1>2, HandledChanges

\* Mapped rings have sound slots.
LEMMA MappedRings == ASSUME RingsArePrepared PROVE IpcInv /\ MappedInv => PreparedRingsAreMapped
<1> SUFFICES ASSUME IpcInv, MappedInv PROVE PreparedRingsAreMapped
  OBVIOUS
<1>1. handled \in Seq([msg : Names \cup {Foreign}, fds : Fds, mapped : BOOLEAN])
  BY DEF IpcInv, TypesInv
<1>2. DOMAIN handled = 1..Len(handled)
  BY <1>1, LenProperties
<1>3. \A m \in Names : m \in SoundRings
  <2> SUFFICES ASSUME NEW m \in Names, NEW d \in Range(RingsIn(Msg[m])) PROVE SlotsSound(d)
    BY DEF SoundRings
  <2> DEFINE r == RingsIn(Msg[m])
  <2>1. r \in MappableRings
    BY PreparedRings
  <2>2. r \in Seq(Descriptors)
    BY <2>1 DEF MappableRings
  <2>3. DOMAIN r = 1..Len(r)
    BY <2>2, LenProperties
  <2>4. PICK i \in 1..Len(r) : d = r[i]
    BY <2>3 DEF Range
  <2> QED
    BY <2>1, <2>4 DEF MappableRings
<1>4. ASSUME NEW k \in 1..Len(handled), handled[k].msg # Foreign
      PROVE  handled[k].mapped /\ handled[k].msg \in SoundRings
  <2>1. handled[k] \in [msg : Names \cup {Foreign}, fds : Fds, mapped : BOOLEAN]
    BY <1>1, ElementOfSeq
  <2>2. handled[k].msg \in Names
    BY <1>4, <2>1
  <2> QED
    BY <1>3, <1>4, <2>2 DEF MappedInv
<1> QED
  BY <1>2, <1>4 DEF PreparedRingsAreMapped

\* The worker maps every StartSessions request that arrives: each ring the client
\* prepared has its descriptor in the frame, passes the validation before mapping
\* and lays out its slots soundly.
THEOREM PreparedRingsAlwaysMapped ==
    ASSUME CodecRoundTrips, RingsArePrepared
    PROVE  Spec => []PreparedRingsAreMapped
<1>1. Init => MappedInv
  <2>1. Len(<<>>) = 0
    BY EmptySeq
  <2> QED
    BY <2>1 DEF Init, MappedInv
<1>2. IpcInv /\ MappedInv /\ [Next]_vars => MappedInv'
  BY MappedInvNext
<1>3. Spec => []IpcInv
  BY IpcInvAlways
<1>4. IpcInv /\ MappedInv => PreparedRingsAreMapped
  BY MappedRings
<1> QED
  BY <1>1, <1>2, <1>3, <1>4, PTL DEF Spec
=============================================================================
