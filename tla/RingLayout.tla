----------------------------- MODULE RingLayout -----------------------------
(***************************************************************************)
(* Where the slots of a shared-memory ring lie: the descriptor the client  *)
(* computes for a ring, the two validations it passes (the codec's and the *)
(* one before the memory is mapped) and the addresses computed from it.    *)
(* All numbers are uint64_t and wrap at MaxU64 + 1; a function that may    *)
(* fail returns the set of its results, empty on failure.                  *)
(***************************************************************************)
EXTENDS Integers

CONSTANTS
    MaxU64,      \* numeric_limits<uint64_t>::max()
    Alignment,   \* alignof(MtlWorkerSharedMemorySlotHeader)
    HeaderSize   \* sizeof(MtlWorkerSharedMemorySlotHeader)

ASSUME LayoutAssumption ==
    /\ MaxU64 \in Nat \ {0, 1} /\ Alignment \in Nat \ {0} /\ HeaderSize \in Nat \ {0}
    /\ HeaderSize % Alignment = 0 /\ HeaderSize <= MaxU64

U64 == 0..MaxU64

MediaKinds == {0, 1}   \* Video, Audio
LayoutVersion == 3     \* mtlWorkerSharedMemoryRingLayoutVersion

Descriptors ==
    [ring_id : U64, media_kind : Nat, fd_index : Nat, layout_version : Nat, mapped_size : U64,
     slot_region_offset : U64, slot_count : U64, slot_stride : U64, slot_payload_offset : U64,
     slot_payload_capacity : U64]

\* Unsigned arithmetic, and the tests made before it.
Plus(a, b)  == IF a + b <= MaxU64 THEN a + b ELSE a + b - (MaxU64 + 1)
Times(a, b) == (a * b) % (MaxU64 + 1)
AddOverflows(a, b) == MaxU64 - a < b
\* Mutant: the product is never too large.
MulOverflows_Never(a, b) == FALSE
MulOverflows(a, b) == a # 0 /\ b > MaxU64 \div a

-----------------------------------------------------------------------------
\* Validation

PayloadEnd(d) == Plus(d.slot_payload_offset, d.slot_payload_capacity)
LastSlot(d)   == Times(d.slot_count - 1, d.slot_stride)

\* Every slot's payload ends within its slot, and the last one within the mapping.
FitsMapping(d) ==
    /\ ~AddOverflows(d.slot_payload_offset, d.slot_payload_capacity)
    /\ PayloadEnd(d) <= d.slot_stride
    /\ ~MulOverflows(d.slot_count - 1, d.slot_stride)
    /\ ~AddOverflows(LastSlot(d), PayloadEnd(d))
    /\ ~AddOverflows(d.slot_region_offset, Plus(LastSlot(d), PayloadEnd(d)))
    /\ Plus(d.slot_region_offset, Plus(LastSlot(d), PayloadEnd(d))) <= d.mapped_size

\* validate_shared_memory_ring_descriptor, in the codec
DescriptorValid(d) ==
    /\ d.ring_id # 0 /\ d.layout_version = LayoutVersion
    /\ d.mapped_size # 0 /\ d.slot_count # 0 /\ d.slot_stride # 0 /\ d.slot_payload_capacity # 0
    /\ d.media_kind \in MediaKinds
    /\ FitsMapping(d)

\* validate_mtl_worker_shared_memory_ring_descriptor_for_mapping: the codec's
\* tests again, the alignment and room for the slot's header.
ValidForMapping(d) ==
    /\ DescriptorValid(d)
    /\ d.slot_region_offset % Alignment = 0 /\ d.slot_stride % Alignment = 0
    /\ d.slot_payload_offset >= HeaderSize

-----------------------------------------------------------------------------
\* make_mtl_worker_shared_memory_ring_descriptor

\* align_up_u64
Increment(value) == IF value % Alignment = 0 THEN 0 ELSE Alignment - (value % Alignment)
AlignUp(value) == {Plus(value, i) : i \in {j \in {Increment(value)} : ~AddOverflows(value, j)}}

MakeDescriptor(cfg) ==
    IF cfg.ring_id = 0 \/ cfg.slot_count = 0 \/ cfg.capacity = 0 \/ cfg.media_kind \notin MediaKinds
    THEN {}
    ELSE {d \in
          UNION {{[ring_id |-> cfg.ring_id, media_kind |-> cfg.media_kind, fd_index |-> cfg.fd_index,
                   layout_version |-> LayoutVersion,
                   mapped_size |-> Times(cfg.slot_count, stride), slot_region_offset |-> 0,
                   slot_count |-> cfg.slot_count, slot_stride |-> stride,
                   slot_payload_offset |-> offset, slot_payload_capacity |-> cfg.capacity]
                  : stride \in {s \in AlignUp(Plus(offset, cfg.capacity)) :
                                /\ ~AddOverflows(offset, cfg.capacity)
                                /\ ~MulOverflows(cfg.slot_count, s)}}
                 : offset \in AlignUp(HeaderSize)}
          : ValidForMapping(d)}

-----------------------------------------------------------------------------
\* slot_header and slot_payload: the bytes [from, to) of slot i.

SlotOffset(d, i) == Plus(d.slot_region_offset, Times(i, d.slot_stride))

SlotHeader(d, i) ==
    IF i >= d.slot_count \/ MulOverflows(i, d.slot_stride)
       \/ AddOverflows(d.slot_region_offset, Times(i, d.slot_stride))
       \/ Plus(SlotOffset(d, i), HeaderSize) > d.mapped_size
    THEN {}
    ELSE {[from |-> SlotOffset(d, i), to |-> Plus(SlotOffset(d, i), HeaderSize)]}

SlotPayload(d, i) ==
    LET from == Plus(SlotOffset(d, i), d.slot_payload_offset) IN
    IF i >= d.slot_count \/ MulOverflows(i, d.slot_stride)
       \/ AddOverflows(d.slot_region_offset, Times(i, d.slot_stride))
       \/ AddOverflows(SlotOffset(d, i), d.slot_payload_offset)
       \/ Plus(from, d.slot_payload_capacity) > d.mapped_size
    THEN {}
    ELSE {[from |-> from, to |-> Plus(from, d.slot_payload_capacity)]}

-----------------------------------------------------------------------------
\* What a mapped ring needs: every slot has a header and behind it a payload,
\* all of them inside of the mapping and none overlapping the next slot.
SlotsSound(d) ==
    \A i \in 0..(d.slot_count - 1) :
      /\ SlotHeader(d, i) # {} /\ SlotPayload(d, i) # {}
      /\ \A h \in SlotHeader(d, i), p \in SlotPayload(d, i) :
           /\ h.from < h.to /\ h.to <= p.from /\ p.from < p.to /\ p.to <= d.mapped_size
           /\ \A j \in (i + 1)..(d.slot_count - 1) : \A next \in SlotHeader(d, j) : p.to <= next.from
=============================================================================
