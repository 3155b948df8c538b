-------------------------- MODULE SharedRingProofs --------------------------
(***************************************************************************)
(* Proofs about the shared-memory ring, for every number of slots and of   *)
(* frames and with every failure: one lemma per step of either process.    *)
(***************************************************************************)
EXTENDS SharedRing, SequenceTheorems, FiniteSetTheorems, TLAPS

USE DEF memVars, writerVars, readerVars, clientVars, writerFrame, readerFrame

Events == [slot : Slots, sequence : Nat, frame : Nat]

\* Every event on the socket names a slot of the ring.
LEMMA PipeEvents ==
    ASSUME TypeOK
    PROVE  /\ pipe \in Seq(Events) /\ Len(pipe) \in Nat
           /\ \A i \in 1 .. Len(pipe) : pipe[i] \in Events /\ pipe[i].slot \in Slots
           /\ event \in Events /\ event.slot \in Slots
<1>1. pipe \in Seq(Events) /\ event \in Events
  BY DEF TypeOK, Events
<1>2. \A i \in 1 .. Len(pipe) : pipe[i] \in Events
  BY <1>1, ElementOfSeq
<1>3. \A e \in Events : e.slot \in Slots
  BY DEF Events
<1> QED
  BY <1>1, <1>2, <1>3, LenProperties

\* initialize_slot_headers establishes the invariant.
LEMMA InitInv == Init => RingInv
<1> SUFFICES ASSUME Init PROVE RingInv
  OBVIOUS
<1>1. 0 \in Slots
  BY RingAssumption DEF Slots
<1>2. TypeOK
  BY <1>1, RingAssumption DEF Init, TypeOK, NoEvent
<1>3. SlotOwnership /\ EventsFresh /\ EventsMatchSlots /\ NoSlotLeak /\ SinkPinned /\ SearchBounded
  BY <1>1 DEF Init, SearchBounded, SlotOwnership, EventsFresh, EventsMatchSlots, NoSlotLeak, SinkPinned,
     Writing, Reading, InHand, Claiming
<1> QED
  BY <1>2, <1>3 DEF RingInv

-----------------------------------------------------------------------------
\* The steps of the receive loop that touch no shared memory.
LEMMA LocalWriterInv ==
    ASSUME RingInv, GetFrame \/ LoopEnds \/ FrameRefused \/ (\E ok \in BOOLEAN : PutFrame(ok))
                      \/ AnnounceFails \/ WorkerCrash
    PROVE  RingInv'
<1>1. TypeOK'
  <2>1. UNCHANGED <<memVars, pipe, slot, next_slot, next_sequence, stop_requested, readerVars,
                    clientVars, sent, last>>
    BY DEF GetFrame, LoopEnds, FrameRefused, PutFrame, AnnounceFails, WorkerCrash, ExportFails
  <2>2. /\ writer' \in {"get", "acquire", "put", "exited"}
        /\ healthy' \in BOOLEAN
    BY Zenon DEF RingInv, TypeOK, GetFrame, LoopEnds, FrameRefused, PutFrame,
       AnnounceFails, WorkerCrash, ExportFails
  <2>3. /\ attempt' = 0 \/ attempt' = attempt
        /\ frame' = frame + 1 \/ frame' = frame
        /\ dropped' = dropped + 1 \/ dropped' = dropped
    BY Zenon DEF GetFrame, LoopEnds, FrameRefused, PutFrame, AnnounceFails, WorkerCrash
  <2>4. attempt' \in 0 .. SlotCount /\ frame' \in Nat /\ dropped' \in Nat
    BY <2>3, RingAssumption DEF RingInv, TypeOK
  <2> QED
    BY <2>1, <2>2, <2>4 DEF RingInv, TypeOK
<1>2. SlotOwnership'
  BY DEF RingInv, SlotOwnership, Writing, Reading, GetFrame, LoopEnds, FrameRefused, PutFrame, AnnounceFails, WorkerCrash, ExportFails
<1>3. EventsFresh'
  BY DEF RingInv, EventsFresh, Claiming, Fits, GetFrame, LoopEnds, FrameRefused, PutFrame, AnnounceFails, WorkerCrash, ExportFails
<1>4. NoSlotLeak'
  BY DEF RingInv, NoSlotLeak, Writing, Reading, InHand, GetFrame, LoopEnds, FrameRefused, PutFrame, AnnounceFails, WorkerCrash, ExportFails
<1>5. EventsMatchSlots' /\ SinkPinned' /\ SearchBounded'
  BY RingAssumption DEF RingInv, EventsMatchSlots, SinkPinned, SearchBounded, GetFrame, LoopEnds, FrameRefused, PutFrame, AnnounceFails, WorkerCrash, ExportFails
<1> QED
  BY <1>1, <1>2, <1>3, <1>4, <1>5 DEF RingInv

\* begin_write_slot takes a slot only if nobody has it.
LEMMA AcquireInv ==
    ASSUME RingInv, AcquireSlot
    PROVE  RingInv'
<1>0. Candidate \in Slots /\ NextSlot(Candidate) \in Slots
  <2>1. next_slot \in Nat /\ attempt \in Nat /\ SlotCount \in Nat \ {0}
    BY RingAssumption DEF RingInv, TypeOK, Slots
  <2>2. \A n \in Nat : n % SlotCount \in 0 .. SlotCount - 1
    BY <2>1
  <2>3. next_slot + attempt \in Nat
    BY <2>1
  <2>4. Candidate \in Slots
    BY <2>2, <2>3 DEF Candidate, Slots
  <2>5. Candidate + 1 \in Nat
    BY <2>4 DEF Slots
  <2> QED
    BY <2>2, <2>4, <2>5 DEF NextSlot, Slots
<1>1. TypeOK'
  <2>1. attempt < SlotCount /\ attempt \in Nat /\ SlotCount \in Nat
    BY RingAssumption DEF RingInv, TypeOK, SearchBounded, AcquireSlot
  <2>2. /\ UNCHANGED <<sequence, filled, payload, pipe, frame, next_sequence, healthy,
                       stop_requested, readerVars, clientVars, sent, last>>
        /\ state' \in [Slots -> {"Empty", "Writing", "Ready", "Reading"}]
        /\ slot' \in Slots /\ next_slot' \in Slots
    BY <1>0 DEF RingInv, TypeOK, AcquireSlot
  <2>3. /\ attempt' \in 0 .. SlotCount /\ dropped' \in Nat
        /\ writer' \in {"acquire", "copy", "put"}
    BY <2>1 DEF RingInv, TypeOK, AcquireSlot
  <2> QED
    BY <2>2, <2>3 DEF RingInv, TypeOK
<1>2. SlotOwnership'
  BY <1>0 DEF RingInv, TypeOK, SlotOwnership, Writing, Reading, AcquireSlot, MayWrite
<1>3. EventsFresh'
  <2>1. CASE MayWrite(Candidate)
    <3>1. \A s \in Slots : state[s] = "Ready" => state'[s] = "Ready"
      BY <1>0, <2>1 DEF RingInv, TypeOK, AcquireSlot, MayWrite
    <3>2. UNCHANGED <<sequence, filled, pipe, reader, event>> /\ writer' = "copy"
      BY <2>1 DEF AcquireSlot
    <3>3. event.slot \in Slots /\ \A i \in 1 .. Len(pipe) : pipe[i].slot \in Slots
      BY PipeEvents DEF RingInv
    <3> QED
      BY <3>1, <3>2, <3>3 DEF RingInv, EventsFresh, Claiming, Fits
  <2>2. CASE ~MayWrite(Candidate)
    BY <2>2 DEF RingInv, EventsFresh, Claiming, Fits, AcquireSlot
  <2> QED
    BY <2>1, <2>2
<1>4. NoSlotLeak'
  BY <1>0 DEF RingInv, TypeOK, NoSlotLeak, Writing, Reading, InHand, AcquireSlot, MayWrite
<1>5. EventsMatchSlots' /\ SinkPinned'
  BY DEF RingInv, EventsMatchSlots, SinkPinned, AcquireSlot
<1>6. SearchBounded'
  BY RingAssumption DEF RingInv, TypeOK, SearchBounded, AcquireSlot
<1> QED
  BY <1>1, <1>2, <1>3, <1>4, <1>5, <1>6 DEF RingInv

\* memcpy touches only the payload of the slot the writer holds.
LEMMA CopyInv ==
    ASSUME RingInv, CopyBegin \/ CopyEnd
    PROVE  RingInv'
<1>1. TypeOK'
  <2>1. UNCHANGED <<state, sequence, filled, pipe, frame, attempt, slot, next_slot, next_sequence,
                    healthy, dropped, stop_requested, readerVars, clientVars, sent, last>>
    BY DEF CopyBegin, CopyEnd
  <2>2. payload' = [payload EXCEPT ![slot] = 0] \/ payload' = [payload EXCEPT ![slot] = frame]
    BY DEF CopyBegin, CopyEnd
  <2>3. payload \in [Slots -> Nat] /\ slot \in Slots /\ frame \in Nat
    BY DEF RingInv, TypeOK
  <2>4. payload' \in [Slots -> Nat]
    BY <2>2, <2>3
  <2>5. writer' \in {"copying", "publish"}
    BY DEF CopyBegin, CopyEnd
  <2> QED
    BY <2>1, <2>4, <2>5 DEF RingInv, TypeOK
<1>2. SlotOwnership'
  BY DEF RingInv, SlotOwnership, Writing, Reading, CopyBegin, CopyEnd
<1>3. EventsFresh'
  BY DEF RingInv, EventsFresh, Claiming, Fits, CopyBegin, CopyEnd
<1>4. NoSlotLeak'
  <2>1. /\ UNCHANGED <<state, slot, pipe, healthy, readerVars, clientVars>>
        /\ Writing /\ Writing' /\ writer # "announce"
    BY DEF CopyBegin, CopyEnd, Writing
  <2> QED
    BY <2>1 DEF RingInv, NoSlotLeak, Reading, InHand
<1>5. EventsMatchSlots' /\ SinkPinned' /\ SearchBounded'
  BY DEF RingInv, EventsMatchSlots, SinkPinned, SearchBounded, CopyBegin, CopyEnd
<1> QED
  BY <1>1, <1>2, <1>3, <1>4, <1>5 DEF RingInv

\* abort_write_slot gives back a slot no event and no reader refers to.
LEMMA AbortInv ==
    ASSUME RingInv, (\E fatal \in BOOLEAN : CopyRejected(fatal)) \/ PublishRejected
    PROVE  RingInv'
<1>0. /\ slot \in Slots /\ state[slot] = "Writing"
      /\ state' = [state EXCEPT ![slot] = "Empty"]
      /\ filled' = [filled EXCEPT ![slot] = FALSE]
      /\ UNCHANGED <<sequence, payload, pipe, sent, frame, attempt, slot, next_slot,
                     stop_requested, readerVars, clientVars, last>>
  BY DEF RingInv, TypeOK, SlotOwnership, Writing, CopyRejected, PublishRejected, AbortWrite
<1>1. TypeOK'
  <2>1. writer' \in {"put", "exited"} /\ healthy' \in BOOLEAN
    BY Zenon DEF RingInv, TypeOK, CopyRejected, PublishRejected, ExportFails
  <2>2. /\ dropped' = dropped + 1
        /\ next_sequence' = next_sequence \/ next_sequence' = next_sequence + 1
    BY Zenon DEF CopyRejected, PublishRejected
  <2>3. dropped' \in Nat /\ next_sequence' \in Nat
    BY <2>2 DEF RingInv, TypeOK
  <2>4. state' \in [Slots -> {"Empty", "Writing", "Ready", "Reading"}] /\ filled' \in [Slots -> BOOLEAN]
    BY <1>0 DEF RingInv, TypeOK
  <2> QED
    BY <1>0, <2>1, <2>3, <2>4 DEF RingInv, TypeOK
<1>a. \/ writer' = "put" /\ healthy' = healthy
      \/ writer' = "exited" /\ healthy' = FALSE
  <2>1. CASE PublishRejected
    BY <2>1 DEF PublishRejected, ExportFails
  <2>2. ASSUME NEW fatal \in BOOLEAN, CopyRejected(fatal)
        PROVE  \/ writer' = "put" /\ healthy' = healthy
               \/ writer' = "exited" /\ healthy' = FALSE
    BY <2>2 DEF CopyRejected, ExportFails
  <2> QED
    BY <2>1, <2>2
<1>b. /\ \A s \in Slots : state'[s] = IF s = slot THEN "Empty" ELSE state[s]
      /\ \A s \in Slots \ {slot} : filled'[s] = filled[s]
  BY <1>0 DEF RingInv, TypeOK
<1>c. event.slot \in Slots /\ \A i \in 1 .. Len(pipe) : pipe[i].slot \in Slots
  BY PipeEvents DEF RingInv
<1>2. SlotOwnership'
  BY <1>0, <1>a, <1>b, <1>c DEF RingInv, SlotOwnership, Writing, Reading
<1>3. EventsFresh'
  <2>1. reader = "recheck" => event.slot # slot
    BY <1>0 DEF RingInv, SlotOwnership, Reading
  <2> QED
    BY <1>0, <1>a, <1>b, <1>c, <2>1 DEF RingInv, EventsFresh, Claiming, Fits
<1>4. NoSlotLeak'
  <2>1. CASE healthy'
    <3>1. writer' = "put" /\ healthy /\ writer \in {"copying", "publish"}
      BY <1>a, <2>1 DEF RingInv, TypeOK, CopyRejected, PublishRejected
    <3> QED
      BY <1>0, <3>1, <1>b DEF RingInv, NoSlotLeak, Writing, Reading, InHand
  <2>2. CASE ~healthy'
    BY <2>2 DEF NoSlotLeak
  <2> QED
    BY <2>1, <2>2
<1>5. EventsMatchSlots' /\ SinkPinned' /\ SearchBounded'
  BY <1>0, <1>a DEF RingInv, EventsMatchSlots, SinkPinned, SearchBounded
<1> QED
  BY <1>1, <1>2, <1>3, <1>4, <1>5 DEF RingInv

\* The header is written while the slot is still Writing.
LEMMA PublishHeaderInv ==
    ASSUME RingInv, PublishHeader
    PROVE  RingInv'
<1>0. /\ slot \in Slots /\ state[slot] = "Writing"
      /\ UNCHANGED <<state, payload, pipe, sent, frame, attempt, slot, next_slot, healthy, dropped,
                     stop_requested, readerVars, clientVars, last>>
      /\ writer = "publish" /\ writer' = "store"
  BY DEF RingInv, TypeOK, SlotOwnership, Writing, PublishHeader
<1>b. /\ \A s \in Slots \ {slot} : sequence'[s] = sequence[s] /\ filled'[s] = filled[s]
      /\ filled'[slot]
  BY <1>0 DEF RingInv, TypeOK, PublishHeader
<1>c. event.slot \in Slots /\ \A i \in 1 .. Len(pipe) : pipe[i].slot \in Slots
  BY PipeEvents DEF RingInv
<1>1. TypeOK'
  <2>1. sequence' \in [Slots -> Nat] /\ filled' \in [Slots -> BOOLEAN] /\ next_sequence' \in Nat
    BY <1>0 DEF RingInv, TypeOK, PublishHeader
  <2> QED
    BY <1>0, <2>1 DEF RingInv, TypeOK
<1>2. SlotOwnership'
  BY <1>0 DEF RingInv, SlotOwnership, Writing, Reading
<1>3. EventsFresh'
  <2>1. reader = "recheck" => event.slot # slot
    BY <1>0 DEF RingInv, SlotOwnership, Reading
  <2> QED
    BY <1>0, <1>b, <1>c, <2>1 DEF RingInv, EventsFresh, Claiming, Fits
<1>4. NoSlotLeak'
  BY <1>0 DEF RingInv, NoSlotLeak, Writing, Reading, InHand
<1>5. EventsMatchSlots' /\ SinkPinned' /\ SearchBounded'
  BY <1>0 DEF RingInv, EventsMatchSlots, SinkPinned, SearchBounded
<1> QED
  BY <1>1, <1>2, <1>3, <1>4, <1>5 DEF RingInv

\* The release store makes the slot Ready; no event names it yet.
LEMMA PublishStateInv ==
    ASSUME RingInv, PublishState
    PROVE  RingInv'
<1>0. /\ slot \in Slots /\ state[slot] = "Writing" /\ filled[slot]
      /\ UNCHANGED <<sequence, filled, payload, pipe, sent, frame, attempt, slot, next_slot,
                     next_sequence, healthy, dropped, stop_requested, readerVars, clientVars, last>>
      /\ writer = "store" /\ writer' = "announce"
  BY DEF RingInv, TypeOK, SlotOwnership, EventsFresh, Writing, PublishState
<1>b. \A s \in Slots : state'[s] = IF s = slot THEN "Ready" ELSE state[s]
  BY <1>0 DEF RingInv, TypeOK, PublishState
<1>c. event.slot \in Slots /\ \A i \in 1 .. Len(pipe) : pipe[i].slot \in Slots
  BY PipeEvents DEF RingInv
<1>1. TypeOK'
  <2>1. state' \in [Slots -> {"Empty", "Writing", "Ready", "Reading"}]
    BY <1>0 DEF RingInv, TypeOK, PublishState
  <2> QED
    BY <1>0, <2>1 DEF RingInv, TypeOK
<1>2. SlotOwnership'
  BY <1>0, <1>b, <1>c DEF RingInv, SlotOwnership, Writing, Reading
<1>3. EventsFresh'
  <2>1. /\ Claiming => event.slot # slot
        /\ \A i \in 1 .. Len(pipe) : pipe[i].slot # slot
    BY <1>0 DEF RingInv, EventsFresh, Fits
  <2> QED
    BY <1>0, <1>b, <1>c, <2>1 DEF RingInv, EventsFresh, Claiming, Fits
<1>4. NoSlotLeak'
  BY <1>0, <1>b DEF RingInv, NoSlotLeak, Writing, Reading, InHand
<1>5. EventsMatchSlots' /\ SinkPinned' /\ SearchBounded'
  BY <1>0 DEF RingInv, EventsMatchSlots, SinkPinned, SearchBounded
<1> QED
  BY <1>1, <1>2, <1>3, <1>4, <1>5 DEF RingInv

\* write_event announces the slot with the sequence of its header.
LEMMA AnnounceInv ==
    ASSUME RingInv, Announce
    PROVE  RingInv'
<1> DEFINE e == [slot |-> slot, sequence |-> sequence[slot], frame |-> frame]
<1>0. /\ UNCHANGED <<memVars, frame, attempt, slot, next_slot, next_sequence, healthy, dropped,
                     stop_requested, readerVars, clientVars, last>>
      /\ writer = "announce" /\ writer' = "put" /\ sent' = frame /\ pipe' = Append(pipe, e)
  BY DEF Announce
<1>a. e \in Events /\ slot \in Slots
  BY DEF RingInv, TypeOK, Events
<1>b. pipe \in Seq(Events) /\ Len(pipe) \in Nat
  BY PipeEvents DEF RingInv
<1>c. /\ pipe' \in Seq(Events)
      /\ Len(pipe') = Len(pipe) + 1
      /\ \A i \in 1 .. Len(pipe) : pipe'[i] = pipe[i]
      /\ pipe'[Len(pipe) + 1] = e
  BY <1>0, <1>a, <1>b, AppendProperties
<1>d. e.slot = slot /\ e.sequence = sequence[slot]
  OBVIOUS
<1> HIDE DEF e
<1>e. \A i \in 1 .. Len(pipe') :
        \/ i \in 1 .. Len(pipe) /\ pipe'[i] = pipe[i]
        \/ i = Len(pipe) + 1 /\ pipe'[i] = e
  BY <1>b, <1>c
<1>1. TypeOK'
  BY <1>0, <1>c DEF RingInv, TypeOK, Events
<1>2. SlotOwnership'
  BY <1>0 DEF RingInv, SlotOwnership, Writing, Reading
<1>3. EventsFresh'
  <2>1. Fits(e)
    BY <1>0, <1>d DEF RingInv, EventsFresh, Fits
  <2>3. \A i \in 1 .. Len(pipe) : Fits(pipe[i]) /\ pipe[i].slot # e.slot
    BY <1>0, <1>d DEF RingInv, EventsFresh
  <2>4. \A i \in 1 .. Len(pipe') : Fits(pipe'[i])
    BY <1>e, <2>1, <2>3
  <2>5. \A i, j \in 1 .. Len(pipe') : pipe'[i].slot = pipe'[j].slot => i = j
    BY <1>e, <2>3 DEF RingInv, EventsFresh
  <2>6. Claiming => \A i \in 1 .. Len(pipe') : pipe'[i].slot # event.slot
    BY <1>0, <1>d, <1>e DEF RingInv, EventsFresh
  <2> QED
    BY <1>0, <2>4, <2>5, <2>6 DEF RingInv, EventsFresh, Claiming, Fits
<1>4. NoSlotLeak'
  <2> SUFFICES ASSUME active /\ healthy, NEW s \in Slots
               PROVE  /\ state[s] = "Writing" => Writing' /\ slot = s
                      /\ state[s] = "Reading" => Reading /\ event.slot = s
                      /\ state[s] = "Ready" /\ control = "open" =>
                            \/ InHand /\ event.slot = s
                            \/ \E i \in 1 .. Len(pipe') : pipe'[i].slot = s
    BY <1>0 DEF NoSlotLeak, Reading, InHand
  <2>1. state[s] = "Writing" => Writing' /\ slot = s
    BY <1>0 DEF RingInv, NoSlotLeak, Writing
  <2>2. state[s] = "Reading" => Reading /\ event.slot = s
    BY DEF RingInv, NoSlotLeak
  <2>3. ASSUME state[s] = "Ready", control = "open"
        PROVE  \/ InHand /\ event.slot = s
               \/ \E i \in 1 .. Len(pipe') : pipe'[i].slot = s
    <3>1. CASE slot = s
      <4>1. Len(pipe) + 1 \in 1 .. Len(pipe')
        BY <1>b, <1>c
      <4> QED
        BY <4>1, <3>1, <1>c, <1>d
    <3>2. CASE \E i \in 1 .. Len(pipe) : pipe[i].slot = s
      <4>1. PICK i \in 1 .. Len(pipe) : pipe[i].slot = s
        BY <3>2
      <4>2. i \in 1 .. Len(pipe') /\ pipe'[i].slot = s
        BY <4>1, <1>b, <1>c
      <4> QED
        BY <4>2
    <3> QED
      BY <2>3, <3>1, <3>2 DEF RingInv, NoSlotLeak
  <2> QED
    BY <2>1, <2>2, <2>3
<1>5. EventsMatchSlots' /\ SinkPinned' /\ SearchBounded'
  BY <1>0 DEF RingInv, EventsMatchSlots, SinkPinned, SearchBounded
<1> QED
  BY <1>1, <1>2, <1>3, <1>4, <1>5 DEF RingInv

-----------------------------------------------------------------------------
\* The reader thread takes the oldest event, whose slot is in no other event,
\* or drops it because the channel has failed.
LEMMA TakeEventInv ==
    ASSUME RingInv, TakeEvent
    PROVE  RingInv'
<1>0. /\ UNCHANGED <<memVars, writerVars, stop_requested, clientVars, sent, unread, last>>
      /\ reader = "idle" /\ pipe # <<>> /\ pipe' = Tail(pipe)
      /\ \/ control = "open" /\ reader' = "entering" /\ event' = Head(pipe)
         \/ control # "open" /\ reader' = "idle" /\ event' = event
  BY DEF TakeEvent
<1>a. /\ pipe \in Seq(Events) /\ event \in Events
      /\ \A i \in 1 .. Len(pipe) : pipe[i] \in Events /\ pipe[i].slot \in Slots
  BY PipeEvents DEF RingInv
<1>b. /\ Len(pipe) \in Nat \ {0} /\ Len(pipe') = Len(pipe) - 1 /\ pipe' \in Seq(Events)
      /\ \A i \in 1 .. Len(pipe') : pipe'[i] = pipe[i + 1]
      /\ Head(pipe) = pipe[1] /\ Head(pipe) \in Events
  <2>1. Len(pipe) \in Nat /\ Len(pipe) # 0
    BY <1>0, <1>a, LenProperties, EmptySeq
  <2>2. /\ Tail(pipe) \in Seq(Events) /\ Len(Tail(pipe)) = Len(pipe) - 1
        /\ \A i \in 1 .. Len(Tail(pipe)) : Tail(pipe)[i] = pipe[i + 1]
        /\ Head(pipe) \in Events
    BY <1>0, <1>a, HeadTailProperties
  <2>3. Head(pipe) = pipe[1]
    OBVIOUS
  <2> QED
    BY <1>0, <2>1, <2>2, <2>3
<1>1. TypeOK'
  <2>1. reader' \in {"idle", "entering"} /\ event' \in Events
    BY <1>0, <1>a, <1>b
  <2> QED
    BY <1>0, <1>b, <2>1 DEF RingInv, TypeOK, Events
<1>2. SlotOwnership'
  BY <1>0 DEF RingInv, SlotOwnership, Writing, Reading
<1>3. EventsFresh'
  <2>1. \A i \in 1 .. Len(pipe') : i + 1 \in 1 .. Len(pipe) /\ i + 1 # 1
    BY <1>b
  <2>2. 1 \in 1 .. Len(pipe)
    BY <1>b
  <2>3. \A i \in 1 .. Len(pipe') : Fits(pipe'[i])
    BY <1>b, <2>1 DEF RingInv, EventsFresh
  <2>4. \A i, j \in 1 .. Len(pipe') : pipe'[i].slot = pipe'[j].slot => i = j
    <3>1. SUFFICES ASSUME NEW i \in 1 .. Len(pipe'), NEW j \in 1 .. Len(pipe'),
                          pipe'[i].slot = pipe'[j].slot
                   PROVE  i = j
      OBVIOUS
    <3>2. i + 1 = j + 1
      BY <1>b, <2>1, <3>1 DEF RingInv, EventsFresh
    <3> QED
      BY <3>2, <1>b
  <2>5. Fits(Head(pipe)) /\ \A i \in 1 .. Len(pipe') : pipe'[i].slot # Head(pipe).slot
    BY <1>b, <2>1, <2>2 DEF RingInv, EventsFresh
  <2>6. writer = "announce" =>
          /\ Head(pipe).slot # slot
          /\ \A i \in 1 .. Len(pipe') : pipe'[i].slot # slot
    BY <1>b, <2>1, <2>2 DEF RingInv, EventsFresh
  <2>7. /\ \A e : Fits(e)' <=> Fits(e)
        /\ Claiming' => reader' = "entering" /\ event' = Head(pipe)
    BY <1>0 DEF Fits, Claiming
  <2> QED
    BY <1>0, <2>3, <2>4, <2>5, <2>6, <2>7 DEF RingInv, EventsFresh, Fits
<1>4. NoSlotLeak'
  <2> SUFFICES ASSUME active, healthy, NEW s \in Slots
               PROVE  /\ state[s] = "Writing" => Writing /\ slot = s
                      /\ state[s] = "Reading" => FALSE
                      /\ state[s] = "Ready" /\ control = "open" =>
                            \/ writer = "announce" /\ slot = s
                            \/ Head(pipe).slot = s
                            \/ \E i \in 1 .. Len(pipe') : pipe'[i].slot = s
    BY <1>0 DEF NoSlotLeak, Writing, Reading, InHand
  <2>1. /\ state[s] = "Writing" => Writing /\ slot = s
        /\ state[s] = "Reading" => FALSE
        /\ state[s] = "Ready" /\ control = "open" =>
              \/ writer = "announce" /\ slot = s
              \/ \E i \in 1 .. Len(pipe) : pipe[i].slot = s
    BY <1>0 DEF RingInv, NoSlotLeak, Reading, InHand
  <2>2. ASSUME NEW i \in 1 .. Len(pipe), pipe[i].slot = s
        PROVE  Head(pipe).slot = s \/ \E k \in 1 .. Len(pipe') : pipe'[k].slot = s
    <3>1. CASE i = 1
      BY <3>1, <2>2, <1>b
    <3>2. CASE i # 1
      <4>1. i - 1 \in 1 .. Len(pipe') /\ pipe'[i - 1] = pipe[i]
        BY <3>2, <1>b
      <4> QED
        BY <4>1, <2>2
    <3> QED
      BY <3>1, <3>2
  <2> QED
    BY <2>1, <2>2
<1>5. EventsMatchSlots' /\ SinkPinned' /\ SearchBounded'
  BY <1>0 DEF RingInv, EventsMatchSlots, SinkPinned, SearchBounded
<1> QED
  BY <1>1, <1>2, <1>3, <1>4, <1>5 DEF RingInv

\* The handler drops an event only for a client that is not active.
LEMMA EnterHandlerInv ==
    ASSUME RingInv, EnterHandler
    PROVE  RingInv'
<1>0. /\ UNCHANGED <<memVars, pipe, writerVars, stop_requested, clientVars, sent, event, unread, last>>
      /\ reader = "entering"
      /\ \/ active /\ reader' = "state"
         \/ ~active /\ reader' = "idle"
  BY DEF EnterHandler
<1>1. TypeOK'
  BY <1>0 DEF RingInv, TypeOK
<1>2. SlotOwnership'
  BY <1>0 DEF RingInv, SlotOwnership, Writing, Reading
<1>3. EventsFresh'
  BY <1>0 DEF RingInv, EventsFresh, Claiming, Fits
<1>4. NoSlotLeak'
  BY <1>0 DEF RingInv, NoSlotLeak, Writing, Reading, InHand
<1>5. EventsMatchSlots' /\ SinkPinned' /\ SearchBounded'
  BY <1>0 DEF RingInv, EventsMatchSlots, SinkPinned, SearchBounded
<1> QED
  BY <1>1, <1>2, <1>3, <1>4, <1>5 DEF RingInv

\* The reads of begin_read_slot_if_matches find the slot as it was announced.
LEMMA ReadTestsInv ==
    ASSUME RingInv, ReadState \/ ReadSequence \/ RecheckSlot
    PROVE  RingInv'
<1>0. /\ UNCHANGED <<memVars, pipe, writerVars, stop_requested, clientVars, sent, event, unread, last>>
      /\ \/ reader = "state" /\ reader' = "sequence"
         \/ reader = "sequence" /\ reader' = "cas"
         \/ reader = "recheck" /\ reader' = "deliver"
  BY DEF RingInv, EventsFresh, Claiming, Fits, ReadState, ReadSequence, RecheckSlot, GiveUpUnless
<1>1. TypeOK'
  BY <1>0 DEF RingInv, TypeOK
<1>2. SlotOwnership'
  BY <1>0 DEF RingInv, SlotOwnership, Writing, Reading
<1>3. EventsFresh'
  BY <1>0 DEF RingInv, EventsFresh, Claiming, Fits
<1>4. NoSlotLeak'
  BY <1>0 DEF RingInv, NoSlotLeak, Writing, Reading, InHand
<1>5. EventsMatchSlots' /\ SinkPinned' /\ SearchBounded'
  BY <1>0 DEF RingInv, EventsMatchSlots, SinkPinned, SearchBounded
<1> QED
  BY <1>1, <1>2, <1>3, <1>4, <1>5 DEF RingInv

\* The exchange succeeds, and takes a slot the writer does not hold.
LEMMA CompareExchangeInv ==
    ASSUME RingInv, CompareExchange
    PROVE  RingInv'
<1>0. /\ UNCHANGED <<sequence, filled, payload, pipe, writerVars, stop_requested, clientVars, sent,
                     event, unread, last>>
      /\ Fits(event) /\ Claiming
      /\ reader = "cas" /\ reader' = "recheck"
      /\ state' = [state EXCEPT ![event.slot] = "Reading"]
  BY DEF RingInv, EventsFresh, Claiming, Fits, CompareExchange, GiveUpUnless
<1>a. event.slot \in Slots /\ slot \in Slots /\ \A i \in 1 .. Len(pipe) : pipe[i].slot \in Slots
  BY PipeEvents DEF RingInv, TypeOK
<1>b. \A s \in Slots : state'[s] = IF s = event.slot THEN "Reading" ELSE state[s]
  BY <1>0, <1>a DEF RingInv, TypeOK
<1>1. TypeOK'
  <2>1. state' \in [Slots -> {"Empty", "Writing", "Ready", "Reading"}]
    BY <1>0, <1>a DEF RingInv, TypeOK
  <2> QED
    BY <1>0, <2>1 DEF RingInv, TypeOK
<1>2. SlotOwnership'
  BY <1>0, <1>a, <1>b DEF RingInv, SlotOwnership, Writing, Reading, Fits
<1>3. EventsFresh'
  BY <1>0, <1>a, <1>b DEF RingInv, EventsFresh, Claiming, Fits
<1>4. NoSlotLeak'
  BY <1>0, <1>a, <1>b DEF RingInv, NoSlotLeak, Writing, Reading, InHand, Fits
<1>5. EventsMatchSlots' /\ SinkPinned' /\ SearchBounded'
  BY <1>0 DEF RingInv, EventsMatchSlots, SinkPinned, SearchBounded
<1> QED
  BY <1>1, <1>2, <1>3, <1>4, <1>5 DEF RingInv

\* The sink is called only while it is attached, with the mutex held.
LEMMA DeliverInv ==
    ASSUME RingInv, (\E ok \in BOOLEAN : DeliverFrame(ok)) \/ SinkReturns
    PROVE  RingInv'
<1>0. /\ UNCHANGED <<memVars, pipe, writerVars, stop_requested, clientVars, sent, event, unread>>
      /\ \/ reader = "deliver" /\ reader' = "calling" /\ sink
         \/ reader \in {"deliver", "calling"} /\ reader' = "release"
      /\ last' = last \/ last' = payload[event.slot]
  BY DEF DeliverFrame, SinkReturns
<1>1. TypeOK'
  <2>1. event.slot \in Slots
    BY PipeEvents DEF RingInv
  <2>2. last' \in Nat /\ reader' \in {"calling", "release"}
    BY <1>0, <2>1 DEF RingInv, TypeOK
  <2> QED
    BY <1>0, <2>2 DEF RingInv, TypeOK
<1>2. SlotOwnership'
  BY <1>0 DEF RingInv, SlotOwnership, Writing, Reading
<1>3. EventsFresh'
  BY <1>0 DEF RingInv, EventsFresh, Claiming, Fits
<1>4. NoSlotLeak'
  <2>1. ASSUME NEW s \in Slots, state[s] = "Ready"
        PROVE  ~(InHand /\ event.slot = s)
    BY <1>0, <2>1 DEF RingInv, SlotOwnership, Reading
  <2> QED
    BY <1>0, <2>1 DEF RingInv, NoSlotLeak, Writing, Reading, InHand
<1>5. EventsMatchSlots' /\ SinkPinned' /\ SearchBounded'
  BY <1>0 DEF RingInv, EventsMatchSlots, SinkPinned, SearchBounded
<1> QED
  BY <1>1, <1>2, <1>3, <1>4, <1>5 DEF RingInv

\* release_read_slot gives back a slot no event names.
LEMMA ReleaseInv ==
    ASSUME RingInv, ReleaseSlot
    PROVE  RingInv'
<1>0. /\ UNCHANGED <<sequence, payload, pipe, writerVars, stop_requested, clientVars, sent, event,
                     unread, last>>
      /\ reader = "release" /\ reader' = "idle"
      /\ state[event.slot] = "Reading"
      /\ state' = [state EXCEPT ![event.slot] = "Empty"]
      /\ filled' = [filled EXCEPT ![event.slot] = FALSE]
  BY DEF RingInv, SlotOwnership, Reading, ReleaseSlot
<1>a. event.slot \in Slots /\ slot \in Slots /\ \A i \in 1 .. Len(pipe) : pipe[i].slot \in Slots
  BY PipeEvents DEF RingInv, TypeOK
<1>b. /\ \A s \in Slots : state'[s] = IF s = event.slot THEN "Empty" ELSE state[s]
      /\ \A s \in Slots \ {event.slot} : filled'[s] = filled[s]
  BY <1>0, <1>a DEF RingInv, TypeOK
<1>1. TypeOK'
  <2>1. state' \in [Slots -> {"Empty", "Writing", "Ready", "Reading"}] /\ filled' \in [Slots -> BOOLEAN]
    BY <1>0, <1>a DEF RingInv, TypeOK
  <2> QED
    BY <1>0, <2>1 DEF RingInv, TypeOK
<1>2. SlotOwnership'
  BY <1>0, <1>a, <1>b DEF RingInv, SlotOwnership, Writing, Reading
<1>3. EventsFresh'
  <2>1. writer = "store" => slot # event.slot
    BY <1>0 DEF RingInv, SlotOwnership, Writing
  <2> QED
    BY <1>0, <1>a, <1>b, <2>1 DEF RingInv, EventsFresh, Claiming, Fits
<1>4. NoSlotLeak'
  BY <1>0, <1>a, <1>b DEF RingInv, NoSlotLeak, Writing, Reading, InHand
<1>5. EventsMatchSlots' /\ SinkPinned' /\ SearchBounded'
  BY <1>0 DEF RingInv, EventsMatchSlots, SinkPinned, SearchBounded
<1> QED
  BY <1>1, <1>2, <1>3, <1>4, <1>5 DEF RingInv

\* stop, deactivate, detach and the channel's failures leave the slots alone;
\* a channel that has failed does not open again.
LEMMA ClientInv ==
    ASSUME RingInv, StopRequest \/ Deactivate \/ DetachSink \/ ChannelFails \/ ReaderEnds
    PROVE  RingInv'
<1>0. /\ UNCHANGED <<memVars, pipe, writerVars, readerVars, sent, last>>
      /\ active' => active
      /\ sink' = sink \/ reader \in {"idle", "entering"}
      /\ control' = control \/ control' \in {"failed", "ended"}
  BY DEF StopRequest, Deactivate, DetachSink, HandlerMutexFree, ChannelFails, ReaderEnds
<1>1. TypeOK'
  <2>1. stop_requested' \in BOOLEAN /\ active' \in BOOLEAN /\ sink' \in BOOLEAN
    BY Zenon DEF RingInv, TypeOK, StopRequest, Deactivate, DetachSink, ChannelFails, ReaderEnds
  <2> QED
    BY <1>0, <2>1 DEF RingInv, TypeOK
<1>2. SlotOwnership'
  BY <1>0 DEF RingInv, SlotOwnership, Writing, Reading
<1>3. EventsFresh'
  BY <1>0 DEF RingInv, EventsFresh, Claiming, Fits
<1>4. NoSlotLeak'
  BY <1>0 DEF RingInv, NoSlotLeak, Writing, Reading, InHand
<1>5. EventsMatchSlots' /\ SinkPinned' /\ SearchBounded'
  BY <1>0 DEF RingInv, EventsMatchSlots, SinkPinned, SearchBounded
<1> QED
  BY <1>1, <1>2, <1>3, <1>4, <1>5 DEF RingInv

-----------------------------------------------------------------------------
\* Every step of either process preserves the invariant.
LEMMA NextInv == RingInv /\ [Next]_vars => RingInv'
<1> SUFFICES ASSUME RingInv, [Next]_vars PROVE RingInv'
  OBVIOUS
<1>1. CASE GetFrame \/ WriterStep
  BY <1>1, LocalWriterInv, AcquireInv, CopyInv, PublishHeaderInv, PublishStateInv, AnnounceInv
  DEF WriterStep
<1>2. CASE WriterFault
  BY <1>2, LocalWriterInv, AbortInv DEF WriterFault
<1>3. CASE ReaderStep
  BY <1>3, TakeEventInv, EnterHandlerInv, ReadTestsInv, CompareExchangeInv, DeliverInv, ReleaseInv DEF ReaderStep
<1>4. CASE StopRequest \/ Deactivate \/ DetachSink \/ ChannelFails \/ ReaderEnds
  BY <1>4, ClientInv
<1>5. CASE UNCHANGED vars
  BY <1>5 DEF vars, RingInv, TypeOK, SlotOwnership, EventsFresh, EventsMatchSlots, NoSlotLeak,
     SinkPinned, SearchBounded, Writing, Reading, InHand, Claiming, Fits
<1> QED
  BY <1>1, <1>2, <1>3, <1>4, <1>5 DEF Next

\* The invariant holds in every state the two processes reach.
THEOREM RingCorrect == Spec => []RingInv
<1> QED
  BY InitInv, NextInv, PTL DEF Spec

\* Every variable keeps its type: the slot search stays inside the ring and
\* every event names a slot, for every ring size.
THEOREM RingTypeCorrect == Spec => []TypeOK
<1>1. RingInv => TypeOK
  BY DEF RingInv
<1> QED
  BY RingCorrect, <1>1, PTL

\* The worker and the plugin never hold the same slot, whatever the
\* interleaving of their accesses to the shared memory.
THEOREM ExclusiveSlots == Spec => []SlotOwnership
<1>1. RingInv => SlotOwnership
  BY DEF RingInv
<1> QED
  BY RingCorrect, <1>1, PTL

\* No test of begin_read_slot_if_matches ever gives an event up.
THEOREM EventsAlwaysMatch == Spec => []EventsMatchSlots
<1>1. RingInv => EventsMatchSlots
  BY DEF RingInv
<1> QED
  BY RingCorrect, <1>1, PTL

\* While the client is active and the worker healthy, every slot being written
\* or read is in the hands of its thread, and until some graph of the worker
\* fails the control channel every Ready slot is on its way to the sink.
THEOREM NoSlotForgotten == Spec => []NoSlotLeak
<1>1. RingInv => NoSlotLeak
  BY DEF RingInv
<1> QED
  BY RingCorrect, <1>1, PTL

\* detach_sink_noexcept and deactivate_noexcept never detach a sink that is
\* being called.
THEOREM SinkStaysAttached == Spec => []SinkPinned
<1>1. RingInv => SinkPinned
  BY DEF RingInv
<1> QED
  BY RingCorrect, <1>1, PTL

-----------------------------------------------------------------------------
(* The ring and its events implement the channel of MediaChannel.          *)

\* The frames of an event in hand (if any) and of the events p.
FramesOf(hand, e, p) ==
    (IF hand THEN <<e.frame>> ELSE <<>>) \o [i \in 1 .. Len(p) |-> p[i].frame]

\* The length of that sequence and its elements.
LEMMA FramesOfShape ==
    ASSUME NEW hand \in BOOLEAN, NEW e \in Events, NEW p \in Seq(Events)
    PROVE  /\ FramesOf(hand, e, p) \in Seq(Nat)
           /\ hand => /\ Len(FramesOf(hand, e, p)) = Len(p) + 1
                      /\ FramesOf(hand, e, p)[1] = e.frame
                      /\ \A i \in 1 .. Len(p) : FramesOf(hand, e, p)[i + 1] = p[i].frame
           /\ ~hand => /\ Len(FramesOf(hand, e, p)) = Len(p)
                       /\ \A i \in 1 .. Len(p) : FramesOf(hand, e, p)[i] = p[i].frame
<1> DEFINE t == [i \in 1 .. Len(p) |-> p[i].frame]
<1> DEFINE h == IF hand THEN <<e.frame>> ELSE <<>>
<1>1. Len(p) \in Nat /\ \A i \in 1 .. Len(p) : p[i] \in Events
  BY ElementOfSeq, LenProperties
<1>2. \A x \in Events : x.frame \in Nat
  BY DEF Events
<1>3. t \in Seq(Nat) /\ Len(t) = Len(p) /\ \A i \in 1 .. Len(p) : t[i] = p[i].frame
  BY <1>1, <1>2
<1>4. h \in Seq(Nat) /\ (hand => Len(h) = 1 /\ h[1] = e.frame) /\ (~hand => Len(h) = 0)
  BY <1>2
<1> HIDE DEF t, h
<1>a. h \in Seq(Nat) /\ t \in Seq(Nat)
  BY <1>3, <1>4
<1>5. /\ h \o t \in Seq(Nat)
      /\ Len(h \o t) = Len(h) + Len(t)
      /\ \A i \in 1 .. Len(h) + Len(t) : (h \o t)[i] = IF i <= Len(h) THEN h[i] ELSE t[i - Len(h)]
  BY <1>a, ConcatProperties, Zenon
<1>6. FramesOf(hand, e, p) = h \o t
  BY DEF FramesOf, h, t
<1>7. CASE hand
  <2>1. Len(h) = 1 /\ h[1] = e.frame /\ Len(t) = Len(p) /\ Len(p) \in Nat
    BY <1>1, <1>3, <1>4, <1>7
  <2>2. /\ 1 \in 1 .. Len(h) + Len(t)
        /\ \A i \in 1 .. Len(p) : i + 1 \in 1 .. Len(h) + Len(t) /\ ~(i + 1 <= 1) /\ (i + 1) - 1 = i
    BY <2>1
  <2> QED
    BY <1>3, <1>5, <1>6, <1>7, <2>1, <2>2
<1>8. CASE ~hand
  BY <1>1, <1>3, <1>4, <1>5, <1>6, <1>8
<1> QED
  BY <1>7, <1>8

\* The abstract channel is the frames of the event in hand and of the pipe.
LEMMA InFlightIs ==
    /\ InFlight = FramesOf(InHand, event, pipe) /\ InHand \in BOOLEAN
    /\ InFlight' = FramesOf(InHand', event', pipe') /\ InHand' \in BOOLEAN
<1> QED
  BY DEF InFlight, FramesOf, InHand

\* Between its copy and its delivery no payload changes, and frames are
\* announced in the order of their numbers: the start.
LEMMA InitIntact == Init => PayloadsIntact
<1> QED
  BY RingAssumption DEF Init, PayloadsIntact, InHand

\* The same for every step: the writer touches only a payload whose slot it
\* holds, and no event names that slot.
LEMMA NextIntact ==
    ASSUME RingInv, PayloadsIntact, [Next]_vars
    PROVE  PayloadsIntact'
<1>a. /\ event.slot \in Slots /\ slot \in Slots /\ \A i \in 1 .. Len(pipe) : pipe[i].slot \in Slots
      /\ payload \in [Slots -> Nat] /\ frame \in Nat /\ sent \in Nat /\ MaxFrames \in Nat
  BY PipeEvents, RingAssumption DEF RingInv, TypeOK
<1>b. Writing => /\ \A i \in 1 .. Len(pipe) : pipe[i].slot # slot
                 /\ InHand => event.slot # slot
  BY DEF RingInv, SlotOwnership, EventsFresh, Fits, Claiming, InHand, Reading
<1>1. CASE GetFrame
  BY <1>1, <1>a DEF PayloadsIntact, Carries, InHand, GetFrame
<1>2. CASE LoopEnds \/ FrameRefused \/ PublishRejected \/ AnnounceFails \/ WorkerCrash
             \/ (\E ok \in BOOLEAN : PutFrame(ok)) \/ (\E fatal \in BOOLEAN : CopyRejected(fatal))
  <2>1. /\ UNCHANGED <<payload, pipe, reader, event, sent, frame, slot>>
        /\ writer' \in {"put", "get", "exited"}
    BY <1>2, Zenon DEF LoopEnds, FrameRefused, PublishRejected, AnnounceFails, WorkerCrash, PutFrame,
       CopyRejected, ExportFails
  <2> QED
    BY <2>1 DEF PayloadsIntact, Carries, InHand
<1>3. CASE AcquireSlot
  BY <1>3 DEF PayloadsIntact, Carries, InHand, AcquireSlot
<1>4. CASE CopyBegin \/ CopyEnd
  <2>1. /\ UNCHANGED <<pipe, reader, event, sent, frame, slot>>
        /\ writer \in {"copy", "copying"}
        /\ \/ writer' = "copying" /\ payload' = [payload EXCEPT ![slot] = 0]
           \/ writer' = "publish" /\ payload' = [payload EXCEPT ![slot] = frame]
    BY <1>4 DEF CopyBegin, CopyEnd
  <2>2. /\ \A s \in Slots \ {slot} : payload'[s] = payload[s]
        /\ writer' = "publish" => payload'[slot] = frame
    BY <1>a, <2>1
  <2>3. Writing
    BY <2>1 DEF Writing
  <2> QED
    BY <1>a, <1>b, <2>1, <2>2, <2>3 DEF PayloadsIntact, Carries, InHand
<1>5. CASE PublishHeader \/ PublishState
  BY <1>5 DEF PayloadsIntact, Carries, InHand, PublishHeader, PublishState
<1>6. CASE Announce
  <2> DEFINE e == [slot |-> slot, sequence |-> sequence[slot], frame |-> frame]
  <2>1. e \in Events /\ e.slot = slot /\ e.frame = frame /\ pipe \in Seq(Events) /\ Len(pipe) \in Nat
    BY PipeEvents DEF RingInv, TypeOK, Events
  <2>2. /\ UNCHANGED <<payload, reader, event, frame, slot>> /\ pipe' = Append(pipe, e)
        /\ sent' = frame /\ writer = "announce" /\ writer' = "put"
    BY <1>6 DEF Announce
  <2> HIDE DEF e
  <2>3. /\ Len(pipe') = Len(pipe) + 1
        /\ \A i \in 1 .. Len(pipe) : pipe'[i] = pipe[i]
        /\ pipe'[Len(pipe) + 1] = e
    BY <2>1, <2>2, AppendProperties
  <2>4. \A i \in 1 .. Len(pipe') : payload[pipe'[i].slot] = pipe'[i].frame
    BY <2>1, <2>2, <2>3 DEF PayloadsIntact, Carries
  <2> QED
    BY <1>a, <2>2, <2>4 DEF PayloadsIntact, Carries, InHand
<1>7. CASE TakeEvent
  <2>1. pipe \in Seq(Events) /\ pipe # <<>> /\ Len(pipe) \in Nat \ {0} /\ Head(pipe) = pipe[1]
    BY <1>7, PipeEvents, EmptySeq DEF RingInv, TakeEvent
  <2>2. Len(pipe') = Len(pipe) - 1 /\ \A i \in 1 .. Len(pipe') : pipe'[i] = pipe[i + 1]
    BY <1>7, <2>1, HeadTailProperties DEF TakeEvent
  <2>3. /\ UNCHANGED <<payload, frame, slot, sent, writer>>
        /\ event' = Head(pipe) \/ (event' = event /\ reader' = reader)
    BY <1>7 DEF TakeEvent
  <2>4. \A i \in 1 .. Len(pipe') : Carries(pipe[i + 1])
    BY <2>1, <2>2 DEF PayloadsIntact
  <2>5. Carries(pipe[1])
    BY <2>1 DEF PayloadsIntact
  <2> QED
    BY <2>1, <2>2, <2>3, <2>4, <2>5 DEF PayloadsIntact, Carries, InHand
<1>8. CASE EnterHandler \/ ReadState \/ ReadSequence \/ CompareExchange \/ RecheckSlot
             \/ SinkReturns \/ ReleaseSlot \/ (\E ok \in BOOLEAN : DeliverFrame(ok))
  <2>1. /\ UNCHANGED <<payload, pipe, event, frame, slot, sent, writer>>
        /\ InHand' => InHand
    BY <1>8 DEF EnterHandler, ReadState, ReadSequence, CompareExchange, RecheckSlot, SinkReturns, ReleaseSlot,
       DeliverFrame, GiveUpUnless, InHand
  <2> QED
    BY <2>1 DEF PayloadsIntact, Carries
<1>9. CASE StopRequest \/ Deactivate \/ DetachSink \/ ChannelFails \/ ReaderEnds \/ UNCHANGED vars
  BY <1>9 DEF PayloadsIntact, Carries, InHand, StopRequest, Deactivate, DetachSink, ChannelFails,
     ReaderEnds, vars
<1> QED
  BY <1>1, <1>2, <1>3, <1>4, <1>5, <1>6, <1>7, <1>8, <1>9
  DEF Next, WriterStep, WriterFault, ReaderStep

\* A frame that is about to be announced has room in the channel: its slot,
\* the one in hand and those of the pipe are different slots of the ring.
LEMMA RoomToAnnounce ==
    ASSUME RingInv, writer = "announce"
    PROVE  Len(InFlight) < SlotCount
<1> DEFINE n == IF InHand THEN Len(pipe) + 1 ELSE Len(pipe)
<1> DEFINE f == [i \in 0 .. n |-> IF i = 0 THEN slot
                                 ELSE IF i = Len(pipe) + 1 THEN event.slot ELSE pipe[i].slot]
<1>1. /\ pipe \in Seq(Events) /\ event \in Events /\ Len(pipe) \in Nat
      /\ event.slot \in Slots /\ slot \in Slots /\ \A i \in 1 .. Len(pipe) : pipe[i].slot \in Slots
      /\ SlotCount \in Nat \ {0}
  BY PipeEvents, RingAssumption DEF RingInv, TypeOK
<1>n. n \in Nat
  BY <1>1
<1>2. Len(InFlight) = n
  <2>1. InHand => Len(FramesOf(InHand, event, pipe)) = Len(pipe) + 1
    BY <1>1, FramesOfShape, InFlightIs
  <2>2. ~InHand => Len(FramesOf(InHand, event, pipe)) = Len(pipe)
    BY <1>1, FramesOfShape, InFlightIs
  <2> QED
    BY <2>1, <2>2, InFlightIs
<1>3. /\ \A i \in 1 .. Len(pipe) : pipe[i].slot # slot
      /\ \A i, j \in 1 .. Len(pipe) : pipe[i].slot = pipe[j].slot => i = j
      /\ InHand => event.slot # slot /\ \A i \in 1 .. Len(pipe) : pipe[i].slot # event.slot
  BY DEF RingInv, SlotOwnership, EventsFresh, Fits, Claiming, InHand, Reading
<1>4. \A i \in 0 .. n : i = 0 \/ i \in 1 .. Len(pipe) \/ (InHand /\ i = Len(pipe) + 1)
  BY <1>1, <1>n
<1>5. f \in [0 .. n -> Slots]
  BY <1>1, <1>4
<1>6. ASSUME NEW i \in 0 .. n, NEW j \in 0 .. n, i # j
      PROVE  f[i] # f[j]
  <2>1. Len(pipe) + 1 \notin 1 .. Len(pipe) /\ 0 \notin 1 .. Len(pipe) /\ Len(pipe) + 1 # 0
    BY <1>1
  <2> QED
    BY <1>3, <1>4, <1>6, <2>1
<1> HIDE DEF f, n
<1>7. IsFiniteSet(0 .. n) /\ Cardinality(0 .. n) = n + 1
  BY <1>n, FS_Interval
<1>8. IsFiniteSet(Slots) /\ Cardinality(Slots) = SlotCount
  <2>1. 0 \in Int /\ SlotCount - 1 \in Int /\ ~(0 > SlotCount - 1) /\ (SlotCount - 1) - 0 + 1 = SlotCount
    BY <1>1
  <2> QED
    BY <2>1, FS_Interval DEF Slots
<1>9. ~(Cardinality(Slots) < Cardinality(0 .. n))
  BY <1>5, <1>6, <1>7, <1>8, FS_PigeonHole
<1> QED
  BY <1>1, <1>n, <1>2, <1>7, <1>8, <1>9

\* A step that keeps the frames in flight and the two counters stutters.
LEMMA ChannelStutters ==
    ASSUME UNCHANGED <<pipe, event, sent, last>>, InHand' = InHand
    PROVE  UNCHANGED <<InFlight, sent, last>>
<1> QED
  BY DEF InFlight

\* Every step of the ring is a step of the channel or changes nothing of it:
\* Announce sends, the delivery delivers; a failed delivery, an event for an
\* inactive client and one that a failed control channel drops lose the oldest
\* frame.
LEMMA StepImplements ==
    ASSUME RingInv, PayloadsIntact, [Next]_vars
    PROVE  [Channel!Next]_<<InFlight, sent, last>>
<1>a. /\ pipe \in Seq(Events) /\ event \in Events /\ Len(pipe) \in Nat
      /\ frame \in Nat /\ sent \in Nat
  BY PipeEvents DEF RingInv, TypeOK
<1>1. CASE GetFrame \/ LoopEnds \/ FrameRefused \/ PublishRejected \/ AnnounceFails \/ WorkerCrash
             \/ AcquireSlot \/ CopyBegin \/ CopyEnd \/ PublishHeader \/ PublishState
             \/ (\E ok \in BOOLEAN : PutFrame(ok)) \/ (\E fatal \in BOOLEAN : CopyRejected(fatal))
             \/ StopRequest \/ Deactivate \/ DetachSink \/ ChannelFails \/ ReaderEnds
             \/ UNCHANGED vars
  <2>1. UNCHANGED <<pipe, event, reader, sent, last>>
    BY <1>1 DEF GetFrame, LoopEnds, FrameRefused, PublishRejected, AnnounceFails, WorkerCrash,
       AcquireSlot, CopyBegin, CopyEnd, PublishHeader, PublishState, PutFrame, CopyRejected,
       StopRequest, Deactivate, DetachSink, ChannelFails, ReaderEnds, vars
  <2> QED
    BY <2>1, ChannelStutters DEF InHand
<1>2. CASE ReadState \/ ReadSequence \/ CompareExchange \/ RecheckSlot \/ SinkReturns \/ ReleaseSlot
  <2>1. UNCHANGED <<pipe, event, sent, last>> /\ InHand' = InHand
    BY <1>2 DEF ReadState, ReadSequence, CompareExchange, RecheckSlot, SinkReturns, ReleaseSlot,
       GiveUpUnless, InHand, RingInv, EventsFresh, Claiming, Fits
  <2> QED
    BY <2>1, ChannelStutters
<1>3. CASE Announce
  <2> DEFINE e == [slot |-> slot, sequence |-> sequence[slot], frame |-> frame]
  <2>1. e \in Events /\ e.frame = frame
    BY DEF RingInv, TypeOK, Events
  <2>2. /\ UNCHANGED <<reader, event, last>> /\ pipe' = Append(pipe, e)
        /\ sent' = frame /\ writer = "announce"
    BY <1>3 DEF Announce
  <2> HIDE DEF e
  <2>3. /\ pipe' \in Seq(Events) /\ Len(pipe') = Len(pipe) + 1
        /\ \A i \in 1 .. Len(pipe) : pipe'[i] = pipe[i]
        /\ pipe'[Len(pipe) + 1] = e
    BY <1>a, <2>1, <2>2, AppendProperties
  <2>4. InFlight' = Append(InFlight, frame)
    <3> DEFINE a == InFlight
    <3> DEFINE b == InFlight'
    <3>1. InHand' = InHand /\ event' = event
      BY <2>2 DEF InHand
    <3>2. a \in Seq(Nat) /\ b \in Seq(Nat)
      BY <1>a, <2>3, <3>1, FramesOfShape, InFlightIs
    <3>3. CASE InHand
      <4>1. /\ Len(a) = Len(pipe) + 1 /\ a[1] = event.frame
            /\ \A i \in 1 .. Len(pipe) : a[i + 1] = pipe[i].frame
        BY <1>a, <3>3, FramesOfShape, InFlightIs
      <4>2. /\ Len(b) = Len(pipe) + 2 /\ b[1] = event.frame
            /\ \A i \in 1 .. Len(pipe) + 1 : b[i + 1] = pipe'[i].frame
        <5>1. InHand' /\ Len(pipe') + 1 = Len(pipe) + 2
          BY <1>a, <2>3, <3>1, <3>3
        <5>2. /\ Len(b) = Len(pipe') + 1 /\ b[1] = event'.frame
              /\ \A i \in 1 .. Len(pipe') : b[i + 1] = pipe'[i].frame
          BY <1>a, <2>3, <3>1, <5>1, FramesOfShape, InFlightIs
        <5> QED
          BY <2>3, <3>1, <5>1, <5>2
      <4>4. \A i \in 1 .. Len(b) : b[i] = Append(a, frame)[i]
        <5>1. /\ \A i \in 1 .. Len(pipe) + 1 : Append(a, frame)[i] = a[i]
              /\ Append(a, frame)[Len(pipe) + 2] = frame
          <6>1. (Len(pipe) + 1) + 1 = Len(pipe) + 2
            BY <1>a
          <6> QED
            BY <1>a, <3>2, <4>1, <6>1, AppendProperties
        <5>2. b[1] = Append(a, frame)[1]
          BY <1>a, <4>1, <4>2, <5>1
        <5>3. ASSUME NEW i \in 1 .. Len(pipe) PROVE b[i + 1] = Append(a, frame)[i + 1]
          BY <1>a, <2>3, <4>1, <4>2, <5>1
        <5>4. b[Len(pipe) + 2] = Append(a, frame)[Len(pipe) + 2]
          <6>1. Len(pipe) + 1 \in 1 .. Len(pipe) + 1 /\ (Len(pipe) + 1) + 1 = Len(pipe) + 2
            BY <1>a
          <6> QED
            BY <2>1, <2>3, <4>2, <5>1, <6>1
        <5>5. \A i \in 1 .. Len(b) : i = 1 \/ i = Len(pipe) + 2 \/ (i - 1 \in 1 .. Len(pipe) /\ (i - 1) + 1 = i)
          BY <1>a, <4>2
        <5> QED
          BY <5>2, <5>3, <5>4, <5>5
      <4> QED
        BY <1>a, <3>2, <4>1, <4>2, <4>4, AppendProperties, SeqEqual
    <3>4. CASE ~InHand
      <4>1. Len(a) = Len(pipe) /\ \A i \in 1 .. Len(pipe) : a[i] = pipe[i].frame
        BY <1>a, <3>4, FramesOfShape, InFlightIs
      <4>2. Len(b) = Len(pipe) + 1 /\ \A i \in 1 .. Len(pipe) + 1 : b[i] = pipe'[i].frame
        BY <1>a, <2>3, <3>1, <3>4, FramesOfShape, InFlightIs
      <4>4. \A i \in 1 .. Len(b) : b[i] = Append(a, frame)[i]
        BY <1>a, <2>1, <2>3, <3>2, <4>1, <4>2, AppendProperties
      <4> QED
        BY <1>a, <3>2, <4>1, <4>2, <4>4, AppendProperties, SeqEqual
    <3> QED
      BY <3>3, <3>4
  <2>5. frame > sent /\ frame \in 1 .. MaxFrames
    BY <1>a, <2>2, RingAssumption DEF PayloadsIntact
  <2>6. Len(InFlight) < SlotCount
    BY <2>2, RoomToAnnounce
  <2>7. Channel!Send(frame)
    BY <2>2, <2>4, <2>5, <2>6 DEF Channel!Send
  <2> QED
    BY <2>5, <2>7 DEF Channel!Next
<1>4. CASE \E ok \in BOOLEAN : DeliverFrame(ok)
  <2>1. /\ UNCHANGED <<pipe, event, sent>>
        /\ reader = "deliver" /\ reader' \in {"calling", "release"}
        /\ last' = last \/ last' = payload[event.slot]
    BY <1>4 DEF DeliverFrame
  <2>2. InHand /\ ~InHand' /\ payload[event.slot] = event.frame
    BY <2>1 DEF InHand, PayloadsIntact, Carries
  <2>3. /\ InFlight \in Seq(Nat) /\ InFlight' \in Seq(Nat)
        /\ Len(InFlight) = Len(pipe) + 1 /\ Len(InFlight') = Len(pipe)
        /\ InFlight[1] = event.frame
        /\ \A i \in 1 .. Len(pipe) : InFlight[i + 1] = pipe[i].frame /\ InFlight'[i] = pipe[i].frame
    BY <1>a, <2>1, <2>2, FramesOfShape, InFlightIs
  <2>4. InFlight # <<>> /\ Head(InFlight) = event.frame
    BY <1>a, <2>3
  <2>5. InFlight' = Tail(InFlight)
    BY <1>a, <2>3, <2>4, HeadTailProperties, SeqEqual
  <2> QED
    BY <2>1, <2>2, <2>4, <2>5 DEF Channel!Next, Channel!Deliver, Channel!Lose
<1>5. CASE TakeEvent
  <2>1. /\ UNCHANGED <<sent, last>> /\ reader = "idle" /\ pipe # <<>> /\ pipe' = Tail(pipe)
        /\ \/ reader' = "entering" /\ event' = Head(pipe)
           \/ reader' = "idle" /\ event' = event
    BY <1>5 DEF TakeEvent
  <2>2. /\ Len(pipe) \in Nat \ {0} /\ pipe' \in Seq(Events) /\ Len(pipe') = Len(pipe) - 1
        /\ \A i \in 1 .. Len(pipe') : pipe'[i] = pipe[i + 1]
        /\ Head(pipe) = pipe[1] /\ Head(pipe) \in Events
    BY <1>a, <2>1, HeadTailProperties, EmptySeq
  <2>3. /\ InFlight \in Seq(Nat) /\ Len(InFlight) = Len(pipe)
        /\ \A i \in 1 .. Len(pipe) : InFlight[i] = pipe[i].frame
    <3>1. ~InHand
      BY <2>1 DEF InHand
    <3> QED
      BY <1>a, <3>1, FramesOfShape, InFlightIs
  <2>4. CASE reader' = "entering"
    <3>1. /\ InFlight' \in Seq(Nat) /\ Len(InFlight') = Len(pipe') + 1
          /\ InFlight'[1] = pipe[1].frame
          /\ \A i \in 1 .. Len(pipe') : InFlight'[i + 1] = pipe'[i].frame
      <4>1. InHand' /\ event' = pipe[1] /\ event' \in Events
        BY <2>1, <2>2, <2>4 DEF InHand
      <4> QED
        BY <2>2, <4>1, FramesOfShape, InFlightIs
    <3>2. \A i \in 1 .. Len(pipe) : i = 1 \/ (i - 1 \in 1 .. Len(pipe') /\ (i - 1) + 1 = i)
      BY <2>2
    <3>3. \A i \in 1 .. Len(pipe) : InFlight'[i] = InFlight[i]
      <4>1. ASSUME NEW i \in 1 .. Len(pipe') PROVE InFlight'[i + 1] = InFlight[i + 1]
        <5>1. i + 1 \in 1 .. Len(pipe)
          BY <2>2
        <5> QED
          BY <2>2, <2>3, <3>1, <5>1
      <4>2. InFlight'[1] = InFlight[1]
        BY <2>2, <2>3, <3>1
      <4> QED
        BY <3>2, <4>1, <4>2
    <3>4. InFlight' = InFlight
      BY <2>2, <2>3, <3>1, <3>3, SeqEqual
    <3> QED
      BY <2>1, <3>4
  <2>5. CASE reader' = "idle"
    <3>1. /\ InFlight' \in Seq(Nat) /\ Len(InFlight') = Len(pipe')
          /\ \A i \in 1 .. Len(pipe') : InFlight'[i] = pipe'[i].frame
      <4>1. ~InHand' /\ event' \in Events /\ pipe' \in Seq(Events)
        BY <1>a, <2>1, <2>2, <2>5 DEF InHand
      <4> QED
        BY <4>1, FramesOfShape, InFlightIs
    <3>2. InFlight # <<>>
      BY <2>2, <2>3
    <3>3. InFlight' = Tail(InFlight)
      <4>1. /\ Tail(InFlight) \in Seq(Nat) /\ Len(Tail(InFlight)) = Len(pipe')
            /\ \A i \in 1 .. Len(pipe') : Tail(InFlight)[i] = InFlight[i + 1]
        BY <2>2, <2>3, <3>2, HeadTailProperties
      <4>2. ASSUME NEW i \in 1 .. Len(pipe') PROVE InFlight'[i] = Tail(InFlight)[i]
        <5>1. i + 1 \in 1 .. Len(pipe)
          BY <2>2
        <5> QED
          BY <2>2, <2>3, <3>1, <4>1, <5>1
      <4> QED
        BY <3>1, <4>1, <4>2, SeqEqual
    <3> QED
      BY <2>1, <3>2, <3>3 DEF Channel!Next, Channel!Lose
  <2> QED
    BY <2>1, <2>4, <2>5
<1>6. CASE EnterHandler
  <2>1. /\ UNCHANGED <<pipe, event, sent, last>> /\ reader = "entering"
        /\ reader' = "state" \/ reader' = "idle"
    BY <1>6 DEF EnterHandler
  <2>2. CASE reader' = "state"
    <3>1. InHand' = InHand
      BY <2>1, <2>2 DEF InHand
    <3> QED
      BY <2>1, <3>1, ChannelStutters
  <2>3. CASE reader' = "idle"
    <3>1. InHand /\ ~InHand'
      BY <2>1, <2>3 DEF InHand
    <3>2. /\ InFlight \in Seq(Nat) /\ InFlight' \in Seq(Nat)
          /\ Len(InFlight) = Len(pipe) + 1 /\ Len(InFlight') = Len(pipe)
          /\ \A i \in 1 .. Len(pipe) : InFlight[i + 1] = pipe[i].frame /\ InFlight'[i] = pipe[i].frame
      BY <1>a, <2>1, <3>1, FramesOfShape, InFlightIs
    <3>3. InFlight # <<>>
      BY <1>a, <3>2
    <3>4. InFlight' = Tail(InFlight)
      BY <1>a, <3>2, <3>3, HeadTailProperties, SeqEqual
    <3> QED
      BY <2>1, <3>3, <3>4 DEF Channel!Next, Channel!Lose
  <2> QED
    BY <2>1, <2>2, <2>3
<1> QED
  BY <1>1, <1>2, <1>3, <1>4, <1>5, <1>6 DEF Next, WriterStep, WriterFault, ReaderStep

\* The ring of slots, the events and the handler implement the channel of
\* MediaChannel for every number of slots and frames: whatever fails, the
\* sink gets whole frames, in order and at most once, and a frame that has a
\* slot has room.
THEOREM RingImplementsChannel == Spec => ImplementsChannel
<1>1. Init => Channel!Init
  BY DEF Init, Channel!Init, InFlight, InHand
<1>2. RingInv /\ PayloadsIntact /\ [Next]_vars => PayloadsIntact'
  BY NextIntact
<1>3. RingInv /\ PayloadsIntact /\ [Next]_vars => [Channel!Next]_<<InFlight, sent, last>>
  BY StepImplements
<1> QED
  BY RingCorrect, InitIntact, <1>1, <1>2, <1>3, PTL DEF Spec, ImplementsChannel, Channel!Spec

=============================================================================
