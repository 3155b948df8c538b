----------------------------- MODULE WorkerIpc -----------------------------
(***************************************************************************)
(* Frames on the control socket of a worker: threads that write requests   *)
(* (the channel of the client) or events (the worker's event writer) under *)
(* one write lock, a stream socket that accepts and returns any part of a  *)
(* buffer, and the reader on the other side that puts frames together,     *)
(* decodes them and owns the file descriptors that came with them.         *)
(* The two directions of the socket do not share state: `dir' says which   *)
(* one a behaviour is about.                                               *)
(***************************************************************************)
EXTENDS IpcMessages, FiniteSets

CONSTANTS
    Threads,       \* threads that write
    Msg,           \* the messages, a function of their names
    MessagesOf,    \* the names each thread may send, per direction
    MaxFrameBytes, \* defaultMtlWorkerMaxControlFrameBytes
    MaxFds,        \* defaultMtlWorkerMaxAncillaryFileDescriptors
    Cuts,          \* where in a frame a send or a receive may end early
    MixedSizes,    \* sizes read from a header whose bytes are not one header
    MaxSegments,   \* bound: parts of frames the socket holds
    MaxFrames,     \* bound: frames begun
    MaxTimeouts,   \* bound: sends that time out
    Nobody         \* not a thread

Names == DOMAIN Msg
Directions == {"requests", "events"}

ASSUME IpcAssumption ==
    /\ MaxFds \in Nat /\ MaxFrameBytes \in Nat /\ MaxSegments \in Nat \ {0} /\ MaxFrames \in Nat
    /\ MaxTimeouts \in Nat /\ Cuts \subseteq Nat /\ MixedSizes \subseteq Nat
    /\ IsFiniteSet(Threads) /\ Nobody \notin Threads

\* Two names name two messages, a thread sends messages that have a name, and the
\* count of a message's rings is a number.
ASSUME MessageAssumption ==
    /\ \A m, k \in Names : Msg[m] = Msg[k] => m = k
    /\ \A d \in Directions : \A t \in Threads : MessagesOf[d][t] \subseteq Names
    /\ \A m \in Names : Msg[m].tag = "StartSessions" => Msg[m].f[<<"rings", "count">>] \in Nat

VARIABLES
    dir,       \* "requests" or "events"
    writer,    \* [pc, frame, n, sent] of each thread: sent bytes of frame n
    lock,      \* the holder of write_mutex
    failed,    \* reader_failed of the client's channel
    shut,      \* the client has shut the socket down
    stream,    \* parts of frames in the socket: frame n, bytes lo..hi, descriptors
    timeouts,  \* sends that timed out
    order,     \* history: the frames begun, in order, [frame, torn]
    reader,    \* [phase, size, taken, got, fds] of the reader
    open,      \* descriptors open in the reader's process
    handled    \* history: what the reader's process handled, [msg, fds, mapped]

writerVars == <<writer, lock, order, timeouts>>
readerVars == <<reader, open, handled>>
vars == <<dir, writerVars, failed, shut, stream, readerVars>>

HeaderBytes == 4
Foreign == "foreign"   \* a message nobody sent

-----------------------------------------------------------------------------
\* Frames: what the sender's codec makes of a message (nothing when it is
\* refused), and what the receiver's codec will make of the payload.

Payloads(message) ==
    IF message.tag \in DOMAIN RequestTags THEN SerializeRequest(message) ELSE SerializeEvent(message)
Decoded(tag, payload) ==
    IF tag \in DOMAIN RequestTags THEN DeserializeRequest(payload) ELSE DeserializeEvent(payload)

RingsIn(message) == IF message.tag = "StartSessions" THEN RingsOf(message.f) ELSE <<>>
NameOf(message) == IF \E m \in Names : Msg[m] = message THEN CHOOSE m \in Names : Msg[m] = message ELSE Foreign

FramesFor(name, message) ==
    {[msg |-> name, size |-> Len(p), rings |-> RingsIn(message),
      decoded |-> {[msg |-> NameOf(d), rings |-> RingsIn(d)] : d \in Decoded(message.tag, p)}]
     : p \in Payloads(message)}
Frames == [m \in Names |-> FramesFor(m, Msg[m])]
NoFrame == [msg |-> Foreign, size |-> 0, rings |-> <<>>, decoded |-> {}]

Total(frame) == HeaderBytes + frame.size
FdsOf(n) == [i \in 1..Len(order[n].frame.rings) |-> <<n, i>>]

-----------------------------------------------------------------------------
NewReader == [phase |-> "header", size |-> HeaderBytes, taken |-> 0, got |-> <<>>, fds |-> <<>>]
Quiet == [pc |-> "idle", frame |-> NoFrame, n |-> 0, sent |-> 0]

Init ==
    /\ dir \in Directions
    /\ writer = [t \in Threads |-> Quiet] /\ lock = Nobody /\ failed = FALSE /\ shut = FALSE
    /\ stream = <<>> /\ timeouts = 0 /\ order = <<>>
    /\ reader = NewReader /\ open = {} /\ handled = <<>>

\* write_mtl_worker_control_frame_with_fds
validate_outbound_frame(frame) ==
    frame.size \in 1..MaxFrameBytes /\ Len(frame.rings) <= MaxFds

\* transact_with_fds up to the lock (a failed channel is refused here, and only
\* here), or write_event.
Call(t) ==
    /\ writer[t].pc = "idle"
    /\ dir = "requests" => ~failed
    /\ Len(order) + Cardinality({u \in Threads : writer[u].pc = "called"}) < MaxFrames
    /\ \E m \in MessagesOf[dir][t] : \E frame \in Frames[m] :
         /\ validate_outbound_frame(frame)
         /\ writer' = [writer EXCEPT ![t] = [pc |-> "called", frame |-> frame, n |-> 0, sent |-> 0]]
    /\ UNCHANGED <<dir, lock, order, timeouts, failed, shut, stream, readerVars>>

Lock(t) ==
    /\ writer[t].pc = "called" /\ lock = Nobody
    /\ lock' = t
    /\ writer' = [writer EXCEPT ![t].pc = "writing", ![t].n = Len(order) + 1]
    /\ order' = Append(order, [frame |-> writer[t].frame, torn |-> FALSE])
    /\ UNCHANGED <<dir, timeouts, failed, shut, stream, readerVars>>

\* Nobody reads the other end any more.
Broken == shut \/ (dir = "requests" /\ reader.phase = "ended")

\* The last byte the next call of send may write: header and payload are two
\* sends, unless descriptors go with the first one (send_frame_with_fds).
SendLimit(t) ==
    IF writer[t].sent >= HeaderBytes \/ (writer[t].sent = 0 /\ writer[t].frame.rings # <<>>)
    THEN Total(writer[t].frame) ELSE HeaderBytes

\* Descriptors go with the first byte and only with it.
FdsWith(t) == IF writer[t].sent = 0 THEN FdsOf(writer[t].n) ELSE <<>>

\* One send or sendmsg, which may take a part of the buffer.
Send(t) ==
    /\ writer[t].pc = "writing" /\ ~Broken /\ Len(stream) < MaxSegments
    /\ \E hi \in {h \in Cuts \cup {SendLimit(t)} : writer[t].sent < h /\ h <= SendLimit(t)} :
         /\ stream' = Append(stream, [n |-> writer[t].n, lo |-> writer[t].sent + 1, hi |-> hi, fds |-> FdsWith(t)])
         /\ writer' = [writer EXCEPT ![t] = IF hi = Total(@.frame) THEN Quiet ELSE [@ EXCEPT !.sent = hi]]
         /\ lock' = IF hi = Total(writer[t].frame) THEN Nobody ELSE t
    /\ UNCHANGED <<dir, order, timeouts, failed, shut, readerVars>>

\* The client's socket has a send time-out; the worker's fails only when broken.
\* What was written of the frame stays in the stream.
SendFails(t) ==
    /\ writer[t].pc = "writing"
    /\ \/ Broken /\ UNCHANGED timeouts
       \/ /\ dir = "requests" /\ ~Broken /\ timeouts < MaxTimeouts
          /\ timeouts' = timeouts + 1
    /\ order' = IF writer[t].sent = 0 THEN Front(order) ELSE [order EXCEPT ![writer[t].n].torn = TRUE]
    /\ writer' = [writer EXCEPT ![t] = Quiet]
    /\ lock' = Nobody
    /\ failed' = (failed \/ dir = "requests")   \* fail_channel_noexcept
    /\ UNCHANGED <<dir, shut, stream, readerVars>>

\* The client shuts the socket down; what is in it can still be read.
Shutdown ==
    /\ ~shut /\ shut' = TRUE
    /\ failed' = (failed \/ dir = "requests")
    /\ UNCHANGED <<dir, writerVars, stream, readerVars>>

-----------------------------------------------------------------------------
\* The reader

\* read_bytes counts what was taken for the part that is being read.
Missing == reader.size - reader.taken

\* Mutant: one recvmsg is taken to return all that is wanted.
Wanting_OneCall == reader.phase \in {"header", "payload"} /\ Missing > 0 /\ reader.got = <<>>
\* The loop of read_all_with_fds.
Wanting == reader.phase \in {"header", "payload"} /\ Missing > 0

\* Bytes lo..hi of frame n behind those already taken.
Joined(got, n, lo, hi) ==
    IF got # <<>> /\ Last(got).n = n /\ Last(got).hi + 1 = lo
    THEN Append(Front(got), [Last(got) EXCEPT !.hi = hi])
    ELSE Append(got, [n |-> n, lo |-> lo, hi |-> hi])

\* append_received_fds: those beyond the maximum are closed, and it is an error.
TooMany(fds) == Len(reader.fds \o fds) > MaxFds

\* close_fds_noexcept
CloseOnError == open' = {}

\* An error ends the worker's main loop, or the client's reader thread.
ReadFails ==
    /\ reader' = [reader EXCEPT !.phase = "ended", !.taken = 0, !.got = <<>>, !.fds = <<>>]
    /\ CloseOnError
    /\ failed' = (failed \/ dir = "events")
    /\ stream' = IF dir = "requests" THEN <<>> ELSE stream
    /\ UNCHANGED handled

\* One recvmsg: a part of what is wanted, and the descriptors on its first byte.
Receive ==
    /\ Wanting /\ stream # <<>>
    /\ LET s == Head(stream)
           most == IF s.hi - s.lo + 1 <= Missing THEN s.hi ELSE s.lo + Missing - 1 IN
       \E hi \in {h \in Cuts \cup {most} : s.lo <= h /\ h <= most} :
         IF TooMany(s.fds)
         THEN ReadFails
         ELSE /\ reader' = [reader EXCEPT !.got = Joined(@, s.n, s.lo, hi), !.taken = @ + (hi - s.lo + 1),
                                         !.fds = @ \o s.fds]
              /\ open' = open \cup Range(s.fds)
              /\ stream' = IF hi = s.hi THEN Tail(stream)
                           ELSE <<[s EXCEPT !.lo = hi + 1, !.fds = <<>>]>> \o Tail(stream)
              /\ UNCHANGED <<failed, handled>>
    /\ UNCHANGED <<dir, writerVars, shut>>

ReadEof ==
    /\ Wanting /\ stream = <<>> /\ shut
    /\ ReadFails
    /\ UNCHANGED <<dir, writerVars, shut>>

WholeHeader == Len(reader.got) = 1 /\ reader.got[1].lo = 1 /\ reader.got[1].hi = HeaderBytes

\* Mutant: the largest frame is one byte shorter for the reader.
SizeRefused_OffByOne(size) == size = 0 \/ size >= MaxFrameBytes
SizeRefused(size) == size = 0 \/ size > MaxFrameBytes

\* read_mtl_worker_control_frame_with_fds between header and payload.  The bytes
\* of two frames make any size.
HeaderRead ==
    /\ reader.phase = "header" /\ Missing = 0
    /\ \E size \in IF WholeHeader THEN {order[reader.got[1].n].frame.size} ELSE MixedSizes :
         IF SizeRefused(size) THEN ReadFails
         ELSE /\ reader' = [phase |-> "payload", size |-> size, taken |-> 0, got |-> <<>>, fds |-> reader.fds]
              /\ UNCHANGED <<failed, stream, open, handled>>
    /\ UNCHANGED <<dir, writerVars, shut>>

\* The payload is the whole payload of one frame.
WholePayload ==
    /\ Len(reader.got) = 1
    /\ reader.got[1].lo = HeaderBytes + 1 /\ reader.got[1].hi = Total(order[reader.got[1].n].frame)

\* import_shared_memory_rings in the worker
Mapped(rings, fds) == \A i \in DOMAIN rings : rings[i].fd_index < Len(fds) /\ ValidForMapping(rings[i])

\* deserialize, then MtlWorkerProcessState::handle or the channel's dispatch.
\* Mixed bytes may decode to anything or to nothing.
PayloadRead ==
    /\ reader.phase = "payload" /\ Missing = 0
    /\ \/ /\ WholePayload
          /\ LET results == order[reader.got[1].n].frame.decoded IN
             \/ results = {} /\ ReadFails
             \/ \E d \in results :
                  /\ handled' = Append(handled, [msg |-> d.msg, fds |-> reader.fds,
                                                 mapped |-> Mapped(d.rings, reader.fds)])
                  /\ reader' = [reader EXCEPT !.phase = "handling", !.taken = 0, !.got = <<>>]
                  /\ UNCHANGED <<failed, stream, open>>
       \/ ~WholePayload /\ ReadFails
       \/ /\ ~WholePayload
          /\ handled' = Append(handled, [msg |-> Foreign, fds |-> reader.fds, mapped |-> FALSE])
          /\ reader' = [reader EXCEPT !.phase = "handling", !.taken = 0, !.got = <<>>]
          /\ UNCHANGED <<failed, stream, open>>
    /\ UNCHANGED <<dir, writerVars, shut>>

\* The frame's destructor closes its descriptors; the loop reads the next one.
FrameDone ==
    /\ reader.phase = "handling"
    /\ open' = open \ Range(reader.fds)
    /\ reader' = NewReader
    /\ UNCHANGED <<dir, writerVars, failed, shut, stream, handled>>

ReaderStep == Receive \/ ReadEof \/ HeaderRead \/ PayloadRead \/ FrameDone
Next ==
    \/ \E t \in Threads : Call(t) \/ Lock(t) \/ Send(t) \/ SendFails(t)
    \/ Shutdown \/ ReaderStep

Spec == Init /\ [][Next]_vars
\* The reader blocks in recvmsg only; both processes keep running it.
FairSpec == Spec /\ WF_vars(ReaderStep)

-----------------------------------------------------------------------------
\* The reader never holds more descriptors than a frame may carry, and every
\* variable keeps its type.
TypeOK ==
    /\ dir \in Directions /\ lock \in Threads \cup {Nobody}
    /\ failed \in BOOLEAN /\ shut \in BOOLEAN /\ timeouts \in 0..MaxTimeouts
    /\ \A t \in Threads : writer[t].pc \in {"idle", "called", "writing"}
    /\ Len(stream) <= MaxSegments /\ Len(order) <= MaxFrames
    /\ reader.phase \in {"header", "payload", "handling", "ended"}
    /\ Len(reader.fds) <= MaxFds /\ Missing >= 0

TornFrames == {n \in DOMAIN order : order[n].torn}

\* What the other process handles is what was sent, in the order the write lock
\* was taken and each frame with its own descriptors, as long as no frame was torn
\* by a failed send; a message nobody sent can only follow a torn frame, and by
\* then the channel is marked failed, so that no new call uses it.
FramesArriveIntact ==
    \A k \in DOMAIN handled :
      \/ k <= Len(order) /\ handled[k].msg = order[k].frame.msg /\ handled[k].fds = FdsOf(k)
      \/ \E n \in TornFrames : n <= k /\ (dir = "requests" => failed)

\* The reader ends only because the socket was shut down or a frame was torn:
\* no frame a writer completed is refused by the framing or the codec of the
\* other side, whatever way it was cut.
EndsOnlyForCause == reader.phase = "ended" => shut \/ TornFrames # {}

\* Descriptors received with a frame are closed with it: between two frames and
\* after an error the reader's process holds none, and never more than allowed.
DescriptorsClosed ==
    /\ open = Range(reader.fds)
    /\ (reader.phase = "header" /\ reader.got = <<>>) \/ reader.phase = "ended" => open = {}

\* The reader survives every legal frame and leaks nothing: it ends only for a
\* cause, and keeps account of the descriptors it was handed.
ReaderIsSound == TypeOK /\ EndsOnlyForCause /\ DescriptorsClosed

SoundRings == {m \in Names : \A d \in Range(RingsIn(Msg[m])) : SlotsSound(d)}

\* A StartSessions request that arrives maps: every ring the client prepared has
\* a descriptor in the frame, passes the worker's validation and has sound slots.
PreparedRingsAreMapped ==
    \A k \in DOMAIN handled :
      handled[k].msg # Foreign =>
        handled[k].mapped /\ handled[k].msg \in SoundRings

\* The n-th frame is in the socket as a whole.
Written(n) == n \in DOMAIN order /\ ~order[n].torn /\ (lock # Nobody => n # Len(order))

\* A frame that is wholly written is handled, unless its reader ends first.
FramesAreHandled ==
    \A n \in 1..MaxFrames : Written(n) ~> (Len(handled) >= n \/ reader.phase = "ended" \/ TornFrames # {})
-----------------------------------------------------------------------------
\* What the proofs assume of the messages.

\* What the receiver's codec makes of a payload is what the sender's was given.
CodecRoundTrips == \A m \in Names : \A p \in Payloads(Msg[m]) : Decoded(Msg[m].tag, p) = {Msg[m]}

\* A video frame and an audio block the client can prepare a ring for: their
\* sizes and counts are numbers of type uint64_t.
VideoFits(video) == video.frame_buffer_count \in U64 /\ VideoCapacity(video) \subseteq U64
AudioFits(audio) == audio.frame_buffer_count \in U64 /\ AudioCapacity(audio) \subseteq U64

\* The rings of every StartSessions request are those prepare_media_rings made.
RingsArePrepared ==
    \A m \in Names : Msg[m].tag = "StartSessions" =>
      \E video, audio : /\ \A v \in video : VideoFits(v)
                        /\ \A a \in audio : AudioFits(a)
                        /\ RingsIn(Msg[m]) \in PrepareMediaRings(video, audio)

-----------------------------------------------------------------------------
\* What makes these invariants inductive

\* What a caller may hand to the writer.
SentFrames == {f \in UNION {Frames[m] : m \in Names} : validate_outbound_frame(f)}

Parts == [n : Nat, lo : Nat, hi : Nat]
Fds == Seq(Nat \X Nat)

\* The next byte to be written, and the next one to be read.
NextWrite ==
    IF lock = Nobody THEN [n |-> Len(order) + 1, lo |-> 1]
    ELSE [n |-> Len(order), lo |-> writer[lock].sent + 1]
NextRead == IF stream = <<>> THEN NextWrite ELSE [n |-> stream[1].n, lo |-> stream[1].lo]

\* Byte q is the first one after part p.
Follows(p, q) ==
    \/ q.n = p.n /\ q.lo = p.hi + 1
    \/ /\ q.n = p.n + 1 /\ q.lo = 1
       /\ order[p.n].torn \/ p.hi = Total(order[p.n].frame)

\* Part p has been written.
IsWritten(p) ==
    /\ p.n \in 1..Len(order) /\ p.lo >= 1 /\ p.lo <= p.hi /\ p.hi <= Total(order[p.n].frame)
    /\ p.n < NextWrite.n \/ (p.n = NextWrite.n /\ p.hi < NextWrite.lo)

TypesInv ==
    /\ dir \in Directions /\ lock \in Threads \cup {Nobody}
    /\ failed \in BOOLEAN /\ shut \in BOOLEAN /\ timeouts \in 0..MaxTimeouts
    /\ writer \in [Threads -> [pc : {"idle", "called", "writing"}, frame : SentFrames \cup {NoFrame},
                               n : Nat, sent : Nat]]
    /\ stream \in Seq([n : Nat, lo : Nat, hi : Nat, fds : Fds])
    /\ order \in Seq([frame : SentFrames, torn : BOOLEAN])
    /\ reader \in [phase : {"header", "payload", "handling", "ended"}, size : Nat, taken : Nat,
                   got : Seq(Parts), fds : Fds]
    /\ handled \in Seq([msg : Names \cup {Foreign}, fds : Fds, mapped : BOOLEAN])

\* One thread writes, the last frame begun; a torn request fails the channel.
WriterInv ==
    /\ \A t \in Threads :
         /\ writer[t].pc = "writing" <=> lock = t
         /\ writer[t].pc = "called" => writer[t].frame \in SentFrames /\ writer[t].sent = 0
         /\ lock = t => /\ writer[t].n = Len(order) /\ order # <<>>
                        /\ order[Len(order)].frame = writer[t].frame /\ ~order[Len(order)].torn
                        /\ writer[t].sent < Total(writer[t].frame)
    /\ Len(order) + Cardinality({u \in Threads : writer[u].pc = "called"}) <= MaxFrames
    /\ TornFrames # {} /\ dir = "requests" => failed

\* The socket holds parts that were written, one behind the other.
StreamInv ==
    /\ Len(stream) <= MaxSegments
    /\ \A i \in 1..Len(stream) :
         /\ IsWritten(stream[i])
         /\ stream[i].fds = IF stream[i].lo = 1 THEN FdsOf(stream[i].n) ELSE <<>>
         /\ i < Len(stream) => Follows(stream[i], stream[i + 1])
         /\ i = Len(stream) => Follows(stream[i], NextWrite)

\* The reader keeps account of bytes and descriptors.
ReaderInv ==
    /\ reader.taken <= reader.size
    /\ Len(reader.fds) <= MaxFds /\ open = Range(reader.fds)
    /\ reader.phase = "ended" => reader.fds = <<>>

\* While the header is read: the last part, whatever came before it.
HeaderInv ==
    reader.phase = "header" =>
      /\ reader.size = HeaderBytes
      /\ reader.got = <<>> => reader.fds = <<>> /\ reader.taken = 0
      /\ reader.got # <<>> =>
           LET p == Last(reader.got) IN
           /\ IsWritten(p) /\ Follows(p, NextRead)
           /\ Len(reader.got) = 1 => reader.taken = p.hi - p.lo + 1 /\ (p.lo = 1 => reader.fds = FdsOf(p.n))
           /\ Len(reader.got) > 1 => p.lo = 1 /\ p.hi < reader.taken

\* A payload that is read from its first byte came with its descriptors.
PayloadInv ==
    reader.phase = "payload" =>
      /\ reader.got = <<>> =>
           /\ reader.taken = 0
           /\ NextRead.lo = HeaderBytes + 1 => reader.fds = FdsOf(NextRead.n)
      /\ Len(reader.got) = 1 =>
           /\ IsWritten(reader.got[1])
           /\ reader.got[1].lo = HeaderBytes + 1 => reader.fds = FdsOf(reader.got[1].n)

\* The frame the reader is at, and no frame up to it was torn.
Current == Len(handled) + 1
NoneTorn == \A n \in 1..Len(order) : order[n].torn => n > Current

\* The next byte to be read is byte b of frame n, or the first one behind it.
NextIs(n, b) ==
    \/ NextRead.n = n /\ NextRead.lo = b
    \/ /\ n \in 1..Len(order) /\ b = Total(order[n].frame) + 1
       /\ NextRead.n = n + 1 /\ NextRead.lo = 1

\* As long as no frame was torn the reader is in step with the writers.
InStepHeader ==
    /\ NextIs(Current, reader.taken + 1)
    /\ reader.got # <<>> =>
         /\ reader.got = << [n |-> Current, lo |-> 1, hi |-> reader.taken] >>
         /\ reader.fds = FdsOf(Current)
InStepPayload ==
    /\ Current \in 1..Len(order)
    /\ reader.size = order[Current].frame.size /\ reader.fds = FdsOf(Current)
    /\ reader.got # <<>> =>
         reader.got = << [n |-> Current, lo |-> HeaderBytes + 1, hi |-> HeaderBytes + reader.taken] >>
    /\ NextIs(Current, HeaderBytes + reader.taken + 1)
InStep ==
    NoneTorn =>
      /\ reader.phase = "header" => InStepHeader
      /\ reader.phase = "payload" => InStepPayload
      /\ reader.phase = "handling" => NextIs(Current, 1)

\* What was handled was sent, up to the first frame that was torn.
HandledInv ==
    \A k \in 1..Len(handled) :
      \/ k < NextWrite.n /\ handled[k].msg = order[k].frame.msg /\ handled[k].fds = FdsOf(k)
      \/ \E n \in 1..Len(order) : order[n].torn /\ n <= k

\* The reader ends for a cause.
CauseInv == reader.phase = "ended" => shut \/ \E n \in 1..Len(order) : order[n].torn

IpcInv ==
    /\ TypesInv /\ WriterInv /\ StreamInv /\ ReaderInv /\ HeaderInv /\ PayloadInv
    /\ InStep /\ HandledInv /\ CauseInv

\* What was handled and was sent has been mapped.
MappedInv == \A k \in 1..Len(handled) : handled[k].msg # Foreign => handled[k].mapped
=============================================================================
