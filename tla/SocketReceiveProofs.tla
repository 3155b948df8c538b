------------------------- MODULE SocketReceiveProofs -------------------------
(***************************************************************************)
(* Proofs about the socket receive backend, for any number of legs, any    *)
(* window, sequence space and gap policy, and whatever the network and the *)
(* caller of start() and stop() do.  SocketInv is inductive; it has two    *)
(* halves.  ControlInv is about start(), stop() and the threads, DataInv   *)
(* about the packets, where the facts of ReorderBufferProofs tell what one *)
(* call of the reorder buffer does to the stream's positions.              *)
(***************************************************************************)
EXTENDS SocketReceive, ReorderBufferProofs, SequenceTheorems, FiniteSetTheorems, TLAPS

\* A leg exists, and the legs are numbered from one.
LEMMA LegsFacts == LegCount \in Nat /\ 1 \in Legs /\ Legs \subseteq Nat
  BY SocketAssumption DEF Legs

\* A media packet carries the wire number of its position.
LEMMA MediaPacketFacts ==
    ASSUME NEW p \in MediaPackets
    PROVE  p.pos \in Positions /\ p.pos \in Nat /\ p.seq = SeqOf(p.pos) /\ p.seq \in WireSeq
           /\ p = MediaPacket(p.pos)
<1>1. PICK pos \in Positions : p = MediaPacket(pos)
  BY DEF MediaPackets
<1>2. pos \in Nat
  BY SocketAssumption DEF Positions
<1> QED
  BY <1>1, <1>2, SeqOfType DEF MediaPacket

\* A backend counter goes up by one and the others stay.
LEMMA CountOne ==
    ASSUME diag \in BackendStats,
           NEW c \in {"datagrams_received", "control_datagrams_ignored", "nonmedia_datagrams_ignored",
                      "packets_rejected", "packets_parsed_ok", "datagrams_dropped"}, Count(c)
    PROVE  /\ diag' \in BackendStats
           /\ c # "packets_parsed_ok" => diag'.packets_parsed_ok = diag.packets_parsed_ok
           /\ c # "datagrams_dropped" => diag'.datagrams_dropped = diag.datagrams_dropped
           /\ c = "datagrams_dropped" => diag'.datagrams_dropped = diag.datagrams_dropped + 1
           /\ diag.packets_parsed_ok \in Nat /\ diag.datagrams_dropped \in Nat
  BY DEF Count, BackendStats

-----------------------------------------------------------------------------
(* The control half.                                                       *)

\* What a receive thread does to its own control state, in the four forms it
\* takes: it goes on, exits because stop() asks it to, exits because its port
\* is closed, or dies of an error.
LEMMA LegControl ==
    ASSUME ControlInv, NEW l \in Legs, leg[l] \notin {"none", "exited"},
           UNCHANGED <<ctlVars, stopping, port_open, down>>,
           \/ /\ \E s \in {"top", "recv", "have"} : leg' = [leg EXCEPT ![l] = s]
              /\ UNCHANGED <<healthy, cause>>
           \/ StopRequested(l) /\ LegExit(l) /\ UNCHANGED <<healthy, cause>>
           \/ ~port_open[l] /\ LegExit(l) /\ MarkUnhealthy /\ UNCHANGED cause
           \/ LegExit(l) /\ MarkUnhealthy /\ cause' = TRUE
    PROVE  ControlInv'
<1>1. ControlTypes /\ Lifecycle /\ HealthIsTrue
  BY DEF ControlInv
<1>2. UNCHANGED <<ctl, k, close_err, starts, stopping, port_open, down>>
  BY DEF ctlVars
<1>3. leg' \in [Legs -> {"none", "top", "recv", "have", "exited"}]
      /\ \A m \in Legs : m # l => leg'[m] = leg[m]
  BY <1>1 DEF ControlTypes, LegExit
<1>4. healthy' \in BOOLEAN /\ cause' \in BOOLEAN
  BY <1>1 DEF ControlTypes, MarkUnhealthy
<1>5. ControlTypes'
  BY <1>1, <1>2, <1>3, <1>4 DEF ControlTypes
<1>6. leg[l] # "none"
  OBVIOUS
<1>7. ctl \notin {"idle", "joined", "queue_closed", "downstream"}
  BY <1>1, <1>6 DEF Lifecycle
<1>8. ctl = "joining" => ~(l < k)
  BY <1>1, <1>6 DEF Lifecycle
<1>9. ~port_open[l] => stopping
  BY <1>1, <1>6 DEF Lifecycle
<1>10. cause => cause'
  OBVIOUS
<1>11. Lifecycle'
  BY <1>1, <1>2, <1>3, <1>7, <1>8, <1>9, <1>10 DEF Lifecycle
<1>12. HealthIsTrue'
  <2>1. CASE /\ \E s \in {"top", "recv", "have"} : leg' = [leg EXCEPT ![l] = s]
             /\ UNCHANGED <<healthy, cause>>
    <3>1. leg'[l] # "exited"
      BY <2>1, <1>1 DEF ControlTypes
    <3> QED
      BY <2>1, <3>1, <1>1, <1>2, <1>3 DEF HealthIsTrue
  <2>2. CASE StopRequested(l) /\ LegExit(l) /\ UNCHANGED <<healthy, cause>>
    BY <2>2, <1>1, <1>2 DEF HealthIsTrue, StopRequested
  <2>3. CASE ~port_open[l] /\ LegExit(l) /\ MarkUnhealthy /\ UNCHANGED cause
    <3>1. stopping /\ ctl # "running"
      BY <2>3, <1>1, <1>9 DEF Lifecycle
    <3>2. healthy' = healthy
      BY <2>3, <3>1, <1>1 DEF MarkUnhealthy, ControlTypes
    <3> QED
      BY <2>3, <3>1, <3>2, <1>1, <1>2 DEF HealthIsTrue
  <2>4. CASE LegExit(l) /\ MarkUnhealthy /\ cause' = TRUE
    <3>1. ctl = "running" => ~healthy'
      BY <2>4, <1>1 DEF Lifecycle, MarkUnhealthy
    <3> QED
      BY <2>4, <3>1, <1>2 DEF HealthIsTrue
  <2> QED
    BY <2>1, <2>2, <2>3, <2>4
<1> QED
  BY <1>5, <1>11, <1>12 DEF ControlInv

\* start() keeps the control half.
LEMMA StartControl ==
    ASSUME ControlInv, StartOk \/ StartFails
    PROVE  ControlInv'
<1>1. ControlTypes /\ Lifecycle /\ HealthIsTrue
  BY DEF ControlInv
<1>2. /\ ctl = "idle" /\ starts < MaxStarts /\ starts' = starts + 1
      /\ stopping' = FALSE /\ UNCHANGED <<k, close_err>> /\ MaxStarts \in Nat
  BY SocketAssumption DEF StartOk, StartFails, StartPrologue
<1>3. starts' \in 0 .. MaxStarts
  BY <1>1, <1>2 DEF ControlTypes
<1>4. CASE StartOk
  <2>1. /\ ctl' = "running" /\ healthy' = TRUE /\ cause' = FALSE
        /\ port_open' = [l \in Legs |-> TRUE] /\ down' = "top" /\ leg' = [l \in Legs |-> "top"]
    BY <1>4 DEF StartOk
  <2>2. ControlTypes'
    BY <2>1, <1>1, <1>2, <1>3 DEF ControlTypes
  <2>3. Lifecycle' /\ HealthIsTrue'
    BY <2>1, <1>2 DEF Lifecycle, HealthIsTrue
  <2> QED
    BY <2>2, <2>3 DEF ControlInv
<1>5. CASE StartFails
  <2>1. /\ healthy' = FALSE /\ cause' = TRUE /\ UNCHANGED <<ctl, port_open, down, leg>>
    BY <1>5 DEF StartFails, Fault
  <2>2. ControlTypes'
    BY <2>1, <1>1, <1>2, <1>3 DEF ControlTypes
  <2>3. Lifecycle' /\ HealthIsTrue'
    BY <2>1, <1>1, <1>2 DEF Lifecycle, HealthIsTrue
  <2> QED
    BY <2>2, <2>3 DEF ControlInv
<1> QED
  BY <1>4, <1>5

\* stop() keeps the control half.
LEMMA StopControl ==
    ASSUME ControlInv, StopBegin \/ StopStep
    PROVE  ControlInv'
<1>1. ControlTypes /\ Lifecycle /\ HealthIsTrue /\ LegCount \in Nat /\ 1 \in Legs /\ Legs \subseteq Nat
  BY LegsFacts DEF ControlInv
<1>2. CASE StopBegin
  <2>1. /\ stopping' = TRUE /\ ctl' = "closing" /\ k' = 1 /\ close_err' = FALSE
        /\ UNCHANGED <<starts, healthy, port_open, leg, down, cause>>
    BY <1>2 DEF StopBegin, legVars, downVars
  <2>2. ControlTypes'
    BY <2>1, <1>1 DEF ControlTypes
  <2>3. Lifecycle' /\ HealthIsTrue'
    BY <2>1, <1>1 DEF Lifecycle, HealthIsTrue
  <2> QED
    BY <2>2, <2>3 DEF ControlInv
<1>3. CASE \E err \in BOOLEAN : ClosePort(err)
  <2>1. PICK err \in BOOLEAN : ClosePort(err)
    BY <1>3
  <2>2. /\ ctl = "closing" /\ k \in Legs
        /\ port_open' = [port_open EXCEPT ![k] = FALSE] /\ close_err' = (close_err \/ err)
        /\ ctl' = IF k = LegCount THEN "joining" ELSE ctl
        /\ k' = IF k = LegCount THEN 1 ELSE k + 1
        /\ UNCHANGED <<starts, stopping, healthy, leg, down>>
        /\ (err => cause') /\ (cause => cause') /\ cause' \in BOOLEAN
    BY <2>1, <1>1 DEF ClosePort, Fault, legVars, downVars, ControlTypes
  <2>3. k' \in Legs
    BY <2>2, <1>1 DEF Legs
  <2>4. ControlTypes'
    BY <2>2, <2>3, <1>1 DEF ControlTypes
  <2>5. \A l \in Legs : leg[l] # "none" /\ ~port_open'[l] => stopping
    BY <1>1, <2>2 DEF Lifecycle
  <2>6. Lifecycle'
    <3>1. ctl' = "joining" => \A l \in Legs : l < k' => leg'[l] = "none"
      BY <2>2, <1>1 DEF Legs
    <3> QED
      BY <2>2, <2>5, <3>1, <1>1 DEF Lifecycle
  <2>7. HealthIsTrue'
    BY <2>2, <1>1 DEF HealthIsTrue
  <2> QED
    BY <2>4, <2>6, <2>7 DEF ControlInv
<1>4. CASE JoinLeg
  <2>1. /\ ctl = "joining" /\ k \in Legs /\ leg' = [leg EXCEPT ![k] = "none"]
        /\ ctl' = IF k = LegCount THEN "joined" ELSE ctl
        /\ k' = IF k = LegCount THEN 1 ELSE k + 1
        /\ UNCHANGED <<close_err, starts, stopping, healthy, port_open, down, cause>>
    BY <1>4 DEF JoinLeg, downVars
  <2>2. k' \in Legs /\ leg' \in [Legs -> {"none", "top", "recv", "have", "exited"}]
    BY <2>1, <1>1 DEF Legs, ControlTypes
  <2>3. ControlTypes'
    BY <2>1, <2>2, <1>1 DEF ControlTypes
  <2>4. \A l \in Legs : leg'[l] = IF l = k THEN "none" ELSE leg[l]
    BY <2>1, <1>1 DEF ControlTypes
  <2>5. \A l \in Legs : l <= k => leg'[l] = "none"
    BY <2>1, <2>4, <1>1 DEF Lifecycle
  <2>6. Lifecycle'
    <3>1. k = LegCount => \A l \in Legs : l <= k
      BY <1>1 DEF Legs
    <3>2. k # LegCount => \A l \in Legs : l < k' => l <= k
      BY <2>1, <1>1 DEF Legs
    <3> QED
      BY <2>1, <2>4, <2>5, <3>1, <3>2, <1>1 DEF Lifecycle
  <2>7. HealthIsTrue'
    BY <2>1, <1>1 DEF HealthIsTrue
  <2> QED
    BY <2>3, <2>6, <2>7 DEF ControlInv
<1>5. CASE CloseQueue \/ RequestDownstreamStop
  <2>1. /\ ctl \in {"joined", "queue_closed"} /\ ctl' \in {"queue_closed", "downstream"}
        /\ UNCHANGED <<k, close_err, starts, stopping, healthy, port_open, leg, down, cause>>
    BY <1>5 DEF CloseQueue, RequestDownstreamStop, legVars, downVars
  <2>2. ControlTypes'
    BY <2>1, <1>1 DEF ControlTypes
  <2>3. Lifecycle' /\ HealthIsTrue'
    BY <2>1, <1>1 DEF Lifecycle, HealthIsTrue
  <2> QED
    BY <2>2, <2>3 DEF ControlInv
<1>6. CASE StopEnd
  <2>1. /\ ctl = "downstream" /\ down \in {"none", "exited"} /\ ctl' = "idle"
        /\ healthy' = (healthy /\ ~close_err) /\ down' = "none"
        /\ UNCHANGED <<k, close_err, starts, stopping, port_open, leg, cause>>
    BY <1>6 DEF StopEnd, DownstreamJoined, legVars
  <2>2. healthy' \in BOOLEAN
    BY <2>1, <1>1 DEF ControlTypes
  <2>3. ControlTypes'
    BY <2>1, <2>2, <1>1 DEF ControlTypes
  <2>4. Lifecycle' /\ HealthIsTrue'
    BY <2>1, <1>1 DEF Lifecycle, HealthIsTrue
  <2> QED
    BY <2>3, <2>4 DEF ControlInv
<1> QED
  BY <1>2, <1>3, <1>4, <1>5, <1>6 DEF StopStep

\* The downstream thread only moves itself.
LEMMA DownControl ==
    ASSUME ControlInv, DownStep
    PROVE  ControlInv'
<1>1. /\ UNCHANGED <<ctl, k, close_err, starts, stopping, healthy, port_open, leg, cause>>
      /\ down # "none" /\ down' \in {"top", "wait", "process", "drain", "policy", "exited"}
  BY DEF DownStep, DownTop, WaitPopEmpty, WaitPop, MergeDuplicate, PushRejected, PushAccepted,
     DrainDeliver, DrainBlocked, DrainFlush, DrainReturn, downFrame, downVars, ctlVars, legVars
<1> QED
  BY <1>1 DEF ControlInv, ControlTypes, Lifecycle, HealthIsTrue

-----------------------------------------------------------------------------
(* The data half.                                                          *)

\* The positions fit into the window's surroundings: near every head the
\* stream can have, no position is ambiguous.
LEMMA PositionsAreNear ==
    ASSUME NEW h \in FirstPosition .. FirstPosition + PositionCount, NEW pos \in Positions
    PROVE  Near(h, pos) /\ pos \in Nat /\ h \in Nat
<1>1. /\ FirstPosition \in Nat /\ PositionCount \in Nat /\ PositionCount <= LateThreshold
      /\ PositionCount < SeqModulus - LateThreshold
  BY SocketAssumption
<1>2. pos \in Int /\ FirstPosition <= pos /\ pos <= FirstPosition + PositionCount - 1
  BY <1>1 DEF Positions
<1> QED
  BY <1>1, <1>2, WindowAssumption DEF Near

\* Two positions with one wire number are the same position.
LEMMA SeqIdentifies ==
    ASSUME NEW a \in Positions, NEW b \in Positions, SeqOf(a) = SeqOf(b)
    PROVE  a = b
<1>1. /\ FirstPosition \in Nat /\ PositionCount \in Nat /\ PositionCount <= LateThreshold
  BY SocketAssumption
<1>2. a \in Nat /\ b \in Nat /\ a - b < SeqModulus /\ b - a < SeqModulus
  BY <1>1, WindowAssumption DEF Positions
<1> QED
  BY <1>2, SameSeqSamePos

\* The positions accepted are finitely many.
LEMMA AcceptedFinite ==
    ASSUME DataInv
    PROVE  IsFiniteSet(accepted) /\ Cardinality(accepted) \in Nat
<1>1. FirstPosition \in Int /\ FirstPosition + PositionCount - 1 \in Int
  BY SocketAssumption
<1>2. IsFiniteSet(Positions)
  BY <1>1, FS_Interval DEF Positions
<1>3. accepted \in SUBSET Positions
  BY DEF DataInv, DataTypes
<1> QED
  BY <1>2, <1>3, FS_Subset, FS_CardinalityType

\* The variables the data half reads, but for those of the receive threads.
LEMMA DataFrame ==
    ASSUME DataInv,
           UNCHANGED <<bufferVars, policy, cur, gap_flush_used, merge_enabled, history, seenVars>>,
           closed' \in BOOLEAN, queue' \in Seq(MediaPackets), diag' \in BackendStats,
           datagram' \in [Legs -> [kind : {"none", "media"} \cup JunkKinds \cup {"malformed"}, pos : Nat]],
           \A l \in Legs : datagram'[l].kind = "media" => datagram'[l].pos \in Positions,
           \/ /\ down' = down
              /\ down # "none" =>
                   diag'.packets_parsed_ok - Len(queue') - diag'.datagrams_dropped
                     = diag.packets_parsed_ok - Len(queue) - diag.datagrams_dropped
           \/ down' = "none"
           \/ down \in {"top", "wait"} /\ down' \in {"wait", "exited"} /\ UNCHANGED <<diag, queue>>
    PROVE  DataInv'
<1>1. /\ UNCHANGED <<packets, next_expected_seq, initialized, stats, policy, cur, gap_flush_used,
                     merge_enabled, history, accepted, merges, delivered, last_pos>>
  BY DEF bufferVars, seenVars
<1>2. DataTypes /\ HeadFollowsStream /\ HistoryAccepted /\ Drained /\ EveryPacketCounted
  BY DEF DataInv
<1>3. DataTypes'
  BY <1>1, <1>2 DEF DataTypes
<1>4. HistoryAccepted'
  BY <1>1, <1>2 DEF HistoryAccepted
<1>5. HeadFollowsStream'
  <2>1. down' # "none" => down # "none"
    OBVIOUS
  <2>2. \A h : HeadAt(h)' <=> HeadAt(h)
    BY <1>1 DEF HeadAt
  <2> QED
    BY <1>1, <1>2, <2>1, <2>2 DEF HeadFollowsStream
<1>6. Drained'
  BY <1>1, <1>2 DEF Drained, HeadStored, HasMarkerBoundaryPacket, FlushThresholdReached
<1>7. EveryPacketCounted'
  <2> DEFINE a == Cardinality(accepted)
  <2> DEFINE n == Len(queue)
  <2> DEFINE m == Len(queue')
  <2> DEFINE busy == IF down = "process" THEN 1 ELSE 0
  <2>1. n \in Nat /\ m \in Nat /\ merges \in Nat /\ a \in Nat /\ busy \in Nat
    BY <1>2, AcceptedFinite DEF DataTypes
  <2>2. /\ diag.packets_parsed_ok \in Nat /\ diag.datagrams_dropped \in Nat
        /\ diag'.packets_parsed_ok \in Nat /\ diag'.datagrams_dropped \in Nat
    BY <1>2 DEF DataTypes, BackendStats
  <2>3. down # "none" => diag.packets_parsed_ok = n + merges + diag.datagrams_dropped + a + busy
    BY <1>2 DEF EveryPacketCounted
  <2>4. Cardinality(accepted') = a /\ merges' = merges
    BY <1>1
  <2>5. CASE /\ down' = down
             /\ down # "none" => diag'.packets_parsed_ok - m - diag'.datagrams_dropped
                                   = diag.packets_parsed_ok - n - diag.datagrams_dropped
    <3> DEFINE p == diag.packets_parsed_ok
    <3> DEFINE q == diag'.packets_parsed_ok
    <3> DEFINE d == diag.datagrams_dropped
    <3> DEFINE e == diag'.datagrams_dropped
    <3>0. p \in Nat /\ q \in Nat /\ d \in Nat /\ e \in Nat
      BY <2>2
    <3> HIDE DEF a, n, m, p, q, d, e, busy
    <3>1. down # "none" => p = n + merges + d + a + busy /\ q - m - e = p - n - d
      BY <2>3, <2>5 DEF a, n, m, p, q, d, e, busy
    <3>2. down # "none" => q = m + merges + e + a + busy
      BY <3>0, <3>1, <2>1
    <3> QED
      BY <3>2, <2>4, <2>5 DEF EveryPacketCounted, a, m, q, e, busy
  <2>6. CASE down' = "none"
    BY <2>6 DEF EveryPacketCounted
  <2>7. CASE down \in {"top", "wait"} /\ down' \in {"wait", "exited"} /\ UNCHANGED <<diag, queue>>
    BY <2>3, <2>4, <2>7 DEF EveryPacketCounted
  <2> QED
    BY <2>5, <2>6, <2>7
<1> QED
  BY <1>3, <1>4, <1>5, <1>6, <1>7 DEF DataInv

\* A leg's step changes the data half only by what it counts and queues.
LEMMA LegData ==
    ASSUME DataInv, NEW l \in Legs, LegStep(l) \/ LegInput(l)
    PROVE  DataInv'
<1>1. UNCHANGED <<bufferVars, policy, cur, gap_flush_used, merge_enabled, history, seenVars, closed, down>>
  BY DEF LegStep, LegInput, LegTop, ReceiveWoken, ProcessDatagram, Arrive, ArriveJunk, ReceiveInterrupted,
     ReceiveFails, legFrame, downVars
<1> DEFINE Datagrams == [kind : {"none", "media"} \cup JunkKinds \cup {"malformed"}, pos : Nat]
<1>2. /\ closed \in BOOLEAN /\ queue \in Seq(MediaPackets) /\ diag \in BackendStats
      /\ datagram \in [Legs -> Datagrams] /\ Len(queue) \in Nat
      /\ \A m \in Legs : datagram[m].kind = "media" => datagram[m].pos \in Positions
  BY DEF DataInv, DataTypes
<1>3. /\ \A kind \in JunkKinds \cup {"none", "malformed"} : Junk(kind) \in Datagrams /\ Junk(kind).kind # "media"
      /\ \A pos \in Positions : Media(pos) \in Datagrams /\ Media(pos).pos = pos
  BY SocketAssumption DEF Junk, Media, Positions
<1>4. ASSUME NEW d, Received(l, d), UNCHANGED queue,
             \/ \E pos \in Positions : d = Media(pos)
             \/ \E kind \in JunkKinds \cup {"none", "malformed"} : d = Junk(kind)
      PROVE  DataInv'
  <2>1. datagram' = [datagram EXCEPT ![l] = d] /\ Count("datagrams_received")
    BY <1>4 DEF Received
  <2>2. d \in Datagrams /\ (d.kind = "media" => d.pos \in Positions)
    BY <1>3, <1>4
  <2>3. /\ datagram' \in [Legs -> Datagrams]
        /\ \A m \in Legs : datagram'[m].kind = "media" => datagram'[m].pos \in Positions
    BY <2>1, <2>2, <1>2
  <2>4. /\ diag' \in BackendStats
        /\ diag'.packets_parsed_ok = diag.packets_parsed_ok
        /\ diag'.datagrams_dropped = diag.datagrams_dropped
    BY <2>1, <1>2, CountOne
  <2> QED
    BY <2>3, <2>4, <1>1, <1>2, <1>4, DataFrame
<1>5. ASSUME UNCHANGED <<diag, queue, datagram>> PROVE DataInv'
  BY <1>1, <1>2, <1>5, DataFrame
<1>6. CASE LegTop(l) \/ ReceiveInterrupted(l) \/ ReceiveFails(l)
  BY <1>5, <1>6 DEF LegTop, ReceiveInterrupted, ReceiveFails
<1>7. CASE ReceiveWoken(l)
  <2>1. \/ Received(l, Junk("malformed")) /\ UNCHANGED queue
        \/ UNCHANGED <<diag, queue, datagram>>
    BY <1>7 DEF ReceiveWoken
  <2> QED
    BY <2>1, <1>4, <1>5
<1>8. CASE \E pos \in Positions : Arrive(l, pos)
  <2>1. PICK pos \in Positions : Received(l, Media(pos)) /\ UNCHANGED queue
    BY <1>8 DEF Arrive
  <2> QED
    BY <2>1, <1>4
<1>9. CASE \E kind \in JunkKinds : ArriveJunk(l, kind)
  <2>1. PICK kind \in JunkKinds : Received(l, Junk(kind)) /\ UNCHANGED queue
    BY <1>9 DEF ArriveJunk
  <2> QED
    BY <2>1, <1>4
<1>10. CASE ProcessDatagram(l)
  <2>1. /\ datagram' = [datagram EXCEPT ![l] = NoDatagram]
        /\ \/ Count("control_datagrams_ignored") /\ UNCHANGED queue
           \/ Count("packets_rejected") /\ UNCHANGED queue
           \/ Count("nonmedia_datagrams_ignored") /\ UNCHANGED queue
           \/ /\ datagram[l].kind = "media"
              /\ queue' = IF closed THEN queue ELSE Append(queue, MediaPacket(datagram[l].pos))
              /\ diag' = [diag EXCEPT !.packets_parsed_ok = @ + 1,
                                      !.datagrams_dropped = IF closed THEN @ + 1 ELSE @]
    BY <1>10 DEF ProcessDatagram
  <2>2. NoDatagram \in Datagrams /\ NoDatagram.kind # "media"
    BY <1>3 DEF NoDatagram
  <2>3. /\ datagram' \in [Legs -> Datagrams]
        /\ \A m \in Legs : datagram'[m].kind = "media" => datagram'[m].pos \in Positions
    BY <2>1, <2>2, <1>2
  <2>4. CASE UNCHANGED queue /\ \/ Count("control_datagrams_ignored") \/ Count("packets_rejected")
                                \/ Count("nonmedia_datagrams_ignored")
    <3>1. /\ diag' \in BackendStats
          /\ diag'.packets_parsed_ok = diag.packets_parsed_ok
          /\ diag'.datagrams_dropped = diag.datagrams_dropped
      BY <2>4, <1>2, CountOne
    <3> QED
      BY <3>1, <2>3, <2>4, <1>1, <1>2, DataFrame
  <2>5. CASE /\ datagram[l].kind = "media"
             /\ queue' = IF closed THEN queue ELSE Append(queue, MediaPacket(datagram[l].pos))
             /\ diag' = [diag EXCEPT !.packets_parsed_ok = @ + 1,
                                     !.datagrams_dropped = IF closed THEN @ + 1 ELSE @]
    <3>1. MediaPacket(datagram[l].pos) \in MediaPackets
      BY <2>5, <1>2 DEF MediaPackets
    <3>2. queue' \in Seq(MediaPackets) /\ Len(queue') = IF closed THEN Len(queue) ELSE Len(queue) + 1
      BY <2>5, <3>1, <1>2, AppendProperties
    <3>3. /\ diag' \in BackendStats
          /\ diag'.packets_parsed_ok = diag.packets_parsed_ok + 1
          /\ diag'.datagrams_dropped = IF closed THEN diag.datagrams_dropped + 1 ELSE diag.datagrams_dropped
          /\ diag.packets_parsed_ok \in Nat /\ diag.datagrams_dropped \in Nat
      <4> DEFINE n == IF closed THEN diag.datagrams_dropped + 1 ELSE diag.datagrams_dropped
      <4> DEFINE m == diag.packets_parsed_ok + 1
      <4>1. diag.packets_parsed_ok \in Nat /\ diag.datagrams_dropped \in Nat /\ n \in Nat /\ m \in Nat
        BY <1>2 DEF BackendStats
      <4>2. diag' = [diag EXCEPT !.packets_parsed_ok = m, !.datagrams_dropped = n]
        BY <2>5
      <4> HIDE DEF n, m
      <4>3. diag' \in BackendStats /\ diag'.packets_parsed_ok = m /\ diag'.datagrams_dropped = n
        BY <4>1, <4>2, <1>2 DEF BackendStats
      <4> QED
        BY <4>1, <4>3 DEF n, m
    <3>4. diag'.packets_parsed_ok - Len(queue') - diag'.datagrams_dropped
            = diag.packets_parsed_ok - Len(queue) - diag.datagrams_dropped
      <4> DEFINE p == diag.packets_parsed_ok
      <4> DEFINE d == diag.datagrams_dropped
      <4> DEFINE n == Len(queue)
      <4> DEFINE q == diag'.packets_parsed_ok
      <4> DEFINE e == diag'.datagrams_dropped
      <4> DEFINE m == Len(queue')
      <4>1. p \in Nat /\ d \in Nat /\ n \in Nat
        BY <3>3, <1>2
      <4>2. q = p + 1 /\ IF closed THEN m = n /\ e = d + 1 ELSE m = n + 1 /\ e = d
        BY <3>2, <3>3
      <4> HIDE DEF p, d, n, q, e, m
      <4>3. q - m - e = p - n - d
        BY <4>1, <4>2
      <4> QED
        BY <4>3 DEF p, d, n, q, e, m
    <3> QED
      BY <3>2, <3>3, <3>4, <2>3, <1>1, <1>2, DataFrame
  <2> QED
    BY <2>1, <2>4, <2>5
<1> QED
  BY <1>6, <1>7, <1>8, <1>9, <1>10 DEF LegStep, LegInput

\* start() and stop() leave a data half that fits a new start.
LEMMA StartStopData ==
    ASSUME SocketInv, StartOk \/ StartFails \/ StopBegin \/ StopStep
    PROVE  DataInv'
<1>1. DataInv /\ DataTypes /\ ControlTypes /\ Lifecycle
  BY DEF SocketInv, DataInv, ControlInv
<1>2. /\ closed \in BOOLEAN /\ queue \in Seq(MediaPackets) /\ diag \in BackendStats
      /\ datagram \in [Legs -> [kind : {"none", "media"} \cup JunkKinds \cup {"malformed"}, pos : Nat]]
      /\ \A m \in Legs : datagram[m].kind = "media" => datagram[m].pos \in Positions
  BY <1>1 DEF DataTypes
<1>3. /\ {} \subseteq MediaPackets /\ <<>> \in Seq(MediaPackets) /\ <<>> \in Seq(WireSeq) /\ Len(<<>>) = 0
      /\ WindowSize \in Nat /\ 0 \in WireSeq /\ ZeroStats \in ReorderBufferStats /\ ZeroDiag \in BackendStats
      /\ {} \subseteq Positions /\ Cardinality({}) = 0
      /\ ZeroDiag.packets_parsed_ok = 0 /\ ZeroDiag.datagrams_dropped = 0
  BY EmptySeq, WindowAssumption, FS_EmptySet DEF WireSeq, ZeroStats, ReorderBufferStats, ZeroDiag, BackendStats
<1>4. CASE StartOk \/ StartFails
  <2>1. /\ packets' = {} /\ next_expected_seq' = 0 /\ initialized' = FALSE /\ stats' = ZeroStats
        /\ diag' = ZeroDiag /\ history' = <<>> /\ accepted' = {} /\ merges' = 0 /\ delivered' = 0 /\ last_pos' = -1
        /\ UNCHANGED <<policy, cur, gap_flush_used, datagram>> /\ ctl = "idle"
    BY <1>4 DEF StartOk, StartFails, StartPrologue, reset, NothingSeen
  <2>2. \/ queue' = <<>> /\ closed' = FALSE /\ down' = "top" /\ merge_enabled' = (LegCount > 1)
        \/ UNCHANGED <<queue, closed, down, merge_enabled>>
    BY <1>4 DEF StartOk, StartFails
  <2>3. down = "none" /\ down' # "process" /\ closed' \in BOOLEAN /\ merge_enabled' \in BOOLEAN
        /\ queue' \in Seq(MediaPackets) /\ down' # "policy"
    <3>1. down = "none" /\ merge_enabled \in BOOLEAN
      BY <1>1, <2>1 DEF Lifecycle, DataTypes
    <3>2. (LegCount > 1) \in BOOLEAN
      OBVIOUS
    <3>3. merge_enabled' \in BOOLEAN
      BY <2>2, <3>1, <3>2
    <3> QED
      BY <1>2, <1>3, <2>2, <3>1, <3>3
  <2>4. DataTypes'
    <3>1. initialized' \in BOOLEAN /\ gap_flush_used' \in BOOLEAN /\ policy' \in GapPolicies
      BY <1>1, <2>1 DEF DataTypes
    <3>2. Len(history') <= WindowSize /\ last_pos' \in Int
      BY <1>3, <2>1
    <3> QED
      BY <1>2, <1>3, <2>1, <2>3, <3>1, <3>2 DEF DataTypes
  <2>5. HeadFollowsStream' /\ HistoryAccepted'
    BY <1>3, <2>1 DEF HeadFollowsStream, HistoryAccepted
  <2>6. Drained' /\ EveryPacketCounted'
    BY <1>3, <2>1, <2>2, <2>3 DEF Drained, EveryPacketCounted
  <2> QED
    BY <2>4, <2>5, <2>6 DEF DataInv
<1>5. CASE StopBegin \/ (\E err \in BOOLEAN : ClosePort(err)) \/ JoinLeg \/ CloseQueue \/ RequestDownstreamStop
  <2>1. /\ UNCHANGED <<bufferVars, policy, cur, gap_flush_used, merge_enabled, history, seenVars, queue, diag,
                       datagram, down>>
        /\ closed' \in BOOLEAN
    BY <1>2, <1>5 DEF StopBegin, ClosePort, JoinLeg, CloseQueue, RequestDownstreamStop, legVars, downVars
  <2> QED
    BY <2>1, <1>1, <1>2, DataFrame
<1>6. CASE StopEnd
  <2>1. /\ packets' = {} /\ next_expected_seq' = 0 /\ initialized' = FALSE /\ stats' = ZeroStats
        /\ history' = <<>> /\ merge_enabled' = FALSE /\ down' = "none"
        /\ UNCHANGED <<policy, cur, gap_flush_used, datagram, queue, closed, diag, accepted, merges,
                       delivered, last_pos>>
    BY <1>6 DEF StopEnd, DownstreamJoined, reset, legVars, seenVars
  <2>2. DataTypes'
    <3>1. initialized' \in BOOLEAN /\ gap_flush_used' \in BOOLEAN /\ policy' \in GapPolicies
          /\ merge_enabled' \in BOOLEAN /\ closed' \in BOOLEAN
      BY <1>1, <2>1 DEF DataTypes
    <3>2. Len(history') <= WindowSize /\ last_pos' \in Int /\ accepted' \subseteq Positions
          /\ merges' \in Nat /\ delivered' \in Nat
      BY <1>1, <1>3, <2>1 DEF DataTypes
    <3> QED
      BY <1>2, <1>3, <2>1, <3>1, <3>2 DEF DataTypes
  <2>3. HeadFollowsStream' /\ HistoryAccepted' /\ Drained' /\ EveryPacketCounted'
    BY <1>3, <2>1 DEF HeadFollowsStream, HistoryAccepted, Drained, EveryPacketCounted
  <2> QED
    BY <2>2, <2>3 DEF DataInv
<1> QED
  BY <1>4, <1>5, <1>6 DEF StopStep

\* Where the head of the buffer is while the downstream thread works.
LEMMA HeadFacts ==
    ASSUME DataInv, initialized
    PROVE  \E h \in FirstPosition .. FirstPosition + PositionCount :
             /\ h \in Nat /\ HeadAt(h) /\ last_pos < h
             /\ \A pos \in accepted : pos < h \/ \E q \in packets : q.pos = pos
             /\ \A p \in MediaPackets : Near(h, p.pos)
<1>1. PICK h \in FirstPosition .. FirstPosition + PositionCount :
        /\ HeadAt(h) /\ last_pos < h
        /\ \A pos \in accepted : pos < h \/ \E q \in packets : q.pos = pos
  BY DEF DataInv, HeadFollowsStream
<1>2. h \in Nat
  BY SocketAssumption
<1>3. \A p \in MediaPackets : Near(h, p.pos)
  BY MediaPacketFacts, PositionsAreNear
<1> QED
  BY <1>1, <1>2, <1>3

\* What remember() makes of the history.
LEMMA RememberKeeps ==
    ASSUME history \in Seq(WireSeq), Len(history) <= WindowSize, NEW seq \in WireSeq, Remember(seq)
    PROVE  /\ history' \in Seq(WireSeq) /\ Len(history') <= WindowSize
           /\ \A i \in 1 .. Len(history') :
                history'[i] = seq \/ \E j \in 1 .. Len(history) : history'[i] = history[j]
<1> DEFINE h == Append(history, seq)
<1>1. /\ h \in Seq(WireSeq) /\ Len(h) = Len(history) + 1 /\ Len(history) \in Nat /\ h # <<>>
      /\ \A i \in 1 .. Len(history) : h[i] = history[i]
      /\ h[Len(history) + 1] = seq
  BY AppendProperties
<1>2. history' = IF Len(h) > WindowSize THEN Tail(h) ELSE h
  BY DEF Remember
<1> HIDE DEF h
<1>3. CASE Len(h) > WindowSize
  <2>1. /\ history' = Tail(h) /\ Tail(h) \in Seq(WireSeq) /\ Len(Tail(h)) = Len(h) - 1
        /\ \A i \in 1 .. Len(Tail(h)) : Tail(h)[i] = h[i + 1]
    BY <1>1, <1>2, <1>3, HeadTailProperties
  <2>2. \A i \in 1 .. Len(Tail(h)) :
          h[i + 1] = seq \/ \E j \in 1 .. Len(history) : h[i + 1] = history[j]
    <3> SUFFICES ASSUME NEW i \in 1 .. Len(Tail(h))
                 PROVE  h[i + 1] = seq \/ \E j \in 1 .. Len(history) : h[i + 1] = history[j]
      OBVIOUS
    <3>1. i + 1 \in 1 .. Len(history) \/ i + 1 = Len(history) + 1
      BY <2>1, <1>1
    <3> QED
      BY <3>1, <1>1
  <2> QED
    BY <2>1, <2>2, <1>1
<1>4. CASE ~(Len(h) > WindowSize)
  <2>1. history' = h /\ Len(h) <= WindowSize
    BY <1>1, <1>2, <1>4, WindowAssumption
  <2>2. \A i \in 1 .. Len(h) : i \in 1 .. Len(history) \/ i = Len(history) + 1
    BY <1>1
  <2> QED
    BY <2>1, <2>2, <1>1
<1> QED
  BY <1>3, <1>4

\* The downstream thread takes a packet off the queue, or leaves.
LEMMA WaitData ==
    ASSUME DataInv, DownTop \/ WaitPopEmpty \/ WaitPop
    PROVE  DataInv'
<1>1. DataTypes /\ HeadFollowsStream /\ HistoryAccepted /\ Drained /\ EveryPacketCounted
  BY DEF DataInv
<1>2. /\ closed \in BOOLEAN /\ queue \in Seq(MediaPackets) /\ diag \in BackendStats /\ Len(queue) \in Nat
      /\ datagram \in [Legs -> [kind : {"none", "media"} \cup JunkKinds \cup {"malformed"}, pos : Nat]]
      /\ \A m \in Legs : datagram[m].kind = "media" => datagram[m].pos \in Positions
  BY <1>1 DEF DataTypes
<1>3. CASE DownTop \/ WaitPopEmpty
  <2>1. /\ UNCHANGED <<bufferVars, policy, cur, gap_flush_used, merge_enabled, history, seenVars, queue, diag,
                       datagram, closed>>
        /\ down \in {"top", "wait"} /\ down' \in {"wait", "exited"}
    BY <1>3 DEF DownTop, WaitPopEmpty, downFrame, legVars
  <2> QED
    BY <2>1, <1>2, DataFrame
<1>4. CASE WaitPop
  <2>1. /\ queue # <<>> /\ cur' = Head(queue) /\ queue' = Tail(queue)
        /\ down = "wait" /\ down' = "process"
        /\ UNCHANGED <<packets, next_expected_seq, initialized, missing_head_accounted, stats, policy,
                       gap_flush_used, merge_enabled, history, accepted, merges, delivered, last_pos, diag,
                       datagram, closed>>
    BY <1>4 DEF WaitPop, downFrame, legVars, bufferVars, seenVars
  <2>2. cur' \in MediaPackets /\ queue' \in Seq(MediaPackets) /\ Len(queue') = Len(queue) - 1
    BY <2>1, <1>2, HeadTailProperties
  <2>3. DataTypes'
    BY <2>1, <2>2, <1>1 DEF DataTypes
  <2>4. \A h : HeadAt(h)' <=> HeadAt(h)
    BY <2>1 DEF HeadAt
  <2>5. HeadFollowsStream' /\ HistoryAccepted'
    BY <2>1, <2>4, <1>1 DEF HeadFollowsStream, HistoryAccepted
  <2>6. Drained'
    BY <2>1, <1>1 DEF Drained, HeadStored, HasMarkerBoundaryPacket, FlushThresholdReached
  <2>7. EveryPacketCounted'
    <3> DEFINE a == Cardinality(accepted)
    <3> DEFINE d == diag.datagrams_dropped
    <3>1. a \in Nat /\ d \in Nat /\ merges \in Nat
      BY <1>1, AcceptedFinite DEF DataTypes, BackendStats
    <3>2. diag.packets_parsed_ok = Len(queue) + merges + d + a
      <4>1. diag.packets_parsed_ok = Len(queue) + merges + d + a + 0
        BY <2>1, <1>1 DEF EveryPacketCounted
      <4> HIDE DEF a, d
      <4> QED
        BY <4>1, <3>1, <1>2
    <3>3. /\ diag'.packets_parsed_ok = diag.packets_parsed_ok /\ merges' = merges
          /\ diag'.datagrams_dropped = d /\ Cardinality(accepted') = a
      BY <2>1
    <3> HIDE DEF a, d
    <3>4. diag'.packets_parsed_ok = Len(queue') + merges' + d + a + 1
      BY <3>1, <3>2, <3>3, <2>2, <1>2
    <3> QED
      BY <3>3, <3>4, <2>1 DEF EveryPacketCounted
  <2> QED
    BY <2>3, <2>5, <2>6, <2>7 DEF DataInv
<1> QED
  BY <1>3, <1>4

\* A packet dropped as a duplicate or refused by the buffer is counted, and
\* leaves the buffer as the last drain left it.
LEMMA RefusedData ==
    ASSUME DataInv, MergeDuplicate \/ PushRejected
    PROVE  DataInv'
<1>1. DataTypes /\ HeadFollowsStream /\ HistoryAccepted /\ Drained /\ EveryPacketCounted
  BY DEF DataInv
<1>2. down = "process" /\ down' = "top" /\ cur \in MediaPackets
      /\ UNCHANGED <<policy, gap_flush_used, merge_enabled, history, accepted, delivered, last_pos, queue,
                     datagram, closed>>
  BY <1>1 DEF MergeDuplicate, PushRejected, downFrame, legVars, seenVars, DataTypes
<1>3. UNCHANGED <<packets, next_expected_seq, initialized>> /\ stats' \in ReorderBufferStats
  <2>1. CASE MergeDuplicate
    BY <2>1, <1>1 DEF MergeDuplicate, bufferVars, DataTypes
  <2>2. CASE PushRejected
    <3>1. push(cur, FALSE) /\ cur.pos \in Nat /\ cur.seq = SeqOf(cur.pos) /\ stats \in ReorderBufferStats
          /\ next_expected_seq \in WireSeq /\ (~initialized => packets = {})
      BY <2>2, <1>1, <1>2, MediaPacketFacts DEF PushRejected, DataTypes, HeadFollowsStream
    <3>2. PICK h \in Nat : initialized => HeadAt(h) /\ Near(h, cur.pos)
      BY <1>2, HeadFacts
    <3> QED
      BY <3>1, <3>2, PushRefused, BufferStatsType
  <2> QED
    BY <2>1, <2>2
<1>4. /\ diag' \in BackendStats /\ merges' \in Nat
      /\ diag'.packets_parsed_ok = diag.packets_parsed_ok
      /\ diag'.datagrams_dropped + merges' = diag.datagrams_dropped + merges + 1
      /\ diag.datagrams_dropped \in Nat /\ diag'.datagrams_dropped \in Nat /\ merges \in Nat
  <2>1. diag \in BackendStats /\ merges \in Nat /\ diag.datagrams_dropped \in Nat
    BY <1>1 DEF DataTypes, BackendStats
  <2>2. CASE MergeDuplicate
    BY <2>1, <2>2 DEF MergeDuplicate
  <2>3. CASE PushRejected
    <3>1. Count("datagrams_dropped") /\ merges' = merges
      BY <2>3 DEF PushRejected, seenVars
    <3>2. diag' \in BackendStats /\ diag'.packets_parsed_ok = diag.packets_parsed_ok
          /\ diag'.datagrams_dropped = diag.datagrams_dropped + 1
      BY <2>1, <3>1, CountOne
    <3> QED
      BY <2>1, <3>1, <3>2
  <2> QED
    BY <2>2, <2>3
<1>5. DataTypes'
  BY <1>1, <1>2, <1>3, <1>4 DEF DataTypes
<1>6. \A h : HeadAt(h)' <=> HeadAt(h)
  BY <1>3 DEF HeadAt
<1>7. HeadFollowsStream' /\ HistoryAccepted'
  BY <1>1, <1>2, <1>3, <1>6 DEF HeadFollowsStream, HistoryAccepted
<1>8. Drained'
  BY <1>1, <1>2, <1>3 DEF Drained, HeadStored, HasMarkerBoundaryPacket, FlushThresholdReached
<1>9. EveryPacketCounted'
  <2> DEFINE a == Cardinality(accepted)
  <2> DEFINE d == diag.datagrams_dropped
  <2> DEFINE e == diag'.datagrams_dropped
  <2> DEFINE n == Len(queue)
  <2>1. a \in Nat /\ n \in Nat
    BY <1>1, AcceptedFinite DEF DataTypes
  <2>2. diag.packets_parsed_ok = n + merges + d + a + 1
    BY <1>1, <1>2 DEF EveryPacketCounted
  <2>3. diag'.packets_parsed_ok = diag.packets_parsed_ok /\ Len(queue') = n /\ Cardinality(accepted') = a
    BY <1>2, <1>4
  <2>4. d \in Nat /\ e \in Nat /\ merges \in Nat /\ merges' \in Nat /\ e + merges' = d + merges + 1
    BY <1>4
  <2> DEFINE p == diag.packets_parsed_ok
  <2> DEFINE q == diag'.packets_parsed_ok
  <2> DEFINE i == merges
  <2> DEFINE j == merges'
  <2>5. q = p /\ p = n + i + d + a + 1 /\ i \in Nat /\ j \in Nat /\ e + j = d + i + 1
    BY <2>2, <2>3, <2>4
  <2> HIDE DEF a, d, e, n, p, q, i, j
  <2>6. q = n + j + e + a + 0
    BY <2>1, <2>4, <2>5
  <2> QED
    BY <2>3, <2>6, <1>2 DEF EveryPacketCounted, e, q, j
<1> QED
  BY <1>5, <1>7, <1>8, <1>9 DEF DataInv

\* The buffer's contents are media packets, told apart by their positions.
LEMMA StoredPackets ==
    ASSUME DataInv
    PROVE  /\ packets \subseteq MediaPackets
           /\ \A p, q \in packets : p.pos = q.pos => p = q
           /\ \A q \in packets : q.pos \in Positions
  BY MediaPacketFacts DEF DataInv, DataTypes

\* An accepted packet is new to the backend, and is remembered.
LEMMA AcceptedData ==
    ASSUME DataInv, PushAccepted
    PROVE  DataInv'
<1>1. DataTypes /\ HeadFollowsStream /\ HistoryAccepted /\ Drained /\ EveryPacketCounted
  BY DEF DataInv
<1>2. /\ down = "process" /\ down' = "drain" /\ cur \in MediaPackets /\ push(cur, TRUE)
      /\ gap_flush_used' = FALSE
      /\ accepted' = accepted \cup {cur.pos}
      /\ (Remember(cur.seq) \/ UNCHANGED history)
      /\ UNCHANGED <<policy, merge_enabled, diag, queue, merges, delivered, last_pos, datagram, closed>>
  BY <1>1 DEF PushAccepted, downFrame, legVars, DataTypes
<1>3. /\ cur.pos \in Positions /\ cur.pos \in Nat /\ cur.seq = SeqOf(cur.pos) /\ cur.seq \in WireSeq
      /\ (~initialized => packets = {} /\ accepted = {} /\ last_pos = -1)
      /\ next_expected_seq \in WireSeq /\ stats \in ReorderBufferStats
  BY <1>1, <1>2, MediaPacketFacts DEF HeadFollowsStream, DataTypes
<1>4. PICK h \in FirstPosition .. FirstPosition + PositionCount :
        /\ h \in Nat
        /\ initialized => /\ HeadAt(h) /\ last_pos < h /\ Near(h, cur.pos)
                          /\ \A pos \in accepted : pos < h \/ \E q \in packets : q.pos = pos
  <2>1. FirstPosition \in FirstPosition .. FirstPosition + PositionCount /\ FirstPosition \in Nat
    BY SocketAssumption
  <2> QED
    BY <1>2, <2>1, HeadFacts
<1>5. /\ initialized' /\ cur \in packets' /\ packets' \subseteq packets \cup {cur}
      /\ \A q \in packets : q.pos # cur.pos
  BY <1>2, <1>3, <1>4, PushStored
<1>6. PICK g \in Nat : /\ HeadAt(g)' /\ g <= cur.pos /\ (IF initialized THEN h <= g ELSE g = cur.pos)
                       /\ \A q \in packets : q \in packets' \/ q.pos < g
  BY <1>2, <1>3, <1>4, PushStored
<1>7. stats' \in ReorderBufferStats
  BY <1>2, <1>3, <1>4, BufferStatsType
<1>8. initialized' \in BOOLEAN /\ next_expected_seq' \in WireSeq
  <2>1. \E ok \in BOOLEAN : initialized' = ok
    BY <1>1, <1>2 DEF push, push_late, push_in_window, push_resync, DataTypes
  <2> QED
    BY <2>1, <1>6, SeqOfType DEF HeadAt
<1>9. cur.pos \notin accepted
  BY <1>3, <1>4, <1>5, <1>6
<1>10. /\ history' \in Seq(WireSeq) /\ Len(history') <= WindowSize
       /\ \A i \in 1 .. Len(history') :
            history'[i] = cur.seq \/ \E j \in 1 .. Len(history) : history'[i] = history[j]
  <2>1. history \in Seq(WireSeq) /\ Len(history) <= WindowSize
    BY <1>1 DEF DataTypes
  <2>2. CASE Remember(cur.seq)
    BY <2>1, <2>2, <1>3, RememberKeeps
  <2>3. CASE UNCHANGED history
    BY <2>1, <2>3
  <2> QED
    BY <1>2, <2>2, <2>3
<1>11. DataTypes'
  <2>1. packets' \subseteq MediaPackets /\ accepted' \subseteq Positions
    BY <1>1, <1>2, <1>3, <1>5 DEF DataTypes
  <2> QED
    BY <2>1, <1>1, <1>2, <1>7, <1>8, <1>10 DEF DataTypes
<1>12. HistoryAccepted'
  <2> SUFFICES ASSUME NEW i \in 1 .. Len(history')
               PROVE  \E pos \in accepted' : history'[i] = SeqOf(pos)
    BY DEF HistoryAccepted
  <2>1. CASE history'[i] = cur.seq
    BY <2>1, <1>2, <1>3
  <2>2. CASE \E j \in 1 .. Len(history) : history'[i] = history[j]
    BY <2>2, <1>1, <1>2 DEF HistoryAccepted
  <2> QED
    BY <2>1, <2>2, <1>10
<1>13. HeadFollowsStream'
  <2>1. g \in FirstPosition .. FirstPosition + PositionCount
    <3>1. CASE initialized
      BY <3>1, <1>3, <1>4, <1>6, SocketAssumption DEF Positions
    <3>2. CASE ~initialized
      BY <3>2, <1>3, <1>6, SocketAssumption DEF Positions
    <3> QED
      BY <3>1, <3>2
  <2>2. last_pos' < g
    <3>1. last_pos \in Int /\ last_pos' = last_pos
      BY <1>1, <1>2 DEF DataTypes
    <3>2. CASE initialized
      BY <3>1, <3>2, <1>4, <1>6
    <3>3. CASE ~initialized
      BY <3>1, <3>3, <1>3, <1>6
    <3> QED
      BY <3>2, <3>3
  <2>3. ASSUME NEW pos \in accepted'
        PROVE  pos < g \/ \E q \in packets' : q.pos = pos
    <3>1. CASE pos = cur.pos
      BY <3>1, <1>5
    <3>2. CASE pos \in accepted
      <4>1. initialized /\ (pos < h \/ \E q \in packets : q.pos = pos)
        BY <3>2, <1>3, <1>4
      <4>2. pos \in Nat
        BY <3>2, <1>1, SocketAssumption DEF DataTypes, Positions
      <4> QED
        BY <4>1, <4>2, <1>4, <1>6
    <3> QED
      BY <3>1, <3>2, <1>2
  <2> QED
    BY <2>1, <2>2, <2>3, <1>5, <1>6 DEF HeadFollowsStream
<1>14. Drained'
  BY <1>2 DEF Drained
<1>15. EveryPacketCounted'
  <2> DEFINE a == Cardinality(accepted)
  <2> DEFINE d == diag.datagrams_dropped
  <2> DEFINE n == Len(queue)
  <2>1. a \in Nat /\ n \in Nat /\ d \in Nat /\ merges \in Nat
    BY <1>1, AcceptedFinite DEF DataTypes, BackendStats
  <2>2. diag.packets_parsed_ok = n + merges + d + a + 1
    BY <1>1, <1>2 DEF EveryPacketCounted
  <2>3. Cardinality(accepted') = a + 1
    BY <1>2, <1>9, AcceptedFinite, FS_AddElement
  <2>4. diag' = diag /\ Len(queue') = n /\ merges' = merges
    BY <1>2
  <2> DEFINE p == diag.packets_parsed_ok
  <2> DEFINE b == Cardinality(accepted')
  <2> DEFINE i == merges
  <2>5. p = n + i + d + a + 1 /\ b = a + 1 /\ i \in Nat
    BY <2>1, <2>2, <2>3
  <2> HIDE DEF a, d, n, p, b, i
  <2>6. p = n + i + d + b + 0
    BY <2>1, <2>5
  <2> QED
    BY <2>4, <2>6, <1>2 DEF EveryPacketCounted, p, n, i, d, b
<1> QED
  BY <1>11, <1>12, <1>13, <1>14, <1>15 DEF DataInv

\* A drain hands out what the head has reached, in order, and ends with
\* nothing held back that the policy lets through.
LEMMA DrainData ==
    ASSUME DataInv, DrainDeliver \/ DrainBlocked \/ DrainFlush \/ DrainReturn
    PROVE  DataInv'
<1>1. DataTypes /\ HeadFollowsStream /\ HistoryAccepted /\ Drained /\ EveryPacketCounted
  BY DEF DataInv
<1>2. /\ down \in {"drain", "policy"} /\ down' \in {"drain", "policy", "top"}
      /\ UNCHANGED <<policy, merge_enabled, diag, queue, datagram, closed, cur, history, accepted, merges>>
      /\ gap_flush_used' \in BOOLEAN
  BY <1>1 DEF DrainDeliver, DrainBlocked, DrainFlush, DrainReturn, downFrame, downVars, legVars, seenVars,
     DataTypes
<1>3. EveryPacketCounted' /\ HistoryAccepted'
  BY <1>1, <1>2 DEF EveryPacketCounted, HistoryAccepted
<1>4. /\ next_expected_seq \in WireSeq /\ stats \in ReorderBufferStats /\ delivered \in Nat /\ last_pos \in Int
      /\ packets \subseteq MediaPackets /\ (~initialized => packets = {} /\ accepted = {} /\ last_pos = -1)
      /\ initialized \in BOOLEAN
  BY <1>1, <1>2 DEF DataTypes, HeadFollowsStream
<1>5. ASSUME next_expected_seq' \in WireSeq, stats' \in ReorderBufferStats, packets' \subseteq MediaPackets,
             initialized' \in BOOLEAN, delivered' \in Nat, last_pos' \in Int
      PROVE  DataTypes'
  BY <1>1, <1>2, <1>5 DEF DataTypes
<1>6. CASE DrainDeliver
  <2>1. PICK p \in packets : pop_next(p) /\ last_pos' = p.pos
    BY <1>6 DEF DrainDeliver
  <2>2. delivered' = delivered + 1 /\ down' = "drain" /\ initialized /\ initialized' = initialized
    BY <1>6, <2>1 DEF DrainDeliver, pop_next, downFrame, downVars
  <2>3. PICK h \in FirstPosition .. FirstPosition + PositionCount :
          /\ h \in Nat /\ HeadAt(h) /\ last_pos < h
          /\ \A pos \in accepted : pos < h \/ \E q \in packets : q.pos = pos
    BY <2>2, HeadFacts
  <2>4. p.pos = h /\ packets' = packets \ {p} /\ HeadAt(h + 1)'
    <3>1. \A q \in packets : q.pos = p.pos => q = p
      BY StoredPackets
    <3> QED
      BY <2>1, <2>3, <3>1, PopAdvances
  <2>5. h + 1 \in FirstPosition .. FirstPosition + PositionCount /\ p.pos \in Nat
    <3>1. h \in Positions
      BY <2>4, StoredPackets
    <3> QED
      BY <2>3, <2>4, <3>1, SocketAssumption DEF Positions
  <2>6. stats' \in ReorderBufferStats
    BY <2>1, <2>2, <2>3, <1>4, BufferStatsType
  <2>7. DataTypes'
    BY <2>1, <2>2, <2>4, <2>5, <2>6, <1>4, <1>5, SeqOfType DEF HeadAt
  <2>8. HeadFollowsStream'
    <3>1. \A pos \in accepted' : pos < h + 1 \/ \E q \in packets' : q.pos = pos
      <4> SUFFICES ASSUME NEW pos \in accepted, ~(pos < h + 1)
                   PROVE  \E q \in packets' : q.pos = pos
        BY <1>2
      <4>1. pos \in Nat
        BY <1>1, SocketAssumption DEF DataTypes, Positions
      <4>2. ~(pos < h) /\ pos # h
        BY <4>1, <2>3
      <4>3. PICK q \in packets : q.pos = pos
        BY <4>2, <2>3
      <4> QED
        BY <4>2, <4>3, <2>4
    <3>2. last_pos' < h + 1
      BY <2>1, <2>3, <2>4
    <3> QED
      BY <2>2, <2>4, <2>5, <3>1, <3>2 DEF HeadFollowsStream
  <2>9. Drained'
    BY <2>2 DEF Drained
  <2> QED
    BY <2>7, <2>8, <2>9, <1>3 DEF DataInv
<1>7. CASE DrainBlocked
  <2>1. /\ UNCHANGED <<packets, next_expected_seq, initialized, delivered, last_pos>>
        /\ ~HeadStored /\ down' = "policy" /\ (pop_next_missing \/ stats' = stats)
    BY <1>7 DEF DrainBlocked, pop_next_missing, bufferVars, seenVars
  <2>2. stats' \in ReorderBufferStats
    BY <2>1, <1>4 DEF pop_next_missing, ReorderBufferStats
  <2>3. DataTypes'
    BY <2>1, <2>2, <1>4, <1>5
  <2>4. \A h : HeadAt(h)' <=> HeadAt(h)
    BY <2>1 DEF HeadAt
  <2>5. HeadFollowsStream'
    BY <2>1, <2>4, <1>1, <1>2 DEF HeadFollowsStream
  <2>6. Drained'
    BY <2>1 DEF Drained, HeadStored
  <2> QED
    BY <2>3, <2>5, <2>6, <1>3 DEF DataInv
<1>8. CASE DrainFlush
  <2>1. /\ flush_missing_once /\ down' = "drain" /\ UNCHANGED <<delivered, last_pos>>
    BY <1>8 DEF DrainFlush, PolicyFlushes, flush_after_n_packets, flush_missing_until_marker_boundary, seenVars
  <2>2. initialized /\ initialized' = initialized
    BY <2>1 DEF flush_missing_once, HeadMissing
  <2>3. PICK h \in FirstPosition .. FirstPosition + PositionCount :
          /\ h \in Nat /\ HeadAt(h) /\ last_pos < h
          /\ \A pos \in accepted : pos < h \/ \E q \in packets : q.pos = pos
    BY <2>2, HeadFacts
  <2>4. packets' = packets /\ packets # {} /\ HeadAt(h + 1)' /\ \A q \in packets : q.pos > h
    BY <2>1, <2>3, FlushAdvances
  <2>5. h + 1 \in FirstPosition .. FirstPosition + PositionCount
    <3>1. PICK q \in packets : q.pos > h /\ q.pos \in Positions
      BY <2>4, StoredPackets
    <3> QED
      BY <2>3, <3>1, SocketAssumption DEF Positions
  <2>6. stats' \in ReorderBufferStats
    BY <2>1, <2>2, <2>3, <1>4, BufferStatsType
  <2>7. DataTypes'
    BY <2>1, <2>2, <2>3, <2>4, <2>6, <1>4, <1>5, SeqOfType DEF HeadAt
  <2>8. HeadFollowsStream'
    <3>1. \A pos \in accepted' : pos < h + 1 \/ \E q \in packets' : q.pos = pos
      <4> SUFFICES ASSUME NEW pos \in accepted
                   PROVE  pos < h + 1 \/ \E q \in packets : q.pos = pos
        BY <1>2, <2>4
      <4>1. pos \in Nat
        BY <1>1, SocketAssumption DEF DataTypes, Positions
      <4> QED
        BY <4>1, <2>3
    <3>2. last_pos' < h + 1
      BY <2>1, <2>3, <1>4
    <3> QED
      BY <2>2, <2>4, <2>5, <3>1, <3>2 DEF HeadFollowsStream
  <2>9. Drained'
    BY <2>1 DEF Drained
  <2> QED
    BY <2>7, <2>8, <2>9, <1>3 DEF DataInv
<1>9. CASE DrainReturn
  <2>1. /\ UNCHANGED <<packets, next_expected_seq, initialized, stats, delivered, last_pos>>
        /\ down = "policy" /\ down' = "top" /\ (~MayFlush \/ PolicyDeclines)
    BY <1>9 DEF DrainReturn, bufferVars, seenVars
  <2>2. DataTypes'
    BY <2>1, <1>4, <1>5
  <2>3. \A h : HeadAt(h)' <=> HeadAt(h)
    BY <2>1 DEF HeadAt
  <2>4. HeadFollowsStream'
    BY <2>1, <2>3, <1>1, <1>2 DEF HeadFollowsStream
  <2>5. ~HeadStored
    BY <2>1, <1>1 DEF Drained
  <2>6. Drained'
    <3> SUFFICES ASSUME initialized
                 PROVE  /\ policy = "FlushOnMarkerBoundary" => ~HasMarkerBoundaryPacket
                        /\ policy = "FlushAfterNPackets" => ~FlushThresholdReached(FlushAfter)
      BY <2>1, <2>5, <1>2 DEF Drained, HeadStored, HasMarkerBoundaryPacket, FlushThresholdReached
    <3>1. ASSUME packets = {}
          PROVE  ~HasMarkerBoundaryPacket /\ ~FlushThresholdReached(FlushAfter)
      <4>1. Cardinality(packets) = 0
        BY <3>1, FS_EmptySet
      <4> QED
        BY <3>1, <4>1, SocketAssumption DEF HasMarkerBoundaryPacket, FlushThresholdReached
    <3>2. CASE ~MayFlush
      BY <3>2 DEF MayFlush, MultipleFlushes
    <3>3. CASE PolicyDeclines
      BY <3>1, <3>3, <2>5 DEF PolicyDeclines, HeadMissing
    <3> QED
      BY <2>1, <3>2, <3>3
  <2> QED
    BY <2>2, <2>4, <2>6, <1>3 DEF DataInv
<1> QED
  BY <1>6, <1>7, <1>8, <1>9

-----------------------------------------------------------------------------
(* The theorems.                                                           *)

\* A new backend satisfies the invariant.
LEMMA InitSocket == Init => SocketInv
<1> SUFFICES ASSUME Init PROVE SocketInv
  OBVIOUS
<1>1. /\ packets = {} /\ next_expected_seq = 0 /\ initialized = FALSE /\ stats = ZeroStats /\ policy \in Policies
      /\ ctl = "idle" /\ k = 1 /\ close_err = FALSE /\ starts = 0
      /\ stopping = FALSE /\ healthy = TRUE /\ diag = ZeroDiag /\ port_open = [l \in Legs |-> FALSE]
      /\ queue = <<>> /\ closed = TRUE /\ leg = [l \in Legs |-> "none"]
      /\ datagram = [l \in Legs |-> NoDatagram] /\ down = "none"
      /\ gap_flush_used = FALSE /\ merge_enabled = FALSE /\ history = <<>>
      /\ accepted = {} /\ merges = 0 /\ delivered = 0 /\ last_pos = -1 /\ cause = FALSE
  BY DEF Init, BufferInit
<1>2. /\ <<>> \in Seq(MediaPackets) /\ <<>> \in Seq(WireSeq) /\ Len(<<>>) = 0
      /\ WindowSize \in Nat /\ 0 \in WireSeq /\ ZeroStats \in ReorderBufferStats /\ ZeroDiag \in BackendStats
      /\ Cardinality({}) = 0 /\ policy \in GapPolicies /\ 0 \in 0 .. MaxStarts /\ 1 \in Legs
      /\ NoDatagram \in [kind : {"none", "media"} \cup JunkKinds \cup {"malformed"}, pos : Nat]
      /\ NoDatagram.kind # "media"
  BY <1>1, EmptySeq, WindowAssumption, SocketAssumption, FS_EmptySet, LegsFacts
     DEF WireSeq, ZeroStats, ReorderBufferStats, ZeroDiag, BackendStats, NoDatagram, Junk
<1>3. ControlTypes /\ Lifecycle /\ HealthIsTrue
  BY <1>1, <1>2 DEF ControlTypes, Lifecycle, HealthIsTrue
<1>4. DataTypes
  <2>1. initialized \in BOOLEAN /\ closed \in BOOLEAN /\ merge_enabled \in BOOLEAN /\ gap_flush_used \in BOOLEAN
    BY <1>1
  <2> QED
    BY <1>1, <1>2, <2>1 DEF DataTypes
<1>5. HeadFollowsStream /\ HistoryAccepted /\ Drained /\ EveryPacketCounted
  BY <1>1, <1>2 DEF HeadFollowsStream, HistoryAccepted, Drained, EveryPacketCounted
<1> QED
  BY <1>3, <1>4, <1>5 DEF SocketInv, ControlInv, DataInv

\* Every step preserves the invariant.
LEMMA SocketStep == SocketInv /\ [Next]_vars => SocketInv'
<1> SUFFICES ASSUME SocketInv, [Next]_vars
             PROVE  SocketInv'
  OBVIOUS
<1>1. ControlInv /\ DataInv
  BY DEF SocketInv
<1>2. CASE StartOk \/ StartFails \/ StopBegin \/ StopStep
  BY <1>1, <1>2, StartControl, StopControl, StartStopData DEF SocketInv
<1>3. ASSUME NEW l \in Legs, LegStep(l) \/ LegInput(l)
      PROVE  SocketInv'
  <2>1. leg[l] \in {"top", "recv", "have"} /\ UNCHANGED <<ctlVars, stopping, port_open, down>>
    BY <1>3 DEF LegStep, LegInput, LegTop, ReceiveWoken, ProcessDatagram, Arrive, ArriveJunk,
       ReceiveInterrupted, ReceiveFails, legFrame, downVars
  <2>2. \/ /\ \E s \in {"top", "recv", "have"} : leg' = [leg EXCEPT ![l] = s]
           /\ UNCHANGED <<healthy, cause>>
        \/ StopRequested(l) /\ LegExit(l) /\ UNCHANGED <<healthy, cause>>
        \/ ~port_open[l] /\ LegExit(l) /\ MarkUnhealthy /\ UNCHANGED cause
        \/ LegExit(l) /\ MarkUnhealthy /\ cause' = TRUE
    BY <1>3 DEF LegStep, LegInput, LegTop, ReceiveWoken, ProcessDatagram, Arrive, ArriveJunk,
       ReceiveInterrupted, ReceiveFails, Received, Fault
  <2>3. ControlInv'
    BY <2>1, <2>2, <1>1, LegControl
  <2> QED
    BY <2>3, <1>1, <1>3, LegData DEF SocketInv
<1>4. CASE DownStep
  BY <1>1, <1>4, DownControl, WaitData, RefusedData, AcceptedData, DrainData DEF SocketInv, DownStep
<1>5. CASE UNCHANGED vars
  <2>1. UNCHANGED <<packets, next_expected_seq, initialized, missing_head_accounted, stats, policy, ctl, k,
                    close_err, starts, stopping, healthy, diag, port_open, queue, closed, leg, datagram, down,
                    cur, gap_flush_used, history, merge_enabled, accepted, merges, delivered, last_pos, cause>>
    BY <1>5 DEF vars, bufferVars, ctlVars, legVars, downVars, seenVars
  <2>2. ControlInv'
    BY <2>1, <1>1 DEF ControlInv, ControlTypes, Lifecycle, HealthIsTrue
  <2>3. DataInv'
    BY <2>1, <1>1 DEF DataInv, DataTypes, HeadFollowsStream, HistoryAccepted, Drained, EveryPacketCounted,
       HeadAt, HeadStored, HasMarkerBoundaryPacket, FlushThresholdReached
  <2> QED
    BY <2>2, <2>3 DEF SocketInv
<1> QED
  BY <1>2, <1>3, <1>4, <1>5 DEF Next

\* The invariant holds in every state of the backend.
THEOREM BackendCorrect == Spec => []SocketInv
  BY InitSocket, SocketStep, PTL DEF Spec

\* Every packet received is queued, in process or counted under one outcome.
THEOREM PacketsAreCounted == Spec => []PacketConservation
<1>1. SocketInv => PacketConservation
  BY DEF SocketInv, ControlInv, DataInv, ControlTypes, DataTypes, PacketConservation, TypeOK
<1> QED
  BY <1>1, BackendCorrect, PTL

\* A drain leaves nothing behind that the gap policy lets through.
THEOREM DrainsAreComplete == Spec => []DrainComplete
<1>1. SocketInv => DrainComplete
  BY DEF SocketInv, DataInv, Drained, DrainComplete
<1> QED
  BY <1>1, BackendCorrect, PTL

\* healthy() is false only after a failure, and shows a dead receive thread.
THEOREM HealthTellsTheTruth == Spec => []HealthIsTrue
<1>1. SocketInv => HealthIsTrue
  BY DEF SocketInv, ControlInv
<1> QED
  BY <1>1, BackendCorrect, PTL

\* After stop() has returned nothing reaches the sink.
THEOREM SinkIsQuietAfterStop == Spec => SinkQuietAfterStop
<1>1. SocketInv /\ [Next]_vars => [delivered' > delivered => ctl # "idle"]_vars
  <2> SUFFICES ASSUME SocketInv, Next, delivered' > delivered, ctl = "idle"
               PROVE  FALSE
    OBVIOUS
  <2>1. down = "none" /\ delivered \in Nat
    BY DEF SocketInv, ControlInv, Lifecycle, DataInv, DataTypes
  <2>2. ~DownStep
    BY <2>1 DEF DownStep, DownTop, WaitPopEmpty, WaitPop, MergeDuplicate, PushRejected, PushAccepted,
       DrainDeliver, DrainBlocked, DrainFlush, DrainReturn
  <2>3. CASE StartOk \/ StartFails
    BY <2>1, <2>3 DEF StartOk, StartFails, StartPrologue, NothingSeen
  <2>4. CASE StopBegin \/ StopStep
    BY <2>1, <2>4 DEF StopBegin, StopStep, ClosePort, JoinLeg, CloseQueue, RequestDownstreamStop, StopEnd, seenVars
  <2>5. CASE \E l \in Legs : LegStep(l) \/ LegInput(l)
    BY <2>1, <2>5 DEF LegStep, LegInput, LegTop, ReceiveWoken, ProcessDatagram, Arrive, ArriveJunk,
       ReceiveInterrupted, ReceiveFails, legFrame, seenVars
  <2> QED
    BY <2>2, <2>3, <2>4, <2>5 DEF Next
<1> QED
  BY <1>1, BackendCorrect, PTL DEF Spec, SinkQuietAfterStop

\* A packet dropped as a duplicate is one the buffer has accepted before, and
\* the sink sees each position at most once and in order.
THEOREM MergingLosesNothing == Spec => MergeNeverLoses
<1>1. SocketInv /\ [Next]_vars
        => [/\ merges' > merges => cur.pos \in accepted
            /\ delivered' = delivered + 1 => last_pos' > last_pos]_vars
  <2> SUFFICES ASSUME SocketInv, Next
               PROVE  /\ merges' > merges => cur.pos \in accepted
                      /\ delivered' = delivered + 1 => last_pos' > last_pos
    OBVIOUS
  <2>1. DataInv /\ DataTypes /\ delivered \in Nat /\ merges \in Nat
    BY DEF SocketInv, DataInv, DataTypes
  <2>2. CASE StartOk \/ StartFails
    BY <2>1, <2>2 DEF StartOk, StartFails, StartPrologue, NothingSeen
  <2>3. CASE StopBegin \/ StopStep
    BY <2>1, <2>3 DEF StopBegin, StopStep, ClosePort, JoinLeg, CloseQueue, RequestDownstreamStop, StopEnd, seenVars
  <2>4. CASE \E l \in Legs : LegStep(l) \/ LegInput(l)
    BY <2>1, <2>4 DEF LegStep, LegInput, LegTop, ReceiveWoken, ProcessDatagram, Arrive, ArriveJunk,
       ReceiveInterrupted, ReceiveFails, legFrame, seenVars
  <2>5. CASE MergeDuplicate
    <3>1. PICK i \in 1 .. Len(history) : history[i] = cur.seq
      BY <2>5 DEF MergeDuplicate, HistoryContains
    <3>2. PICK pos \in accepted : history[i] = SeqOf(pos)
      BY <2>1, <3>1 DEF DataInv, HistoryAccepted
    <3>3. cur \in MediaPackets /\ pos \in Positions
      BY <2>1, <2>5, <3>2 DEF MergeDuplicate, DataTypes
    <3>4. cur.pos = pos
      BY <3>1, <3>2, <3>3, MediaPacketFacts, SeqIdentifies
    <3> QED
      BY <2>1, <2>5, <3>2, <3>4 DEF MergeDuplicate
  <2>6. CASE DrainDeliver
    <3>1. PICK p \in packets : pop_next(p) /\ last_pos' = p.pos
      BY <2>6 DEF DrainDeliver
    <3>2. PICK h \in Nat : HeadAt(h) /\ last_pos < h
      BY <2>1, <3>1, HeadFacts DEF pop_next
    <3>3. p.pos = h
      BY <2>1, <3>1, <3>2, StoredPackets, PopAdvances
    <3> QED
      BY <2>1, <2>6, <3>1, <3>2, <3>3 DEF DrainDeliver, DataTypes
  <2>7. CASE DownTop \/ WaitPopEmpty \/ WaitPop \/ PushRejected \/ PushAccepted \/ DrainBlocked \/ DrainFlush
             \/ DrainReturn
    <3>1. merges' = merges
      BY <2>7 DEF DownTop, WaitPopEmpty, WaitPop, PushRejected, PushAccepted, DrainBlocked, DrainFlush,
         DrainReturn, seenVars
    <3>2. delivered' = delivered
      BY <2>7 DEF DownTop, WaitPopEmpty, WaitPop, PushRejected, PushAccepted, DrainBlocked, DrainFlush,
         DrainReturn, seenVars
    <3> QED
      BY <2>1, <3>1, <3>2
  <2> QED
    BY <2>2, <2>3, <2>4, <2>5, <2>6, <2>7 DEF Next, DownStep
<1> QED
  BY <1>1, BackendCorrect, PTL DEF Spec, MergeNeverLoses

-----------------------------------------------------------------------------
(* Redundant legs merge without a hole.                                    *)

\* A head the stream can have is a position, and the buffer has one head.
LEMMA HeadsFacts ==
    ASSUME NEW h \in Heads
    PROVE  /\ h \in Nat /\ FirstPosition \in Heads /\ FirstPosition \in Nat /\ FirstPosition <= h
           /\ \A p \in MediaPackets : Near(h, p.pos)
           /\ \A g \in Heads : HeadAt(h) /\ HeadAt(g) => g = h
<1>1. /\ FirstPosition \in Nat /\ PositionCount \in Nat /\ PositionCount <= LateThreshold
      /\ LateThreshold \in Nat /\ SeqModulus \in Nat /\ LateThreshold < SeqModulus
  BY SocketAssumption, WindowAssumption
<1>2. h \in Nat /\ FirstPosition <= h /\ h <= FirstPosition + PositionCount
  BY <1>1 DEF Heads
<1>3. FirstPosition \in Heads
  BY <1>1 DEF Heads
<1>4. \A p \in MediaPackets : Near(h, p.pos)
  BY MediaPacketFacts, PositionsAreNear DEF Heads
<1>5. ASSUME NEW g \in Heads, HeadAt(h), HeadAt(g)
      PROVE  g = h
  <2>1. g \in Nat /\ FirstPosition <= g /\ g <= FirstPosition + PositionCount
    BY <1>1 DEF Heads
  <2>2. SeqOf(g) = SeqOf(h)
    BY <1>5 DEF HeadAt
  <2>3. g - h < SeqModulus /\ h - g < SeqModulus
    BY <1>1, <1>2, <2>1
  <2> QED
    BY <1>2, <2>1, <2>2, <2>3, SameSeqSamePos
<1> QED
  BY <1>1, <1>2, <1>3, <1>4, <1>5

\* What the legs have carried stays true when the network and the datagrams
\* are left alone, or a leg takes up or gives up one that is no media packet.
LEMMA CarryFrame ==
    ASSUME LegsCarry, UNCHANGED <<cursor, lost, policy>>,
           starts' = 0 => starts = 0 /\ ctl' = ctl,
           \A l \in Legs : InHand(l)' => InHand(l) /\ leg'[l] = leg[l],
           closed' => (\A l \in Legs : leg'[l] = "none") \/ (closed /\ UNCHANGED leg)
    PROVE  LegsCarry'
  BY DEF LegsCarry

\* The same for where the packets are, when the buffer takes, holds or passes
\* at least the positions it had.
LEMMA StreamFrame ==
    ASSUME NEW h, NEW g, CarriedArrives(h), NothingOvertaken(h), UNCHANGED <<cursor, lost, queue>>,
           \A l \in Legs : InHand(l)' <=> InHand(l),
           \A l \in Legs : InHand(l) => datagram'[l] = datagram[l],
           \A p \in Nat : Reached(h, p) => Reached(g, p)',
           down' = "process" =>
               /\ down = "process" /\ cur' = cur
               /\ \A p \in Nat : Taken(h, p) => Taken(g, p)'
    PROVE  CarriedArrives(g)' /\ NothingOvertaken(g)'
<1>1. FirstPosition \in Nat /\ Skew \in Nat
  BY SocketAssumption
<1>2. \A p : Queued(p)' <=> Queued(p)
  BY DEF Queued
<1>3. \A n : FirstPosition .. n \subseteq Nat
  BY <1>1
<1>4. CarriedArrives(g)'
  <2> SUFFICES ASSUME NEW l \in Legs, NEW p \in FirstPosition .. cursor[l] - 1
               PROVE  p \in lost[l] \/ Reached(g, p)' \/ Queued(p)'
                      \/ (InHand(l)' /\ datagram'[l].pos = p /\ cursor[l] = p + 1)
    BY DEF CarriedArrives
  <2>1. p \in lost[l] \/ Reached(h, p) \/ Queued(p) \/ (InHand(l) /\ datagram[l].pos = p /\ cursor[l] = p + 1)
    BY DEF CarriedArrives
  <2> QED
    BY <2>1, <1>2, <1>3
<1>5. \A l \in Legs : InHand(l)' => \A p \in Earlier(datagram'[l].pos) : Reached(g, p)' \/ Queued(p)'
  <2> SUFFICES ASSUME NEW l \in Legs, InHand(l), NEW p \in Earlier(datagram[l].pos)
               PROVE  Reached(g, p)' \/ Queued(p)'
    OBVIOUS
  <2>1. Reached(h, p) \/ Queued(p)
    BY DEF NothingOvertaken
  <2>2. p \in Nat
    BY <1>3 DEF Earlier
  <2> QED
    BY <2>1, <2>2, <1>2
<1>6. \A i \in 1 .. Len(queue') : \A p \in Earlier(queue'[i].pos) :
        Reached(g, p)' \/ \E j \in 1 .. i - 1 : queue'[j].pos = p
  <2> SUFFICES ASSUME NEW i \in 1 .. Len(queue), NEW p \in Earlier(queue[i].pos)
               PROVE  Reached(g, p)' \/ \E j \in 1 .. i - 1 : queue[j].pos = p
    OBVIOUS
  <2>1. Reached(h, p) \/ \E j \in 1 .. i - 1 : queue[j].pos = p
    BY DEF NothingOvertaken
  <2>2. p \in Nat
    BY <1>3 DEF Earlier
  <2> QED
    BY <2>1, <2>2
<1>7. down' = "process" => \A p \in Earlier(cur'.pos) : Taken(g, p)'
  <2> SUFFICES ASSUME down' = "process", NEW p \in Earlier(cur.pos)
               PROVE  Taken(g, p)'
    OBVIOUS
  <2>1. Taken(h, p)
    BY DEF NothingOvertaken
  <2>2. p \in Nat
    BY <1>3 DEF Earlier
  <2> QED
    BY <2>1, <2>2
<1>8. NothingOvertaken(g)'
  BY <1>5, <1>6, <1>7 DEF NothingOvertaken
<1> QED
  BY <1>4, <1>8

\* The whole invariant, when the buffer and the downstream thread stay as
\* they are too, or the thread is gone, or idle and leaves or goes on.
LEMMA SeamlessFrame ==
    ASSUME SeamlessInv, LegsCarry', UNCHANGED <<cursor, lost, queue>>,
           \A l \in Legs : InHand(l)' <=> InHand(l),
           \A l \in Legs : InHand(l) => datagram'[l] = datagram[l],
           \/ down' = "none"
           \/ /\ UNCHANGED <<packets, next_expected_seq, initialized, delivered, last_pos>>
              /\ \/ down' = down /\ cur' = cur
                 \/ down \notin {"none", "process"} /\ down' # "process"
    PROVE  SeamlessInv'
<1>1. CASE down' = "none"
  BY <1>1 DEF SeamlessInv
<1>2. CASE down' # "none"
  <2>1. /\ UNCHANGED <<packets, next_expected_seq, initialized, delivered, last_pos>> /\ down # "none"
        /\ \/ down' = down /\ cur' = cur
           \/ down # "process" /\ down' # "process"
    BY <1>2
  <2>2. PICK h \in Heads : HeadIsNext(h) /\ CarriedArrives(h) /\ NothingOvertaken(h)
    BY <2>1 DEF SeamlessInv
  <2>3. HeadIsNext(h)'
    BY <2>1, <2>2 DEF HeadIsNext, HeadAt
  <2>4. \A p : Taken(h, p)' <=> Taken(h, p)
    BY <2>1 DEF Taken
  <2>5. \A p : Reached(h, p) => Reached(h, p)'
    BY <2>1, <2>4 DEF Reached
  <2>6. CarriedArrives(h)' /\ NothingOvertaken(h)'
    BY <2>1, <2>2, <2>4, <2>5, StreamFrame
  <2> QED
    BY <2>2, <2>3, <2>6 DEF SeamlessInv
<1> QED
  BY <1>1, <1>2

\* A new backend's legs have carried nothing.
LEMMA InitSeamless ==
    ASSUME RedundantStream
    PROVE  Init => SeamlessInv
<1> SUFFICES ASSUME Init PROVE SeamlessInv
  OBVIOUS
<1>1. /\ policy \in Policies /\ down = "none" /\ starts = 0 /\ ctl = "idle" /\ leg = [l \in Legs |-> "none"]
      /\ datagram = [l \in Legs |-> NoDatagram]
      /\ cursor = [l \in Legs |-> FirstPosition] /\ lost = [l \in Legs |-> {}]
  BY DEF Init
<1>2. policy = "WaitForMissing" /\ FirstPosition \in Nat /\ \A l \in Legs : ~InHand(l)
  BY <1>1, SocketAssumption DEF RedundantStream, InHand, NoDatagram, Junk
<1> QED
  BY <1>1, <1>2 DEF SeamlessInv, LegsCarry

\* start() and stop() change nothing a packet could be in, but take the
\* downstream thread away or set it to work on an empty buffer.
LEMMA StartStopSeamless ==
    ASSUME RedundantStream, SocketInv, SeamlessInv, StartOk \/ StartFails \/ StopBegin \/ StopStep
    PROVE  SeamlessInv'
<1>1. /\ ControlTypes /\ Lifecycle /\ LegsCarry /\ starts \in Nat /\ MaxStarts \in Nat /\ MaxStarts <= 1
  BY SocketAssumption DEF SocketInv, ControlInv, ControlTypes, SeamlessInv, RedundantStream
<1>2. ctl = "idle" => \A l \in Legs : leg[l] = "none" /\ ~InHand(l)
  BY <1>1 DEF Lifecycle, LegsCarry
<1>3. CASE StartOk
  <2>1. /\ ctl = "idle" /\ starts < MaxStarts /\ starts' = starts + 1
        /\ initialized' = FALSE /\ packets' = {} /\ delivered' = 0
        /\ closed' = FALSE /\ queue' = <<>> /\ down' = "top"
        /\ UNCHANGED <<policy, cursor, lost, datagram>>
    BY <1>3 DEF StartOk, StartPrologue, reset, NothingSeen, netVars
  <2>2. \A l \in Legs : ~InHand(l)'
    BY <2>1, <1>2 DEF InHand
  <2>3. starts = 0 /\ starts' # 0
    BY <2>1, <1>1
  <2>4. LegsCarry'
    BY <1>1, <2>1, <2>2, <2>3 DEF LegsCarry
  <2>5. HeadIsNext(FirstPosition)'
    BY <2>1 DEF HeadIsNext
  <2>6. \A l \in Legs : cursor'[l] = FirstPosition
    BY <1>1, <2>1, <2>3 DEF LegsCarry
  <2>7. FirstPosition \in Nat /\ FirstPosition .. FirstPosition - 1 = {} /\ Len(<<>>) = 0 /\ 1 .. 0 = {}
    BY SocketAssumption
  <2>8. CarriedArrives(FirstPosition)'
    BY <2>6, <2>7 DEF CarriedArrives
  <2>9. NothingOvertaken(FirstPosition)'
    BY <2>1, <2>2, <2>7 DEF NothingOvertaken
  <2>10. FirstPosition \in Heads
    BY SocketAssumption DEF Heads
  <2> QED
    BY <2>4, <2>5, <2>8, <2>9, <2>10 DEF SeamlessInv
<1>4. CASE StartFails
  <2>1. /\ ctl = "idle" /\ starts' = starts + 1
        /\ UNCHANGED <<policy, cursor, lost, datagram, queue, closed, down, leg>>
    BY <1>4 DEF StartFails, StartPrologue, netVars
  <2>2. down' = "none" /\ starts' # 0
    BY <2>1, <1>1 DEF Lifecycle
  <2>3. LegsCarry'
    BY <1>1, <2>1, <2>2, CarryFrame DEF InHand
  <2> QED
    BY <2>2, <2>3 DEF SeamlessInv
<1>5. CASE StopBegin \/ StopStep
  <2>1. /\ UNCHANGED <<policy, cursor, lost, datagram, queue, starts>>
        /\ starts = 0 => ctl' = ctl
    <3>1. starts = 0 => ctl = "idle"
      BY <1>1 DEF LegsCarry
    <3>2. CASE StopBegin
      BY <3>2 DEF StopBegin, netVars, legVars
    <3>3. CASE StopStep
      <4>1. ctl # "idle"
        BY <3>3 DEF StopStep, ClosePort, JoinLeg, CloseQueue, RequestDownstreamStop, StopEnd
      <4> QED
        BY <3>1, <3>3, <4>1 DEF StopStep, ClosePort, JoinLeg, CloseQueue, RequestDownstreamStop, StopEnd,
           netVars, legVars
    <3> QED
      BY <1>5, <3>2, <3>3
  <2>2. \A l \in Legs : InHand(l)' => InHand(l)
    BY <2>1 DEF InHand
  <2>3. \/ UNCHANGED leg
        \/ JoinLeg /\ \A l \in Legs : leg'[l] = IF l = k THEN "none" ELSE leg[l]
    BY <1>1, <1>5 DEF StopBegin, StopStep, ClosePort, JoinLeg, CloseQueue, RequestDownstreamStop, StopEnd,
       legVars, ControlTypes
  <2>4. \A l \in Legs : InHand(l) => leg'[l] = leg[l]
    <3>1. JoinLeg => leg[k] # "have"
      BY DEF JoinLeg
    <3> QED
      BY <2>3, <3>1, <1>1 DEF LegsCarry
  <2>5. closed' => \A l \in Legs : leg'[l] = "none"
    <3>1. CASE CloseQueue
      BY <3>1, <1>1 DEF CloseQueue, Lifecycle, legVars
    <3>2. CASE ~CloseQueue
      <4>1. closed' = closed
        BY <3>2, <1>5 DEF StopBegin, StopStep, ClosePort, JoinLeg, RequestDownstreamStop, StopEnd
      <4> QED
        BY <4>1, <2>3, <1>1 DEF LegsCarry
    <3> QED
      BY <3>1, <3>2
  <2>6. LegsCarry'
    BY <1>1, <2>1, <2>2, <2>4, <2>5, CarryFrame
  <2>7. \/ down' = "none"
        \/ /\ UNCHANGED <<packets, next_expected_seq, initialized, delivered, last_pos>>
           /\ down' = down /\ cur' = cur
    BY <1>5 DEF StopBegin, StopStep, ClosePort, JoinLeg, CloseQueue, RequestDownstreamStop, StopEnd,
       DownstreamJoined, bufferVars, seenVars, downVars
  <2>8. \A l \in Legs : InHand(l)' <=> InHand(l)
    BY <2>1 DEF InHand
  <2> QED
    BY <2>1, <2>6, <2>7, <2>8, SeamlessFrame
<1> QED
  BY <1>3, <1>4, <1>5

\* A leg that takes up no media packet and has none in hand.
LEMMA LegIdleSeamless ==
    ASSUME SocketInv, SeamlessInv, NEW l \in Legs,
           \/ LegTop(l) \/ ReceiveWoken(l) \/ ReceiveInterrupted(l) \/ ReceiveFails(l)
           \/ \E kind \in JunkKinds : ArriveJunk(l, kind)
           \/ ProcessDatagram(l) /\ ~InHand(l)
    PROVE  SeamlessInv'
<1>1. LegsCarry /\ ControlTypes /\ DataTypes
  BY DEF SocketInv, ControlInv, DataInv, SeamlessInv
<1>2. /\ UNCHANGED <<policy, cursor, lost, starts, ctl, closed, packets, next_expected_seq, initialized,
                     delivered, last_pos, down, cur>>
      /\ leg[l] \in {"top", "recv", "have"}
  BY DEF LegTop, ReceiveWoken, ReceiveInterrupted, ReceiveFails, ArriveJunk, ProcessDatagram, legFrame,
     netVars, ctlVars, bufferVars, seenVars, downVars
<1>3. \A m \in Legs : m # l => leg'[m] = leg[m] /\ datagram'[m] = datagram[m]
  BY <1>1 DEF LegTop, ReceiveWoken, ReceiveInterrupted, ReceiveFails, ArriveJunk, ProcessDatagram, LegExit,
     Received, ControlTypes, DataTypes
<1>4. ~InHand(l)
  BY <1>1 DEF LegTop, ReceiveWoken, ReceiveInterrupted, ReceiveFails, ArriveJunk, LegsCarry
<1>5. datagram \in [Legs -> [kind : {"none", "media"} \cup JunkKinds \cup {"malformed"}, pos : Nat]]
  BY <1>1 DEF DataTypes
<1>6. ~InHand(l)'
  <2>1. ASSUME NEW d, d.kind # "media", datagram' = [datagram EXCEPT ![l] = d]
        PROVE  ~InHand(l)'
    BY <1>5, <2>1 DEF InHand
  <2>2. CASE LegTop(l) \/ ReceiveInterrupted(l) \/ ReceiveFails(l)
    BY <1>4, <2>2 DEF LegTop, ReceiveInterrupted, ReceiveFails, InHand
  <2>3. CASE ReceiveWoken(l)
    BY <1>4, <2>1, <2>3 DEF ReceiveWoken, Received, Junk, InHand
  <2>4. CASE \E kind \in JunkKinds : ArriveJunk(l, kind)
    BY <2>1, <2>4, SocketAssumption DEF ArriveJunk, Received, Junk
  <2>5. CASE ProcessDatagram(l)
    BY <2>1, <2>5 DEF ProcessDatagram, NoDatagram, Junk
  <2> QED
    BY <2>2, <2>3, <2>4, <2>5
<1>7. queue' = queue
  BY <1>4 DEF LegTop, ReceiveWoken, ReceiveInterrupted, ReceiveFails, ArriveJunk, ProcessDatagram, InHand
<1>8. \A m \in Legs : /\ InHand(m)' <=> InHand(m)
                      /\ InHand(m) => datagram'[m] = datagram[m] /\ leg'[m] = leg[m]
  BY <1>3, <1>4, <1>6 DEF InHand
<1>9. ~closed
  BY <1>1, <1>2 DEF LegsCarry
<1>10. LegsCarry'
  BY <1>1, <1>2, <1>8, <1>9, CarryFrame
<1> QED
  BY <1>2, <1>7, <1>8, <1>10, SeamlessFrame

\* A media packet arrives.  What is more than the skew before it another leg
\* has carried, or lost and this leg has carried before.
LEMMA ArriveSeamless ==
    ASSUME RedundantStream, SocketInv, SeamlessInv, NEW l \in Legs, NEW pos \in Positions, Arrive(l, pos)
    PROVE  SeamlessInv'
<1>1. /\ LegsCarry /\ ControlTypes /\ DataTypes /\ Lifecycle /\ FirstPosition \in Nat /\ Skew \in Nat /\ pos \in Nat
      /\ LegCount \in Nat /\ LegCount >= 2
  BY SocketAssumption DEF SocketInv, ControlInv, DataInv, SeamlessInv, RedundantStream, Positions
<1>2. /\ UNCHANGED <<policy, starts, ctl, closed, packets, next_expected_seq, initialized, delivered, last_pos,
                     down, cur, queue>>
      /\ leg[l] = "recv" /\ Carries(l, pos) /\ Received(l, Media(pos))
      /\ cursor' = [cursor EXCEPT ![l] = IF pos < @ THEN @ ELSE pos + 1]
      /\ lost' = [lost EXCEPT ![l] = @ \cup (cursor[l] .. pos - 1)]
  BY DEF Arrive, legFrame, ctlVars, bufferVars, seenVars, downVars
<1>3. /\ ~InHand(l) /\ InHand(l)' /\ leg'[l] = "have" /\ datagram'[l].pos = pos
      /\ \A m \in Legs : m # l => leg'[m] = leg[m] /\ datagram'[m] = datagram[m]
                                  /\ cursor'[m] = cursor[m] /\ lost'[m] = lost[m]
                                  /\ (InHand(m)' <=> InHand(m))
  BY <1>1, <1>2 DEF Received, Media, InHand, ControlTypes, DataTypes, LegsCarry
<1>4. /\ cursor'[l] = IF pos < cursor[l] THEN cursor[l] ELSE pos + 1
      /\ lost'[l] = lost[l] \cup (cursor[l] .. pos - 1)
      /\ cursor[l] \in Nat /\ cursor[l] >= FirstPosition /\ cursor' \in [Legs -> Nat]
      /\ lost[l] \subseteq Nat
  BY <1>1, <1>2 DEF LegsCarry
<1>5. \A m \in Legs \ {l} : pos - cursor[m] < Skew /\ (cursor[l] .. pos - 1) \cap lost[m] = {}
  BY <1>2 DEF Carries, RedundantStream
<1>6. LegsCarry'
  <2>1. cursor' \in [Legs -> Nat] /\ lost' \in [Legs -> SUBSET Nat]
    BY <1>1, <1>2, <1>4 DEF LegsCarry
  <2>2. cursor'[l] >= FirstPosition /\ \A p \in lost'[l] : p < cursor'[l]
    BY <1>1, <1>4 DEF LegsCarry
  <2>3. \A m \in Legs : /\ cursor'[m] >= FirstPosition
                        /\ \A p \in lost'[m] : p < cursor'[m]
                        /\ InHand(m)' => leg'[m] = "have"
    BY <1>1, <1>3, <2>2 DEF LegsCarry
  <2>4. \A m, n \in Legs : m # n => lost'[m] \cap lost'[n] = {}
    <3> SUFFICES ASSUME NEW m \in Legs, NEW n \in Legs, m # n PROVE lost'[m] \cap lost'[n] = {}
      OBVIOUS
    <3>1. lost[m] \cap lost[n] = {}
      BY <1>1 DEF LegsCarry
    <3>2. CASE m = l
      BY <3>1, <3>2, <1>3, <1>4, <1>5
    <3>3. CASE n = l
      BY <3>1, <3>3, <1>3, <1>4, <1>5
    <3> QED
      BY <3>1, <3>2, <3>3, <1>3
  <2>5. starts # 0
    BY <1>1, <1>2 DEF LegsCarry, Lifecycle
  <2>6. ~closed
    BY <1>1, <1>2 DEF LegsCarry
  <2> QED
    BY <2>1, <2>3, <2>4, <2>5, <2>6, <1>1, <1>2 DEF LegsCarry
<1>7. CASE down = "none"
  BY <1>2, <1>6, <1>7 DEF SeamlessInv
<1>8. CASE down # "none"
  <2>1. PICK h \in Heads : HeadIsNext(h) /\ CarriedArrives(h) /\ NothingOvertaken(h)
    BY <1>8 DEF SeamlessInv
  <2>2. HeadIsNext(h)'
    BY <1>2, <2>1 DEF HeadIsNext, HeadAt
  <2>3. \A p : (Reached(h, p)' <=> Reached(h, p)) /\ (Queued(p)' <=> Queued(p)) /\ (Taken(h, p)' <=> Taken(h, p))
    BY <1>2 DEF Reached, Taken, Queued
  <2>4. CarriedArrives(h)'
    <3> SUFFICES ASSUME NEW m \in Legs, NEW p \in FirstPosition .. cursor'[m] - 1
                 PROVE  p \in lost'[m] \/ Reached(h, p) \/ Queued(p)
                        \/ (InHand(m)' /\ datagram'[m].pos = p /\ cursor'[m] = p + 1)
      BY <2>3 DEF CarriedArrives
    <3>1. CASE m # l
      BY <3>1, <2>1, <1>3 DEF CarriedArrives
    <3>2. CASE m = l /\ p < cursor[l]
      <4>1. p \in FirstPosition .. cursor[l] - 1
        BY <3>2, <1>1, <1>4
      <4>2. p \in lost[l] \/ Reached(h, p) \/ Queued(p)
        BY <4>1, <2>1, <1>3 DEF CarriedArrives
      <4> QED
        BY <4>2, <3>2, <1>4
    <3>3. CASE m = l /\ ~(p < cursor[l])
      <4>1. p \in Nat /\ ~(pos < cursor[l]) /\ cursor'[l] = pos + 1
        BY <3>3, <1>1, <1>4
      <4>2. p = pos \/ p \in cursor[l] .. pos - 1
        BY <4>1, <3>3, <1>1, <1>4
      <4> QED
        BY <4>1, <4>2, <3>3, <1>3, <1>4
    <3> QED
      BY <3>1, <3>2, <3>3
  <2>5. \A p \in Earlier(pos) : Reached(h, p) \/ Queued(p)
    <3> SUFFICES ASSUME NEW p \in Earlier(pos)
                 PROVE  Reached(h, p) \/ Queued(p)
      OBVIOUS
    <3>1. p \in Nat /\ FirstPosition <= p /\ p <= pos - Skew - 1
      BY <1>1 DEF Earlier
    <3>2. PICK m \in Legs : m # l
      <4>1. 1 \in Legs /\ 2 \in Legs
        BY <1>1 DEF Legs
      <4> QED
        BY <4>1
    <3>3. cursor[m] \in Nat /\ pos - cursor[m] < Skew
      BY <3>2, <1>1, <1>5 DEF LegsCarry
    <3>4. p \in FirstPosition .. cursor[m] - 1 /\ cursor[m] # p + 1
      BY <3>1, <3>3, <1>1
    <3>5. p \in lost[m] \/ Reached(h, p) \/ Queued(p)
      BY <3>4, <2>1 DEF CarriedArrives
    <3>6. CASE p \in lost[m]
      <4>1. p \notin cursor[l] .. pos - 1
        BY <3>2, <3>6, <1>5
      <4>2. p \in FirstPosition .. cursor[l] - 1
        BY <4>1, <3>1, <1>1, <1>4
      <4>3. p \notin lost[l]
        BY <3>2, <3>6, <1>1 DEF LegsCarry
      <4> QED
        BY <4>2, <4>3, <2>1, <1>3 DEF CarriedArrives
    <3> QED
      BY <3>5, <3>6
  <2>6. NothingOvertaken(h)'
    <3>1. ASSUME NEW m \in Legs, InHand(m)', NEW p \in Earlier(datagram'[m].pos)
          PROVE  Reached(h, p) \/ Queued(p)
      BY <3>1, <2>1, <2>5, <1>3 DEF NothingOvertaken
    <3> QED
      BY <3>1, <2>1, <2>3, <1>2 DEF NothingOvertaken
  <2> QED
    BY <2>1, <2>2, <2>4, <2>6, <1>6 DEF SeamlessInv
<1> QED
  BY <1>7, <1>8

\* The packet a leg has in hand joins the queue, behind what it must not
\* overtake.
LEMMA ProcessSeamless ==
    ASSUME SocketInv, SeamlessInv, NEW l \in Legs, ProcessDatagram(l), InHand(l)
    PROVE  SeamlessInv'
<1>1. LegsCarry /\ ControlTypes /\ DataTypes /\ queue \in Seq(MediaPackets)
  BY DEF SocketInv, ControlInv, DataInv, DataTypes, SeamlessInv
<1>2. /\ UNCHANGED <<policy, starts, ctl, closed, packets, next_expected_seq, initialized, delivered, last_pos,
                     down, cur, cursor, lost>>
      /\ leg[l] = "have" /\ leg' = [leg EXCEPT ![l] = "top"]
      /\ datagram' = [datagram EXCEPT ![l] = NoDatagram]
  BY DEF ProcessDatagram, legFrame, ctlVars, bufferVars, seenVars, downVars, netVars
<1>3. ~closed
  BY <1>1, <1>2 DEF LegsCarry
<1>4. queue' = Append(queue, MediaPacket(datagram[l].pos))
  BY <1>3 DEF ProcessDatagram, InHand
<1>5. /\ ~InHand(l)'
      /\ \A m \in Legs : m # l => leg'[m] = leg[m] /\ datagram'[m] = datagram[m] /\ (InHand(m)' <=> InHand(m))
  BY <1>1, <1>2 DEF InHand, NoDatagram, Junk, ControlTypes, DataTypes
<1>6. LegsCarry'
  BY <1>1, <1>2, <1>3, <1>5, CarryFrame
<1>7. /\ Len(queue) \in Nat /\ Len(queue') = Len(queue) + 1
      /\ \A i \in 1 .. Len(queue) : queue'[i] = queue[i]
      /\ queue'[Len(queue) + 1].pos = datagram[l].pos
  BY <1>1, <1>4 DEF MediaPacket
<1>8. /\ \A p : Queued(p) => Queued(p)'
      /\ \A p : p = datagram[l].pos => Queued(p)'
  <2>1. 1 .. Len(queue) \subseteq 1 .. Len(queue') /\ Len(queue) + 1 \in 1 .. Len(queue')
    BY <1>7
  <2> QED
    BY <2>1, <1>7 DEF Queued
<1>9. CASE down = "none"
  BY <1>2, <1>6, <1>9 DEF SeamlessInv
<1>10. CASE down # "none"
  <2>1. PICK h \in Heads : HeadIsNext(h) /\ CarriedArrives(h) /\ NothingOvertaken(h)
    BY <1>10 DEF SeamlessInv
  <2>2. HeadIsNext(h)'
    BY <1>2, <2>1 DEF HeadIsNext, HeadAt
  <2>3. \A p : (Reached(h, p)' <=> Reached(h, p)) /\ (Taken(h, p)' <=> Taken(h, p))
    BY <1>2 DEF Reached, Taken
  <2>4. CarriedArrives(h)'
    <3> SUFFICES ASSUME NEW m \in Legs, NEW p \in FirstPosition .. cursor[m] - 1
                 PROVE  p \in lost[m] \/ Reached(h, p) \/ Queued(p)'
                        \/ (InHand(m)' /\ datagram'[m].pos = p /\ cursor[m] = p + 1)
      BY <2>3, <1>2 DEF CarriedArrives
    <3>1. p \in lost[m] \/ Reached(h, p) \/ Queued(p) \/ (InHand(m) /\ datagram[m].pos = p /\ cursor[m] = p + 1)
      BY <2>1 DEF CarriedArrives
    <3>2. CASE m = l /\ datagram[l].pos = p
      BY <3>2, <1>8
    <3>3. CASE m # l \/ ~(datagram[l].pos = p)
      BY <3>1, <3>3, <1>5, <1>8
    <3> QED
      BY <3>2, <3>3
  <2>5. \A m \in Legs : InHand(m)' => \A p \in Earlier(datagram'[m].pos) : Reached(h, p) \/ Queued(p)'
    BY <2>1, <1>5, <1>8 DEF NothingOvertaken
  <2>6. \A i \in 1 .. Len(queue') : \A p \in Earlier(queue'[i].pos) :
          Reached(h, p) \/ \E j \in 1 .. i - 1 : queue'[j].pos = p
    <3> SUFFICES ASSUME NEW i \in 1 .. Len(queue'), NEW p \in Earlier(queue'[i].pos), ~Reached(h, p)
                 PROVE  \E j \in 1 .. i - 1 : queue'[j].pos = p
      OBVIOUS
    <3>1. CASE i \in 1 .. Len(queue)
      <4>1. PICK j \in 1 .. i - 1 : queue[j].pos = p
        BY <3>1, <2>1, <1>7 DEF NothingOvertaken
      <4>2. j \in 1 .. Len(queue)
        BY <3>1, <1>7
      <4> QED
        BY <4>1, <4>2, <1>7
    <3>2. CASE i = Len(queue) + 1
      <4>1. Queued(p)
        BY <3>2, <2>1, <1>7 DEF NothingOvertaken
      <4>2. i - 1 = Len(queue)
        BY <3>2, <1>7
      <4> QED
        BY <4>1, <4>2, <1>7 DEF Queued
    <3> QED
      BY <3>1, <3>2, <1>7
  <2>7. NothingOvertaken(h)'
    BY <2>1, <2>3, <2>5, <2>6, <1>2 DEF NothingOvertaken
  <2> QED
    BY <2>1, <2>2, <2>4, <2>7, <1>6 DEF SeamlessInv
<1> QED
  BY <1>9, <1>10

\* The downstream thread takes up the packet at the front of the queue.
LEMMA PopSeamless ==
    ASSUME SocketInv, SeamlessInv, WaitPop
    PROVE  SeamlessInv'
<1>1. LegsCarry /\ queue \in Seq(MediaPackets)
  BY DEF SocketInv, DataInv, DataTypes, SeamlessInv
<1>2. /\ UNCHANGED <<policy, starts, ctl, closed, packets, next_expected_seq, initialized, delivered, last_pos,
                     leg, datagram, cursor, lost>>
      /\ queue # <<>> /\ cur' = Head(queue) /\ queue' = Tail(queue) /\ down = "wait" /\ down' = "process"
  BY DEF WaitPop, downFrame, ctlVars, bufferVars, seenVars, legVars, netVars
<1>3. \A m \in Legs : InHand(m)' <=> InHand(m)
  BY <1>2 DEF InHand
<1>4. LegsCarry'
  BY <1>1, <1>2, <1>3, CarryFrame
<1>5. /\ Len(queue) \in Nat /\ Len(queue) >= 1 /\ cur' = queue[1] /\ Len(queue') = Len(queue) - 1
      /\ \A i \in 1 .. Len(queue) - 1 : queue'[i] = queue[i + 1]
  BY <1>1, <1>2
<1>6. PICK h \in Heads : HeadIsNext(h) /\ CarriedArrives(h) /\ NothingOvertaken(h)
  BY <1>2 DEF SeamlessInv
<1>7. HeadIsNext(h)'
  BY <1>2, <1>6 DEF HeadIsNext, HeadAt
<1>8. \A p : (Taken(h, p)' <=> Taken(h, p)) /\ (Reached(h, p) => Taken(h, p))
             /\ (Reached(h, p)' <=> Taken(h, p) \/ queue[1].pos = p)
  BY <1>2, <1>5 DEF Taken, Reached
<1>9. ASSUME NEW n \in Nat, n <= Len(queue), NEW j \in 1 .. n, NEW p, queue[j].pos = p
      PROVE  Reached(h, p)' \/ \E i \in 1 .. n - 1 : queue'[i].pos = p
  <2>1. CASE j = 1
    BY <2>1, <1>8, <1>9
  <2>2. CASE j # 1
    <3>1. j - 1 \in 1 .. n - 1 /\ j - 1 \in 1 .. Len(queue) - 1 /\ (j - 1) + 1 = j
      BY <2>2, <1>5, <1>9
    <3> QED
      BY <3>1, <1>5, <1>9
  <2> QED
    BY <2>1, <2>2
<1>10. \A p : Queued(p) => Reached(h, p)' \/ Queued(p)'
  <2> SUFFICES ASSUME NEW p, Queued(p) PROVE Reached(h, p)' \/ Queued(p)'
    OBVIOUS
  <2>1. PICK j \in 1 .. Len(queue) : queue[j].pos = p
    BY DEF Queued
  <2> QED
    BY <2>1, <1>5, <1>9 DEF Queued
<1>11. CarriedArrives(h)'
  <2> SUFFICES ASSUME NEW m \in Legs, NEW p \in FirstPosition .. cursor[m] - 1
               PROVE  p \in lost[m] \/ Reached(h, p)' \/ Queued(p)'
                      \/ (InHand(m)' /\ datagram[m].pos = p /\ cursor[m] = p + 1)
    BY <1>2 DEF CarriedArrives
  <2>1. p \in lost[m] \/ Reached(h, p) \/ Queued(p) \/ (InHand(m) /\ datagram[m].pos = p /\ cursor[m] = p + 1)
    BY <1>6 DEF CarriedArrives
  <2> QED
    BY <2>1, <1>3, <1>8, <1>10
<1>12. \A m \in Legs : InHand(m)' => \A p \in Earlier(datagram'[m].pos) : Reached(h, p)' \/ Queued(p)'
  BY <1>2, <1>3, <1>6, <1>8, <1>10 DEF NothingOvertaken
<1>13. \A i \in 1 .. Len(queue') : \A p \in Earlier(queue'[i].pos) :
         Reached(h, p)' \/ \E j \in 1 .. i - 1 : queue'[j].pos = p
  <2> SUFFICES ASSUME NEW i \in 1 .. Len(queue'), NEW p \in Earlier(queue'[i].pos)
               PROVE  Reached(h, p)' \/ \E j \in 1 .. i - 1 : queue'[j].pos = p
    OBVIOUS
  <2>1. i \in Nat /\ i <= Len(queue) /\ i + 1 \in 1 .. Len(queue) /\ (i + 1) - 1 = i /\ queue'[i] = queue[i + 1]
    BY <1>5
  <2>2. Reached(h, p) \/ \E j \in 1 .. i : queue[j].pos = p
    BY <2>1, <1>6 DEF NothingOvertaken
  <2> QED
    BY <2>1, <2>2, <1>8, <1>9
<1>14. \A p \in Earlier(cur'.pos) : Taken(h, p)'
  <2>1. 1 \in 1 .. Len(queue) /\ 1 .. 1 - 1 = {}
    BY <1>5
  <2>2. \A p \in Earlier(queue[1].pos) : Reached(h, p)
    BY <2>1, <1>6 DEF NothingOvertaken
  <2> QED
    BY <2>2, <1>5, <1>8
<1>15. NothingOvertaken(h)'
  BY <1>12, <1>13, <1>14 DEF NothingOvertaken
<1> QED
  BY <1>4, <1>6, <1>7, <1>11, <1>15 DEF SeamlessInv

\* A packet in process does not run ahead of the window: the head, which it
\* would overtake, is not there.
LEMMA NoPacketRunsAhead ==
    ASSUME RedundantStream, DataInv, down = "process", initialized,
           NEW h \in Heads, HeadAt(h), NothingOvertaken(h)
    PROVE  cur.pos < h + WindowSize
<1>1. /\ ~HeadStored /\ cur \in MediaPackets /\ packets \subseteq MediaPackets
      /\ Skew \in Nat /\ WindowSize \in Nat /\ Skew < WindowSize
  BY SocketAssumption, WindowAssumption DEF DataInv, DataTypes, Drained, RedundantStream
<1>2. h \in Nat /\ FirstPosition \in Nat /\ FirstPosition <= h /\ cur.pos \in Nat
  BY <1>1, HeadsFacts, MediaPacketFacts
<1> SUFFICES ASSUME ~(cur.pos < h + WindowSize)
             PROVE  FALSE
  OBVIOUS
<1>3. h \in Earlier(cur.pos)
  BY <1>1, <1>2 DEF Earlier
<1>4. Taken(h, h)
  BY <1>3 DEF NothingOvertaken
<1>5. PICK q \in packets : q.pos = h
  BY <1>2, <1>4 DEF Taken
<1>6. q.seq = next_expected_seq
  BY <1>5 DEF HeadAt
<1> QED
  BY <1>1, <1>5, <1>6 DEF HeadStored

\* A packet dropped as a duplicate or refused has been passed or is stored.
LEMMA RefusedIsTaken ==
    ASSUME RedundantStream, DataInv, MergeDuplicate \/ PushRejected,
           NEW h \in Heads, HeadIsNext(h), NothingOvertaken(h)
    PROVE  Taken(h, cur.pos)
<1>1. /\ DataTypes /\ HeadFollowsStream /\ HistoryAccepted /\ down = "process" /\ cur \in MediaPackets
      /\ (~initialized => packets = {} /\ accepted = {}) /\ packets \subseteq MediaPackets
  BY DEF DataInv, DataTypes, HeadFollowsStream, MergeDuplicate, PushRejected
<1>2. /\ h \in Nat /\ Near(h, cur.pos) /\ cur.pos \in Nat /\ cur.seq = SeqOf(cur.pos) /\ cur.pos \in Positions
      /\ WindowSize \in Nat
  BY <1>1, HeadsFacts, MediaPacketFacts, WindowAssumption
<1>3. CASE MergeDuplicate
  <2>1. PICK i \in 1 .. Len(history) : history[i] = cur.seq
    BY <1>3 DEF MergeDuplicate, HistoryContains
  <2>2. PICK pos \in accepted : history[i] = SeqOf(pos)
    BY <1>1, <2>1 DEF HistoryAccepted
  <2>3. cur.pos \in accepted /\ initialized
    <3>1. pos \in Positions
      BY <1>1, <2>2 DEF DataTypes
    <3>2. cur.pos = pos
      BY <1>2, <2>1, <2>2, <3>1, SeqIdentifies
    <3> QED
      BY <1>1, <2>2, <3>2
  <2>4. PICK g \in Heads : HeadAt(g) /\ \A p \in accepted : p < g \/ \E q \in packets : q.pos = p
    BY <1>1, <2>3 DEF HeadFollowsStream, Heads
  <2>5. g = h
    BY <2>3, <2>4, HeadsFacts DEF HeadIsNext
  <2> QED
    BY <2>3, <2>4, <2>5 DEF Taken
<1>4. CASE PushRejected
  <2>1. push(cur, FALSE)
    BY <1>4 DEF PushRejected
  <2>2. initialized /\ HeadAt(h)
    BY <1>1, <1>2, <2>1, PushRefused DEF HeadIsNext
  <2>3. cur.pos < h + WindowSize
    BY <1>1, <2>2, NoPacketRunsAhead
  <2>4. /\ IsLate(cur) <=> cur.pos < h
        /\ ~IsForwardOutOfWindow(cur)
        /\ cur.pos >= h => Dist(cur.seq, next_expected_seq) = cur.pos - h
    BY <1>2, <2>2, <2>3, Classify
  <2>5. CASE push_late(cur)
    BY <2>4, <2>5 DEF push_late, Taken
  <2>6. CASE push_in_window(cur, FALSE)
    <3>1. cur.pos >= h /\ Dist(cur.seq, next_expected_seq) < WindowSize
      BY <1>2, <2>3, <2>4, <2>6 DEF push_in_window
    <3>2. PICK q \in packets : q.seq = cur.seq
      BY <2>2, <2>6, <3>1 DEF push_in_window, StoreOrReject, ExpectedFor
    <3>3. q.pos = cur.pos
      BY <1>1, <1>2, <3>2, MediaPacketFacts, SeqIdentifies
    <3> QED
      BY <3>2, <3>3 DEF Taken
  <2> QED
    BY <2>1, <2>4, <2>5, <2>6 DEF push, push_resync
<1> QED
  BY <1>3, <1>4

\* An accepted packet is stored, and leaves the head where it is, unless it is
\* the first, which the head then is at.
LEMMA AcceptedIsStored ==
    ASSUME RedundantStream, DataInv, PushAccepted,
           NEW h \in Heads, HeadIsNext(h), NothingOvertaken(h)
    PROVE  \E g \in Heads : /\ HeadIsNext(g)'
                            /\ \A p \in Nat : Taken(h, p) \/ cur.pos = p => Taken(g, p)'
<1>1. /\ down = "process" /\ cur \in MediaPackets /\ push(cur, TRUE) /\ (~initialized => packets = {})
      /\ UNCHANGED <<delivered, last_pos>> /\ packets \subseteq MediaPackets
  BY DEF DataInv, DataTypes, HeadFollowsStream, PushAccepted
<1>2. /\ h \in Nat /\ Near(h, cur.pos) /\ cur.pos \in Nat /\ cur.seq = SeqOf(cur.pos) /\ cur.pos \in Positions
      /\ WindowSize \in Nat \ {0} /\ FirstPosition \in Nat /\ PositionCount \in Nat /\ FirstPosition \in Heads
      /\ cur.seq \in WireSeq /\ \A q \in packets : q.pos \in Nat
  BY <1>1, HeadsFacts, MediaPacketFacts, WindowAssumption, SocketAssumption
<1>3. CASE initialized
  <2>1. HeadAt(h) /\ (delivered > 0 => last_pos = h - 1)
    BY <1>3 DEF HeadIsNext
  <2>2. cur.pos < h + WindowSize
    BY <1>1, <1>3, <2>1, NoPacketRunsAhead
  <2>3. (IsLate(cur) <=> cur.pos < h) /\ ~IsForwardOutOfWindow(cur)
    BY <1>2, <1>3, <2>1, <2>2, Classify
  <2>4. push_in_window(cur, TRUE)
    BY <1>1, <2>3 DEF push, push_resync
  <2>5. initialized' /\ next_expected_seq' = next_expected_seq /\ packets' = packets \cup {cur} /\ cur.pos >= h
    BY <1>2, <1>3, <2>3, <2>4 DEF push_in_window, StoreOrReject, ExpectedFor
  <2>6. HeadAt(h)'
    BY <1>2, <2>1, <2>2, <2>5 DEF HeadAt
  <2>7. HeadIsNext(h)'
    BY <1>1, <2>1, <2>5, <2>6 DEF HeadIsNext
  <2> QED
    BY <2>5, <2>7 DEF Taken
<1>4. CASE ~initialized
  <2>1. packets = {} /\ h = FirstPosition /\ delivered = 0
    BY <1>1, <1>4 DEF HeadIsNext
  <2>2. Dist(cur.seq, ExpectedFor(cur)) = 0
    BY <1>2, <1>4 DEF ExpectedFor, Dist, WireSeq
  <2>3. ~IsForwardOutOfWindow(cur)
    BY <1>2, <2>2 DEF IsForwardOutOfWindow
  <2>4. push_in_window(cur, TRUE)
    BY <1>1, <2>3 DEF push, push_resync
  <2>5. initialized' /\ next_expected_seq' = cur.seq /\ packets' = {cur}
    BY <1>4, <2>1, <2>4 DEF push_in_window, StoreOrReject, ExpectedFor
  <2>6. PICK c \in Heads : c = cur.pos /\ c \in Nat /\ FirstPosition <= c
    BY <1>2 DEF Heads, Positions
  <2>7. HeadAt(c)'
    BY <1>2, <2>5, <2>6 DEF HeadAt
  <2>8. HeadIsNext(c)'
    BY <1>1, <2>1, <2>5, <2>7 DEF HeadIsNext
  <2>9. ASSUME NEW p \in Nat, Taken(h, p) \/ cur.pos = p
        PROVE  Taken(c, p)'
    <3>1. p < c \/ p = cur.pos
      BY <2>1, <2>6, <2>9, <1>2 DEF Taken
    <3> QED
      BY <3>1, <2>5 DEF Taken
  <2> QED
    BY <2>6, <2>8, <2>9
<1> QED
  BY <1>3, <1>4

\* A delivered packet is the one after the packet delivered before it.
LEMMA DeliveredIsNext ==
    ASSUME DataInv, DrainDeliver, NEW h \in Heads, HeadIsNext(h)
    PROVE  /\ delivered > 0 => last_pos' = last_pos + 1
           /\ h + 1 \in Heads /\ HeadIsNext(h + 1)'
           /\ \A p \in Nat : Taken(h, p) => Taken(h + 1, p)'
<1>1. PICK q \in packets : pop_next(q) /\ last_pos' = q.pos
  BY DEF DrainDeliver
<1>2. delivered' = delivered + 1 /\ initialized /\ initialized' /\ delivered \in Nat
  BY <1>1 DEF DrainDeliver, pop_next, DataInv, DataTypes
<1>3. HeadAt(h) /\ (delivered > 0 => last_pos = h - 1) /\ h \in Nat
  BY <1>2, HeadsFacts DEF HeadIsNext
<1>4. q.pos = h /\ packets' = packets \ {q} /\ HeadAt(h + 1)'
  <2>1. \A r \in packets : r.pos = q.pos => r = q
    BY StoredPackets
  <2> QED
    BY <1>1, <1>3, <2>1, PopAdvances
<1>5. h \in Positions
  BY <1>4, StoredPackets
<1>6. h + 1 \in Heads
  BY <1>5, SocketAssumption DEF Heads, Positions
<1>7. HeadIsNext(h + 1)'
  BY <1>1, <1>2, <1>3, <1>4 DEF HeadIsNext
<1>8. ASSUME NEW p \in Nat, Taken(h, p)
      PROVE  Taken(h + 1, p)'
  <2>1. CASE p < h \/ p = h
    BY <2>1, <1>3, <1>8 DEF Taken
  <2>2. CASE ~(p < h) /\ p # h
    <3>1. PICK r \in packets : r.pos = p
      BY <2>2, <1>8 DEF Taken
    <3>2. r \in packets'
      BY <2>2, <3>1, <1>4
    <3> QED
      BY <3>1, <3>2 DEF Taken
  <2> QED
    BY <2>1, <2>2
<1> QED
  BY <1>1, <1>3, <1>4, <1>6, <1>7, <1>8

\* The downstream thread keeps the stream without a hole.
LEMMA DownSeamless ==
    ASSUME RedundantStream, SocketInv, SeamlessInv, DownStep
    PROVE  SeamlessInv'
<1>1. DataInv /\ LegsCarry
  BY DEF SocketInv, SeamlessInv
<1>2. /\ UNCHANGED <<policy, starts, ctl, closed, leg, datagram, cursor, lost>>
      /\ down # "none"
  BY DEF DownStep, DownTop, WaitPopEmpty, WaitPop, MergeDuplicate, PushRejected, PushAccepted,
     DrainDeliver, DrainBlocked, DrainFlush, DrainReturn, downFrame, ctlVars, legVars, netVars
<1>3. \A m \in Legs : InHand(m)' <=> InHand(m)
  BY <1>2 DEF InHand
<1>4. LegsCarry'
  BY <1>1, <1>2, <1>3, CarryFrame
<1>5. PICK h \in Heads : HeadIsNext(h) /\ CarriedArrives(h) /\ NothingOvertaken(h)
  BY <1>2 DEF SeamlessInv
<1>6. ASSUME NEW g \in Heads, HeadIsNext(g)', UNCHANGED queue, down' # "process",
             \A p \in Nat : Reached(h, p) => Taken(g, p)'
      PROVE  SeamlessInv'
  <2>1. \A p \in Nat : Reached(h, p) => Reached(g, p)'
    BY <1>6 DEF Reached
  <2>2. CarriedArrives(g)' /\ NothingOvertaken(g)'
    BY <1>2, <1>3, <1>5, <1>6, <2>1, StreamFrame
  <2> QED
    BY <1>4, <1>6, <2>2 DEF SeamlessInv
<1>7. CASE DownTop \/ WaitPopEmpty \/ DrainBlocked \/ DrainReturn
  <2>1. /\ UNCHANGED <<packets, next_expected_seq, initialized, delivered, last_pos, queue>>
        /\ down # "process" /\ down' # "process"
    BY <1>7 DEF DownTop, WaitPopEmpty, DrainBlocked, DrainReturn, pop_next_missing, bufferVars, seenVars
  <2> QED
    BY <2>1, <1>2, <1>3, <1>4, SeamlessFrame
<1>8. CASE WaitPop
  BY <1>8, PopSeamless
<1>9. CASE MergeDuplicate \/ PushRejected
  <2>1. /\ UNCHANGED <<packets, next_expected_seq, initialized, delivered, last_pos, queue>>
        /\ down = "process" /\ down' = "top"
    <3>1. CASE MergeDuplicate
      BY <3>1 DEF MergeDuplicate, bufferVars
    <3>2. CASE PushRejected
      <4>1. /\ push(cur, FALSE) /\ cur \in MediaPackets /\ (~initialized => packets = {})
        BY <3>2, <1>1 DEF PushRejected, DataInv, DataTypes, HeadFollowsStream
      <4>2. UNCHANGED <<packets, next_expected_seq, initialized>>
        BY <4>1, <1>5, HeadsFacts, MediaPacketFacts, PushRefused DEF HeadIsNext
      <4> QED
        BY <3>2, <4>2 DEF PushRejected, seenVars
    <3> QED
      BY <1>9, <3>1, <3>2
  <2>2. Taken(h, cur.pos)
    BY <1>1, <1>5, <1>9, RefusedIsTaken
  <2>3. HeadIsNext(h)'
    BY <1>5, <2>1 DEF HeadIsNext, HeadAt
  <2>4. \A p \in Nat : Reached(h, p) => Taken(h, p)'
    BY <2>1, <2>2 DEF Reached, Taken
  <2> QED
    BY <1>6, <2>1, <2>3, <2>4
<1>10. CASE PushAccepted
  <2>1. PICK g \in Heads : /\ HeadIsNext(g)'
                           /\ \A p \in Nat : Taken(h, p) \/ cur.pos = p => Taken(g, p)'
    BY <1>1, <1>5, <1>10, AcceptedIsStored
  <2>2. UNCHANGED queue /\ down' # "process"
    BY <1>10 DEF PushAccepted
  <2> QED
    BY <1>6, <2>1, <2>2 DEF Reached
<1>11. CASE DrainDeliver
  <2>1. UNCHANGED queue /\ down = "drain" /\ down' = "drain"
    BY <1>11 DEF DrainDeliver, downVars
  <2>2. h + 1 \in Heads /\ HeadIsNext(h + 1)' /\ \A p \in Nat : Taken(h, p) => Taken(h + 1, p)'
    BY <1>1, <1>5, <1>11, DeliveredIsNext
  <2> QED
    BY <1>6, <2>1, <2>2 DEF Reached
<1>12. CASE DrainFlush
  BY <1>1, <1>12 DEF DrainFlush, PolicyFlushes, LegsCarry
<1> QED
  BY <1>7, <1>8, <1>9, <1>10, <1>11, <1>12 DEF DownStep

\* Every step keeps the stream without a hole.
LEMMA SeamlessStep ==
    ASSUME RedundantStream
    PROVE  SocketInv /\ SeamlessInv /\ [Next]_vars => SeamlessInv'
<1> SUFFICES ASSUME SocketInv, SeamlessInv, [Next]_vars
             PROVE  SeamlessInv'
  OBVIOUS
<1>1. CASE StartOk \/ StartFails \/ StopBegin \/ StopStep
  BY <1>1, StartStopSeamless
<1>2. ASSUME NEW l \in Legs, LegStep(l) \/ LegInput(l)
      PROVE  SeamlessInv'
  <2>1. CASE \E pos \in Positions : Arrive(l, pos)
    BY <2>1, ArriveSeamless
  <2>2. CASE ProcessDatagram(l) /\ InHand(l)
    BY <2>2, ProcessSeamless
  <2>3. CASE \/ LegTop(l) \/ ReceiveWoken(l) \/ ReceiveInterrupted(l) \/ ReceiveFails(l)
             \/ \E kind \in JunkKinds : ArriveJunk(l, kind)
             \/ ProcessDatagram(l) /\ ~InHand(l)
    BY <2>3, LegIdleSeamless
  <2> QED
    BY <1>2, <2>1, <2>2, <2>3 DEF LegStep, LegInput
<1>3. CASE DownStep
  BY <1>3, DownSeamless
<1>4. CASE UNCHANGED vars
  <2>1. UNCHANGED <<packets, next_expected_seq, initialized, policy, ctl, starts, closed, leg, datagram, down,
                    cur, queue, cursor, lost, delivered, last_pos>>
    BY <1>4 DEF vars, bufferVars, ctlVars, legVars, downVars, netVars, seenVars
  <2>2. \A m \in Legs : InHand(m)' <=> InHand(m)
    BY <2>1 DEF InHand
  <2>3. LegsCarry'
    BY <2>1, <2>2, CarryFrame DEF SeamlessInv
  <2> QED
    BY <2>1, <2>2, <2>3, SeamlessFrame
<1> QED
  BY <1>1, <1>2, <1>3, <1>4 DEF Next

\* Redundant legs in step deliver a stream without a hole, whatever each of
\* them loses, repeats and reorders and however the threads interleave.
THEOREM SeamlesslyMerged ==
    ASSUME RedundantStream
    PROVE  Spec => SeamlessMerge
<1>1. Init => SeamlessInv
  BY InitSeamless
<1>2. SocketInv /\ SeamlessInv /\ [Next]_vars => SeamlessInv'
  BY SeamlessStep
<1>3. SocketInv /\ SeamlessInv /\ [Next]_vars
        => [(delivered' = delivered + 1 /\ delivered > 0) => last_pos' = last_pos + 1]_vars
  <2> SUFFICES ASSUME SocketInv, SeamlessInv, Next, delivered' = delivered + 1, delivered > 0
               PROVE  last_pos' = last_pos + 1
    OBVIOUS
  <2>1. DataInv /\ delivered \in Nat
    BY DEF SocketInv, DataInv, DataTypes
  <2>2. CASE DrainDeliver
    <3>1. PICK h \in Heads : HeadIsNext(h)
      BY <2>2 DEF DrainDeliver, SeamlessInv
    <3> QED
      BY <2>1, <2>2, <3>1, DeliveredIsNext
  <2>3. CASE StartOk \/ StartFails
    BY <2>1, <2>3 DEF StartOk, StartFails, StartPrologue, NothingSeen
  <2>4. CASE StopBegin \/ StopStep
    BY <2>1, <2>4 DEF StopBegin, StopStep, ClosePort, JoinLeg, CloseQueue, RequestDownstreamStop, StopEnd, seenVars
  <2>5. CASE \E l \in Legs : LegStep(l) \/ LegInput(l)
    BY <2>1, <2>5 DEF LegStep, LegInput, LegTop, ReceiveWoken, ProcessDatagram, Arrive, ArriveJunk,
       ReceiveInterrupted, ReceiveFails, legFrame, seenVars
  <2>6. CASE DownStep /\ ~DrainDeliver
    <3>1. UNCHANGED delivered
      BY <2>6 DEF DownStep, DownTop, WaitPopEmpty, WaitPop, MergeDuplicate, PushRejected, PushAccepted,
         DrainBlocked, DrainFlush, DrainReturn, seenVars
    <3> QED
      BY <2>1, <3>1
  <2> QED
    BY <2>2, <2>3, <2>4, <2>5, <2>6 DEF Next
<1> QED
  BY <1>1, <1>2, <1>3, BackendCorrect, PTL DEF Spec, SeamlessMerge

=============================================================================
