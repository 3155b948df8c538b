------------------------- MODULE GraphClientProofs -------------------------
(***************************************************************************)
(* Theorems about GraphClient: the leases of the clients and the records   *)
(* of the manager agree, a shared worker is spared, no worker process      *)
(* outlives the references to it, no waiting thread is forgotten, and the  *)
(* workers receive for the graphs their clients think they do, for every   *)
(* number of sources, runtimes and channels, and however often MTL and the *)
(* system fail.  The invariants are LeaseInv, WaitInv and ServeInv, each   *)
(* proved inductive on top of the one before.                              *)
(***************************************************************************)
EXTENDS GraphClient, SequenceTheorems, FiniteSetTheorems, TLAPS

-----------------------------------------------------------------------------
(* Types.                                                                  *)

LEMMA NewThreadTyped ==
    /\ NewThread \in ThreadStates /\ [NewThread EXCEPT !.pc = "done"] \in ThreadStates
    /\ NewChannel \in ChannelStates /\ NoWorker \in WorkerStates /\ NewWorker \in WorkerStates
    /\ NoEvent \in Events /\ Failed \in Events
<1>1. NoEvent \in Events /\ Failed \in Events
  BY DEF NoEvent, Failed, Events, EventKinds
<1>2. << >> \in Seq(Channels)
  OBVIOUS
<1>3. NewThread \in ThreadStates
  BY <1>1, <1>2 DEF NewThread, ThreadStates, Returns, LeaseLabels, NoRequest
<1>4. [NewThread EXCEPT !.pc = "done"] \in ThreadStates
  BY <1>3 DEF ThreadStates
<1>5. NewChannel \in ChannelStates
  BY DEF NewChannel, ChannelStates
<1>6. NoWorker \in WorkerStates /\ NewWorker \in WorkerStates
  BY DEF NoWorker, NewWorker, WorkerStates
<1> QED
  BY <1>1, <1>3, <1>4, <1>5, <1>6

\* What the worker's handlers leave and answer has its type.
LEMMA HealthTyped ==
    ASSUME NEW w \in WorkerStates
    PROVE  /\ \A e \in ErrorClasses : Marked(w, e) \in WorkerStates
           /\ Refreshed(w) \subseteq WorkerStates
<1>1. \A e \in ErrorClasses : Marked(w, e) \in WorkerStates
  BY DEF Marked, WorkerStates
<1> QED
  BY <1>1 DEF Refreshed, ErrorClasses

LEMMA AnswerTyped ==
    ASSUME NEW r \in Requests, NEW kind \in EventKinds, NEW g \in Graphs \cup {NoGraph},
           NEW arg \in ErrorClasses \cup {"none", "ok", "healthy", "unhealthy"}
    PROVE  Answer(r, kind, g, arg) \in Events
BY DEF Answer, Events, Requests

LEMMA OutcomeFields ==
    ASSUME NEW w, NEW ev, NEW f
    PROVE  Outcome(w, ev, f).w = w /\ Outcome(w, ev, f).ev = ev /\ Outcome(w, ev, f).fault = f
BY DEF Outcome

LEMMA ErrorTyped ==
    ASSUME NEW w \in WorkerStates, NEW r \in Requests, NEW e \in ErrorClasses
    PROVE  MakeError(w, r, e).w = w /\ MakeError(w, r, e).ev \in Events
<1>1. r.graph \in Graphs \cup {NoGraph} /\ "Error" \in EventKinds
  BY DEF Requests, EventKinds
<1>2. Answer(r, "Error", r.graph, e) \in Events
  BY <1>1, AnswerTyped
<1> QED
  BY <1>2 DEF MakeError, Outcome

GoodOutcome(o) == o.w \in WorkerStates /\ o.ev \in Events

LEMMA HandleTyped ==
    ASSUME NEW w \in WorkerStates, NEW r \in Requests, NEW o \in Handle(w, r)
    PROVE  o.w \in WorkerStates /\ o.ev \in Events
<1>1. /\ r.graph \in Graphs \cup {NoGraph} /\ r.runtime \in Runtimes \cup {NoRuntime} /\ r.kind \in RequestKinds
      /\ "backend" \in ErrorClasses /\ "value" \in ErrorClasses
      /\ {"Health", "Started", "Stopped", "Stats", "Error"} = EventKinds
  BY DEF Requests, ErrorClasses, EventKinds
<1>2. ASSUME NEW u \in WorkerStates, u.health # "ok" PROVE u.health \in ErrorClasses
  BY <1>2 DEF WorkerStates
<1>3. ASSUME NEW u \in WorkerStates, NEW ev \in Events, NEW f PROVE GoodOutcome(Outcome(u, ev, f))
  BY <1>3, OutcomeFields DEF GoodOutcome
<1>4. ASSUME NEW u \in WorkerStates, NEW e \in ErrorClasses PROVE GoodOutcome(MakeError(u, r, e))
  BY <1>4, ErrorTyped DEF GoodOutcome
<1>5. ASSUME NEW u \in WorkerStates
      PROVE  /\ RuntimeCreated(u, r.runtime) \in WorkerStates
             /\ GoodOutcome(RuntimeFailed(u, r))
  <2>1. RuntimeCreated(u, r.runtime) \in WorkerStates
    BY <1>1 DEF RuntimeCreated, WorkerStates
  <2>2. Answer(r, "Error", r.graph, "backend") \in Events
    BY <1>1, AnswerTyped
  <2> QED
    BY <2>1, <2>2, <1>3 DEF RuntimeFailed
<1>6. CASE r.kind = "ConfigHandshake"
  <2>1. o \in HandleConfigHandshake(w, r)
    BY <1>6 DEF Handle
  <2>2. Answer(r, "Health", NoGraph, "healthy") \in Events
    BY <1>1, AnswerTyped
  <2>3. CASE w.shutdown
    BY <2>1, <2>3, <1>1, <1>4 DEF HandleConfigHandshake, GoodOutcome
  <2>4. CASE ~w.shutdown
    <3>1. PICK u \in Refreshed(w) :
            o \in (IF u.health # "ok" THEN {MakeError(u, r, u.health)}
                  ELSE IF u.runtime = NoRuntime
                  THEN {Outcome(RuntimeCreated(u, r.runtime), Answer(r, "Health", NoGraph, "healthy"), FALSE),
                        RuntimeFailed(u, r)}
                  ELSE IF u.runtime # r.runtime THEN {MakeError(u, r, "backend")}
                  ELSE {Outcome(u, Answer(r, "Health", NoGraph, "healthy"), FALSE)})
      BY <2>1, <2>4 DEF HandleConfigHandshake
    <3>2. u \in WorkerStates
      BY <3>1, HealthTyped
    <3>3. \/ u.health # "ok" /\ o = MakeError(u, r, u.health)
          \/ o = Outcome(RuntimeCreated(u, r.runtime), Answer(r, "Health", NoGraph, "healthy"), FALSE)
          \/ o = RuntimeFailed(u, r)
          \/ o = MakeError(u, r, "backend")
          \/ o = Outcome(u, Answer(r, "Health", NoGraph, "healthy"), FALSE)
      BY <3>1
    <3> QED
      BY <2>2, <3>2, <3>3, <1>1, <1>2, <1>3, <1>4, <1>5 DEF GoodOutcome
  <2> QED
    BY <2>3, <2>4
<1>7. CASE r.kind = "StartSessions"
  <2>1. o \in HandleStartSessions(w, r) /\ r.graph \in Graphs
    BY <1>7 DEF Handle, Requests
  <2>2. \A e \in ErrorClasses : Answer(r, "Error", r.graph, e) \in Events
    BY <1>1, AnswerTyped
  <2>3. Answer(r, "Started", r.graph, "ok") \in Events
    BY <1>1, AnswerTyped
  <2>4. ASSUME NEW u \in WorkerStates, NEW x \in GraphCreated(u, r) PROVE GoodOutcome(x)
    <3>1. [u EXCEPT !.graphs = @ \cup {r.graph}] \in WorkerStates
      BY <2>1 DEF WorkerStates
    <3> QED
      BY <3>1, <2>2, <2>3, <2>4, <1>3 DEF GraphCreated
  <2> QED
    BY <2>1, <2>4, <1>1, <1>2, <1>4, <1>5, HealthTyped DEF HandleStartSessions, GoodOutcome
<1>8. CASE r.kind = "StopSessions"
  <2>1. o \in HandleStopSessions(w, r)
    BY <1>8 DEF Handle
  <2>2. Answer(r, "Stopped", r.graph, "ok") \in Events
    BY <1>1, AnswerTyped
  <2>3. ASSUME NEW u \in WorkerStates
        PROVE  [u EXCEPT !.graphs = @ \ {r.graph}, !.sick = @ \ {r.graph}] \in WorkerStates
    BY DEF WorkerStates
  <2> QED
    BY <2>1, <2>2, <2>3, <1>2, <1>3, <1>4, HealthTyped DEF HandleStopSessions, GoodOutcome
<1>9. CASE r.kind = "Stats"
  <2>1. o \in HandleStats(w, r)
    BY <1>9 DEF Handle
  <2>2. Answer(r, "Stats", r.graph, "ok") \in Events
    BY <1>1, AnswerTyped
  <2> QED
    BY <2>1, <2>2, <1>2, <1>3, <1>4, HealthTyped DEF HandleStats, GoodOutcome
<1>10. CASE r.kind = "HealthCheck"
  <2>1. o \in HandleHealthCheck(w, r)
    BY <1>10 DEF Handle
  <2>2. Answer(r, "Health", NoGraph, "healthy") \in Events /\ Answer(r, "Health", NoGraph, "unhealthy") \in Events
    BY <1>1, AnswerTyped
  <2> QED
    BY <2>1, <2>2, <1>3, HealthTyped DEF HandleHealthCheck, GoodOutcome
<1>11. CASE r.kind = "Shutdown"
  <2>1. o \in HandleShutdown(w, r)
    BY <1>11 DEF Handle
  <2>2. ASSUME NEW u \in WorkerStates
        PROVE  [u EXCEPT !.graphs = {}, !.sick = {}, !.runtime = NoRuntime, !.shutdown = TRUE] \in WorkerStates
    BY DEF WorkerStates
  <2>3. \A g \in Graphs \cup {NoGraph} : Answer(r, "Stopped", g, "ok") \in Events
    BY <1>1, AnswerTyped
  <2>4. \A u \in WorkerStates : u.graphs \subseteq Graphs
    BY DEF WorkerStates
  <2> QED
    BY <2>1, <2>2, <2>3, <2>4, <1>3, HealthTyped DEF HandleShutdown, GoodOutcome
<1> QED
  BY <1>1, <1>6, <1>7, <1>8, <1>9, <1>10, <1>11 DEF RequestKinds

-----------------------------------------------------------------------------
(* Request ids, and what a thread is after it has called.                  *)

LEMMA IdsAreNat ==
    ASSUME Types, NEW by \in {"client", "manager"}, NEW c \in Channels
    PROVE  NextIds(by, c) \subseteq Nat
<1>1. ASSUME NEW d \in Channels,
             NEW e \in Range(toWorker[d]) \cup Range(toClient[d]) \cup chan[d].responses
      PROVE  e.id \in Nat
  <2>1. toWorker[d] \in Seq(Requests) /\ toClient[d] \in Seq(Events) /\ chan[d] \in ChannelStates
    BY DEF Types
  <2>2. e \in Requests \/ e \in Events
    BY <2>1 DEF Range, ChannelStates
  <2> QED
    BY <2>2 DEF Requests, Events
<1>2. ASSUME NEW t \in Threads PROVE thr[t].req.id \in Nat
  <2>1. thr[t].req \in Requests \/ thr[t].req = NoRequest
    BY DEF Types, ThreadStates
  <2> QED
    BY <2>1 DEF Requests, NoRequest
<1>3. ASSUME NEW other, NEW cs \in SUBSET Channels PROVE IdsInUse(other, cs) \subseteq Nat
  <2>1. ASSUME NEW e \in UNION {Range(toWorker[d]) \cup Range(toClient[d]) \cup chan[d].responses : d \in cs}
        PROVE  e.id \in Nat
    <3>1. PICK d \in cs : e \in Range(toWorker[d]) \cup Range(toClient[d]) \cup chan[d].responses
      OBVIOUS
    <3> QED
      BY <3>1, <1>1
  <2>2. ASSUME NEW e \in {thr[t].req : t \in {u \in Threads : thr[u].chan \in cs}} PROVE e.id \in Nat
    BY <1>2
  <2>3. ASSUME NEW i \in IdsInUse(other, cs) PROVE i \in Nat
    <3> DEFINE A == UNION {Range(toWorker[d]) \cup Range(toClient[d]) \cup chan[d].responses : d \in cs}
    <3> DEFINE B == {thr[t].req : t \in {u \in Threads : thr[u].chan \in cs}}
    <3>1. i \in {e.id : e \in {x \in A \cup B : x.by = other}}
      BY <2>3 DEF IdsInUse
    <3>2. \A e \in A \cup B : e.id \in Nat
      BY <2>1, <2>2
    <3> HIDE DEF A, B
    <3> QED
      BY <3>1, <3>2
  <2> QED
    BY <2>3
<1>4. OtherCounter(by) \in {"client", "manager"} /\ {c} \in SUBSET Channels
  BY DEF OtherCounter
<1>5. Ids \subseteq Nat
  BY ControlAssumption
<1> QED
  BY <1>3, <1>4, <1>5 DEF NextIds

\* What is known of a thread in a transaction or a teardown.
LEMMA OutlineFacts ==
    ASSUME LeaseInv, NEW t \in Threads, thr[t].pc \in TransactionLabels \cup TeardownLabels
    PROVE  /\ thr[t] \in ThreadStates /\ OutlineOf(t, thr[t])
           /\ thr[t].chan \in Channels /\ thr[t].chan \in References(t)
           /\ thr[t].pc \in TransactionLabels =>
                /\ thr[t].ret \in Returns
                /\ Handshaking(thr[t]) \/ OnLease(thr[t]) \/ RetiringWorkers(t, thr[t])
           /\ thr[t].pc \in TeardownLabels => RetiringWorkers(t, thr[t]) \/ LeavingChannel(thr[t])
<1>1. thr[t] \in ThreadStates /\ OutlineOf(t, thr[t])
  BY DEF LeaseInv, Types, Outline
<1>2. \A l \in LeaseLabels \cup {"handshaken", "idle", "acquire", "done"} : l \notin TransactionLabels \cup TeardownLabels
  BY DEF LeaseLabels, TransactionLabels, TeardownLabels
<1>3. TransactionLabels \cap TeardownLabels = {}
  BY DEF TransactionLabels, TeardownLabels
<1>4. CASE thr[t].pc \in TransactionLabels
  <2>1. Handshaking(thr[t]) \/ OnLease(thr[t]) \/ RetiringWorkers(t, thr[t])
    BY <1>1, <1>2, <1>3, <1>4 DEF OutlineOf, Resting, Acquiring, LeavingChannel, Finished
  <2>2. Place(thr[t]) = thr[t].ret /\ Transacting(thr[t])
    BY <1>4 DEF Place, Transacting
  <2>3. thr[t].ret # "idle"
    BY <2>1, <2>2 DEF Handshaking, OnLease, RetiringWorkers, LeaseLabels, TeardownLabels
  <2>4. thr[t].ret \in Returns
    BY <1>1, <2>3 DEF ThreadStates
  <2>5. thr[t].chan \in References(t) /\ thr[t].chan # NoChannel
    <3>1. CASE Handshaking(thr[t])
      BY <2>2, <3>1 DEF Handshaking, References
    <3>2. CASE OnLease(thr[t])
      BY <2>2, <3>2 DEF OnLease, References
    <3>3. CASE RetiringWorkers(t, thr[t])
      <4>1. thr[t].retire \in Seq(Channels) /\ thr[t].retire # << >> /\ thr[t].chan = Head(thr[t].retire)
        BY <1>1, <3>3 DEF RetiringWorkers, ThreadStates
      <4>2. Head(thr[t].retire) \in Channels /\ Head(thr[t].retire) \in Range(thr[t].retire)
        BY <4>1, HeadTailProperties DEF Range
      <4> QED
        BY <4>1, <4>2, ControlAssumption DEF References, NoChannel
    <3> QED
      BY <2>1, <3>1, <3>2, <3>3
  <2> QED
    BY <1>1, <1>3, <1>4, <2>1, <2>4, <2>5 DEF ThreadStates
<1>5. CASE thr[t].pc \in TeardownLabels
  <2>1. ~Transacting(thr[t]) /\ Place(thr[t]) = thr[t].pc
    BY <1>3, <1>5 DEF Transacting, Place
  <2>2. RetiringWorkers(t, thr[t]) \/ LeavingChannel(thr[t])
    BY <1>1, <1>2, <1>5, <2>1 DEF OutlineOf, Resting, Acquiring, Handshaking, OnLease, Finished
  <2>3. thr[t].chan \in References(t)
    BY <1>5 DEF References, TeardownLabels
  <2>4. thr[t].chan # NoChannel
    <3>1. CASE RetiringWorkers(t, thr[t])
      <4>1. thr[t].retire \in Seq(Channels) /\ thr[t].retire # << >> /\ thr[t].chan = Head(thr[t].retire)
        BY <1>1, <3>1 DEF RetiringWorkers, ThreadStates
      <4>2. Head(thr[t].retire) \in Channels
        BY <4>1, HeadTailProperties
      <4> QED
        BY <4>1, <4>2, ControlAssumption DEF NoChannel
    <3>2. CASE LeavingChannel(thr[t])
      BY <3>2 DEF LeavingChannel
    <3> QED
      BY <2>2, <3>1, <3>2
  <2> QED
    BY <1>1, <1>3, <1>5, <2>2, <2>3, <2>4 DEF ThreadStates
<1> QED
  BY <1>4, <1>5

\* A new request gets an id that no pending request of its counter has.
LEMMA IdsAreFresh ==
    ASSUME LeaseInv, NEW by \in {"client", "manager"}, NEW c \in Channels, NEW id \in NextIds(by, c),
           NEW u \in Threads, Transacting(thr[u]), thr[u].req.by = by
    PROVE  thr[u].req.id # id
<1>1. thr[u].chan \in Channels
  BY OutlineFacts DEF Transacting
<1>2. thr[u].req.id \in IdsInUse(by, Channels)
  BY <1>1 DEF IdsInUse
<1> QED
  BY <1>2 DEF NextIds

LEMMA CallTyped ==
    ASSUME NEW th \in ThreadStates, NEW c \in Channels, NEW r \in Requests, NEW ret \in Returns
    PROVE  [th EXCEPT !.resp = NoEvent, !.pc = "ensure", !.chan = c, !.req = r, !.ret = ret] \in ThreadStates
<1>1. NoEvent \in Events /\ "ensure" \in TransactionLabels
  BY NewThreadTyped DEF TransactionLabels
<1> QED
  BY <1>1 DEF ThreadStates

\* The caller's locals are kept in a transaction.
LEMMA CallKeeps ==
    ASSUME LeaseInv, NEW t \in Threads, NEW th \in ThreadStates, NEW c \in Channels,
           NEW kind \in RequestKinds, kind = "StartSessions" => t \in Graphs, kind \in {"StopSessions", "Stats"} => t \in Graphs,
           NEW by \in {"client", "manager"}, NEW ret \in Returns,
           by = IF ret \in LeaseLabels THEN "client" ELSE "manager", ret = "close" <=> kind = "Shutdown",
           NEW next \in Calls(t, th, c, kind, by, ret)
    PROVE  /\ next \in ThreadStates /\ Asks(t, next)
           /\ next.pc = "ensure" /\ next.chan = c /\ next.ret = ret
           /\ next.lease = th.lease /\ next.spawned = th.spawned /\ next.retire = th.retire
           /\ next.rt = th.rt /\ next.after = th.after /\ next.cret = th.cret /\ next.running = th.running
<1>1. PICK id \in NextIds(by, c) :
        next = Calling([th EXCEPT !.resp = NoEvent], c, Request(t, th, kind, by, id), ret)
  BY DEF Calls
<1>2. id \in Nat
  BY <1>1, IdsAreNat DEF LeaseInv
<1> DEFINE r == Request(t, th, kind, by, id)
<1>3. r \in Requests
  <2>1. th.rt \in Runtimes \cup {NoRuntime}
    BY DEF ThreadStates
  <2>2. (IF kind \in {"StartSessions", "StopSessions", "Stats"} THEN t ELSE NoGraph) \in Graphs \cup {NoGraph}
    OBVIOUS
  <2> QED
    BY <1>2, <2>1, <2>2 DEF Request, Requests
<1>a. r.by = by /\ r.kind = kind /\ r.id = id
  BY DEF Request
<1>b. \A u \in Threads : (Transacting(thr[u]) /\ thr[u].req.by = by) => thr[u].req.id # id
  BY <1>1, IdsAreFresh
<1> HIDE DEF r
<1>4. next = [th EXCEPT !.resp = NoEvent, !.pc = "ensure", !.chan = c, !.req = r, !.ret = ret]
  <2>1. \A x : Calling([th EXCEPT !.resp = NoEvent], c, x, ret)
                 = [th EXCEPT !.resp = NoEvent, !.pc = "ensure", !.chan = c, !.req = x, !.ret = ret]
    BY DEF Calling
  <2> QED
    BY <1>1, <2>1 DEF r
<1>5. next \in ThreadStates
  BY <1>3, <1>4, CallTyped
<1>c. next.req = r /\ next.ret = ret
  BY <1>4 DEF ThreadStates
<1>6. Asks(t, next)
  BY <1>3, <1>a, <1>b, <1>c DEF Asks
<1> QED
  BY <1>4, <1>5, <1>6 DEF ThreadStates

\* What a thread with a list of workers to retire does next: the teardown of
\* the first, or what comes after the last.
MayContinue(t, th) ==
    /\ th \in ThreadStates /\ th.spawned = NoChannel /\ ~th.running
    /\ \/ th.after = "acquired" /\ th.rt \in Runtimes
       \/ th.after = "invalidated" /\ th.retire \in {<< >>, <<th.lease>>}
       \/ th.after = "done" /\ th.lease = NoChannel /\ t = Exit

LEMMA SpawnKeeps ==
    ASSUME LeaseInv, NEW t \in Threads, NEW th \in ThreadStates, NEW next \in Spawns(t, th)
    PROVE  \E c \in Channels :
             /\ Free(c) /\ next \in ThreadStates /\ Asks(t, next)
             /\ next.pc = "ensure" /\ next.chan = c /\ next.ret = "handshaken" /\ next.spawned = c
             /\ next.lease = th.lease /\ next.retire = th.retire /\ next.rt = th.rt /\ next.running = th.running
<1>1. PICK c \in Channels :
        Free(c) /\ next \in Calls(t, [th EXCEPT !.spawned = c], c, "ConfigHandshake", "manager", "handshaken")
  BY DEF Spawns
<1> DEFINE w == [th EXCEPT !.spawned = c]
<1>2. /\ w \in ThreadStates /\ w.spawned = c /\ w.lease = th.lease /\ w.retire = th.retire
      /\ w.rt = th.rt /\ w.running = th.running
  BY DEF ThreadStates
<1> HIDE DEF w
<1>3. next \in Calls(t, w, c, "ConfigHandshake", "manager", "handshaken")
  BY <1>1 DEF w
<1>4. "ConfigHandshake" \in RequestKinds /\ "handshaken" \in Returns \ LeaseLabels
  BY DEF RequestKinds, Returns, LeaseLabels
<1>5. /\ next \in ThreadStates /\ Asks(t, next) /\ next.pc = "ensure" /\ next.chan = c /\ next.ret = "handshaken"
      /\ next.lease = w.lease /\ next.spawned = w.spawned /\ next.retire = w.retire
      /\ next.rt = w.rt /\ next.running = w.running
  BY <1>2, <1>3, <1>4, CallKeeps
<1> QED
  BY <1>1, <1>2, <1>5

LEMMA ContinueKeeps ==
    ASSUME LeaseInv, NEW t \in Threads, NEW th, MayContinue(t, th), NEW next \in Continue(t, th)
    PROVE  /\ next \in ThreadStates /\ Asks(t, next) /\ OutlineOf(t, next) /\ ~next.running
           /\ next.lease = (IF th.retire = << >> /\ th.after = "invalidated" THEN NoChannel ELSE th.lease)
           /\ next.retire = th.retire
           /\ next.spawned # NoChannel => next.spawned \in Channels /\ Free(next.spawned)
           /\ next.pc \in {"ensure", "idle", "done"}
           /\ th.after = "done" => next.pc # "idle" /\ next.lease = NoChannel /\ next.spawned = NoChannel
           /\ th.retire # << >> => next.pc = "ensure"
<1>1. /\ th.retire \in Seq(Channels) /\ th.lease \in Channels \cup {NoChannel}
      /\ th.spawned = NoChannel /\ ~th.running /\ th \in ThreadStates
  BY DEF MayContinue, ThreadStates
<1>2. /\ {"Shutdown", "HealthCheck"} \subseteq RequestKinds /\ {"close", "healthChecked"} \subseteq Returns
      /\ "close" \notin LeaseLabels /\ "healthChecked" \in LeaseLabels
  BY DEF RequestKinds, Returns, LeaseLabels
<1>3. CASE th.retire # << >>
  <2> DEFINE w == [th EXCEPT !.cret = "retired"]
  <2> DEFINE c == Head(th.retire)
  <2>1. /\ w \in ThreadStates /\ w.spawned = th.spawned /\ w.lease = th.lease /\ w.retire = th.retire
        /\ w.rt = th.rt /\ w.running = th.running /\ w.cret = "retired" /\ w.after = th.after
    BY <1>1 DEF ThreadStates
  <2>2. c \in Channels
    BY <1>1, <1>3, HeadTailProperties
  <2> HIDE DEF w
  <2>3. next \in Calls(t, w, c, "Shutdown", "manager", "close")
    BY <1>3 DEF Continue, w
  <2>4. /\ next \in ThreadStates /\ Asks(t, next) /\ next.pc = "ensure" /\ next.chan = c /\ next.ret = "close"
        /\ next.lease = w.lease /\ next.spawned = w.spawned /\ next.retire = w.retire
        /\ next.rt = w.rt /\ next.after = w.after /\ next.cret = w.cret /\ next.running = w.running
    BY <1>2, <2>1, <2>2, <2>3, CallKeeps
  <2>5. RetiringWorkers(t, next)
    BY <1>1, <1>3, <2>1, <2>4 DEF RetiringWorkers, MayContinue, Place, Transacting, TransactionLabels, TeardownLabels
  <2> QED
    BY <1>1, <1>3, <2>1, <2>4, <2>5 DEF OutlineOf, MayContinue
<1>4. CASE th.retire = << >> /\ th.after = "acquired" /\ th.lease # NoChannel
  <2>1. next \in Calls(t, th, th.lease, "HealthCheck", "client", "healthChecked")
    BY <1>4 DEF Continue
  <2>2. /\ next \in ThreadStates /\ Asks(t, next) /\ next.pc = "ensure" /\ next.chan = th.lease /\ next.ret = "healthChecked"
        /\ next.lease = th.lease /\ next.spawned = th.spawned /\ next.retire = th.retire
        /\ next.running = th.running
    BY <1>1, <1>2, <1>4, <2>1, CallKeeps
  <2>3. OnLease(next)
    BY <1>1, <1>4, <2>2 DEF OnLease, Place, Transacting, TransactionLabels, LeaseLabels, HoldsOnly
  <2> QED
    BY <1>1, <1>4, <2>2, <2>3 DEF OutlineOf
<1>5. CASE th.retire = << >> /\ th.after = "acquired" /\ th.lease = NoChannel
  <2>1. next \in Spawns(t, th)
    BY <1>5 DEF Continue
  <2>2. PICK c \in Channels :
             /\ Free(c) /\ next \in ThreadStates /\ Asks(t, next)
             /\ next.pc = "ensure" /\ next.chan = c /\ next.ret = "handshaken" /\ next.spawned = c
             /\ next.lease = th.lease /\ next.retire = th.retire /\ next.rt = th.rt /\ next.running = th.running
    BY <1>1, <2>1, SpawnKeeps
  <2>3. c # NoChannel /\ th.rt \in Runtimes
    BY <1>5, ControlAssumption DEF NoChannel, MayContinue
  <2>4. Handshaking(next)
    BY <1>1, <1>5, <2>2, <2>3 DEF Handshaking, Place, Transacting, TransactionLabels, HoldsOnly
  <2> QED
    BY <1>1, <1>5, <2>2, <2>3, <2>4 DEF OutlineOf
<1>6. CASE th.retire = << >> /\ th.after = "invalidated"
  <2>1. next = NewThread
    BY <1>6 DEF Continue
  <2>2. Resting(t, NewThread) /\ ~NewThread.running /\ NewThread.lease = NoChannel /\ NewThread.retire = << >>
        /\ NewThread.spawned = NoChannel /\ NewThread.pc = "idle"
    BY DEF Resting, NewThread, HoldsOnly
  <2> QED
    BY <1>6, <2>1, <2>2, NewThreadTyped DEF OutlineOf, Asks, Transacting, TransactionLabels
<1>7. CASE th.retire = << >> /\ th.after = "done"
  <2> DEFINE d == [NewThread EXCEPT !.pc = "done"]
  <2>1. next = d /\ t = Exit /\ th.lease = NoChannel
    BY <1>7 DEF Continue, MayContinue
  <2>2. ~d.running /\ d.lease = NoChannel /\ d.retire = << >> /\ d.spawned = NoChannel /\ d.pc = "done"
    BY DEF NewThread
  <2>3. Finished(t, d)
    BY <2>1, <2>2 DEF Finished, HoldsOnly
  <2> QED
    BY <1>7, <2>1, <2>2, <2>3, NewThreadTyped DEF OutlineOf, Asks, Transacting, TransactionLabels
<1> QED
  BY <1>3, <1>4, <1>5, <1>6, <1>7 DEF MayContinue

-----------------------------------------------------------------------------
(* What the step of one thread has to show.                                *)

\* The channels a thread in state th refers to.
Held(th) ==
    {th.lease, th.spawned} \cup Range(th.retire)
    \cup (IF th.pc \in TeardownLabels THEN {th.chan} ELSE {})

LEMMA ReferencesAreHeld == \A t \in Threads : References(t) = Held(thr[t]) /\ References(t)' = Held(thr'[t])
BY DEF References, Held, TeardownLabels

\* A channel that was started stays so or fails, and does not recover.
Fades(c) ==
    /\ chan[c].failed => chan'[c].failed
    /\ chan[c].shutdown => chan'[c].shutdown
    /\ Begun(c) => Begun(c)' /\ (Healthy(c)' => Healthy(c))

\* The handshake of the thread's new worker was answered.
Handshaken(t) == thr[t].pc = "handshaken" /\ thr[t].resp.kind = "Health"

TakesTurn(t, next) ==
    next \in ThreadStates /\ Asks(t, next) /\ OutlineOf(t, next) /\ thr' = [thr EXCEPT ![t] = next]

\* Every record counts the clients that lease its channel, and is an old one
\* or that of a new worker for a runtime that has none.
RecordsFollow(t) ==
    \A r \in workers' :
        /\ r.active = {g \in Graphs : thr'[g].lease = r.chan}
        /\ \/ \E s \in workers : s.chan = r.chan /\ s.runtime = r.runtime
           \/ /\ r.chan = thr[t].spawned /\ r.chan # NoChannel /\ r.runtime = thr[t].rt
              /\ Handshaken(t) /\ Begun(r.chan)'
              /\ \A s \in workers : Healthy(s.chan)' => s.runtime # r.runtime

\* Thread t gets hold of what it held, of a record's channel or a free one.
RefersSoundly(t, next) ==
    /\ \A c \in Held(next) \ {NoChannel} : c \in References(t) \/ RecordOf(c) # {} \/ Free(c)
    /\ next.spawned # NoChannel =>
         /\ next.spawned = thr[t].spawned \/ Free(next.spawned)
         /\ \A r \in workers' : r.chan # next.spawned
         /\ (next.pc = "wait" \/ (next.pc = "handshaken" /\ next.resp.kind = "Health")) => Begun(next.spawned)'
    /\ \A c \in Range(next.retire) : /\ \A r \in workers' : r.chan # c
                                     /\ \/ c \in Range(thr[t].retire) \/ RecordOf(c) # {}
                                        \/ c = thr[t].spawned /\ Handshaken(t)
    /\ Once(next.retire)
    /\ LeavingChannel(next) =>
         \/ LeavingChannel(thr[t]) /\ next.chan = thr[t].chan
         \/ /\ \A r \in workers' : r.chan # next.chan
            /\ \A u \in Threads \ {t} : next.chan \notin References(u)

\* Channels fade; only one that nobody else knows is made new.
ChannelsFade(t) ==
    \A c \in Channels :
        Fades(c) \/ ((\A r \in workers' : r.chan # c) /\ \A u \in Threads \ {t} : c \notin References(u))

\* What the step of a thread shows to the other threads.
Turn(t) ==
    /\ RecordsFollow(t) /\ ChannelsFade(t)
    /\ \E next \in ThreadStates : thr'[t] = next /\ TakesTurn(t, next) /\ RefersSoundly(t, next)

\* What is open stays referred to.
ClosesBehind(t, next) ==
    \A c \in Channels :
        /\ Open(c)' => Open(c) \/ c \in Held(next)
        /\ (Open(c)' /\ (c \in References(t) \/ RecordOf(c) # {}))
             => \/ c \in Held(next) \/ \E r \in workers' : r.chan = c
                \/ \E u \in Threads \ {t} : c \in References(u)
        /\ proc'[c].alive => chan'[c].pid

LEMMA TurnFacts ==
    ASSUME LeaseInv, NEW t \in Threads, NEW next, TakesTurn(t, next)
    PROVE  /\ thr' \in [Threads -> ThreadStates] /\ thr'[t] = next
           /\ \A u \in Threads \ {t} : thr'[u] = thr[u] /\ References(u)' = References(u)
           /\ References(t)' = Held(next)
           /\ Outline'
<1>1. thr \in [Threads -> ThreadStates]
  BY DEF LeaseInv, Types
<1>2. thr' \in [Threads -> ThreadStates] /\ thr'[t] = next /\ \A u \in Threads \ {t} : thr'[u] = thr[u]
  BY <1>1 DEF TakesTurn
<1>3. Outline'
  BY <1>2 DEF LeaseInv, Outline, TakesTurn
<1> QED
  BY <1>2, <1>3, ReferencesAreHeld

LEMMA RecordsKept ==
    ASSUME LeaseInv, NEW t \in Threads, RecordsFollow(t), ChannelsFade(t), workers' \subseteq Records
    PROVE  RecordsCount' /\ OneWorkerPerRuntime'
<1>1. workers \subseteq Records
  BY DEF LeaseInv, Types
<1>2. ASSUME NEW r \in workers' PROVE Fades(r.chan)
  BY <1>2 DEF ChannelsFade, Records
<1>3. ASSUME NEW r \in workers, NEW s \in workers, r.chan = s.chan PROVE r = s
  BY <1>3 DEF LeaseInv, RecordsCount
<1>4. ASSUME NEW r \in workers' PROVE Begun(r.chan)'
  <2>1. CASE \E s \in workers : s.chan = r.chan
    BY <1>2, <2>1 DEF Fades, LeaseInv, RecordsCount
  <2>2. CASE ~\E s \in workers : s.chan = r.chan
    BY <2>2 DEF RecordsFollow
  <2> QED
    BY <2>1, <2>2
<1>5. ASSUME NEW r \in workers', NEW s \in workers', r.chan = s.chan, r.runtime = s.runtime PROVE r = s
  <2>1. r.active = s.active
    BY <1>5 DEF RecordsFollow
  <2> QED
    BY <1>5, <2>1 DEF Records
<1>6. ASSUME NEW r \in workers', NEW s \in workers', r.chan = s.chan PROVE r = s
  <2>1. CASE \E q \in workers : q.chan = r.chan /\ q.runtime = r.runtime
    <3>1. PICK q \in workers : q.chan = r.chan /\ q.runtime = r.runtime
      BY <2>1
    <3>2. r.chan # thr[t].spawned \/ r.chan = NoChannel
      BY <3>1 DEF LeaseInv, SpawnedAlone, RecordOf
    <3>3. PICK p \in workers : p.chan = s.chan /\ p.runtime = s.runtime
      BY <1>6, <3>2 DEF RecordsFollow
    <3> QED
      BY <1>3, <1>5, <1>6, <3>1, <3>3
  <2>2. CASE ~\E q \in workers : q.chan = r.chan /\ q.runtime = r.runtime
    <3>1. r.chan = thr[t].spawned /\ r.chan # NoChannel /\ r.runtime = thr[t].rt
      BY <2>2 DEF RecordsFollow
    <3>2. \A q \in workers : q.chan # r.chan
      BY <3>1 DEF LeaseInv, SpawnedAlone, RecordOf
    <3>3. s.runtime = thr[t].rt
      BY <1>6, <3>2 DEF RecordsFollow
    <3> QED
      BY <1>5, <1>6, <3>1, <3>3
  <2> QED
    BY <2>1, <2>2
<1>7. ASSUME NEW r \in workers', NEW s \in workers', Healthy(r.chan)', Healthy(s.chan)', r.runtime = s.runtime
      PROVE  r = s
  <2> DEFINE Old(x) == \E q \in workers : q.chan = x.chan /\ q.runtime = x.runtime
  <2>1. ASSUME NEW x \in workers', Healthy(x.chan)', Old(x)
        PROVE  \E q \in workers : q.chan = x.chan /\ q.runtime = x.runtime /\ Healthy(q.chan)
    BY <1>2, <2>1 DEF Fades, LeaseInv, RecordsCount
  <2>2. CASE Old(r) /\ Old(s)
    <3>1. PICK p \in workers : p.chan = r.chan /\ p.runtime = r.runtime /\ Healthy(p.chan)
      BY <1>7, <2>1, <2>2
    <3>2. PICK q \in workers : q.chan = s.chan /\ q.runtime = s.runtime /\ Healthy(q.chan)
      BY <1>7, <2>1, <2>2
    <3>3. p = q
      BY <1>7, <3>1, <3>2 DEF LeaseInv, OneWorkerPerRuntime
    <3> QED
      BY <1>6, <3>1, <3>2, <3>3
  <2>3. ASSUME NEW x \in workers', NEW y \in workers', Healthy(x.chan)', x.runtime = y.runtime, Old(x), ~Old(y)
        PROVE  FALSE
    <3>1. PICK q \in workers : q.chan = x.chan /\ q.runtime = x.runtime
      BY <2>3
    <3>2. \A z \in workers : Healthy(z.chan)' => z.runtime # y.runtime
      BY <2>3 DEF RecordsFollow
    <3> QED
      BY <2>3, <3>1, <3>2
  <2>4. CASE ~Old(r) /\ ~Old(s)
    <3>1. r.chan = thr[t].spawned /\ s.chan = thr[t].spawned
      BY <2>4 DEF RecordsFollow
    <3> QED
      BY <1>6, <3>1
  <2> QED
    BY <1>7, <2>2, <2>3, <2>4
<1>8. RecordsCount'
  <2>1. \A r, s \in workers' : r.chan = s.chan => r = s
    BY <1>6
  <2>2. \A r \in workers' : r.active = {g \in Graphs : thr'[g].lease = r.chan} /\ Begun(r.chan)'
    BY <1>4 DEF RecordsFollow
  <2> QED
    BY <2>1, <2>2 DEF RecordsCount
<1>9. OneWorkerPerRuntime'
  BY <1>7 DEF OneWorkerPerRuntime
<1> QED
  BY <1>8, <1>9

LEMMA SpawnedKept ==
    ASSUME LeaseInv, NEW t \in Threads, NEW next, TakesTurn(t, next),
           RecordsFollow(t), RefersSoundly(t, next), ChannelsFade(t)
    PROVE  SpawnedAlone'
<1>1. /\ thr' \in [Threads -> ThreadStates] /\ thr'[t] = next
      /\ \A u \in Threads \ {t} : thr'[u] = thr[u] /\ References(u)' = References(u)
      /\ References(t)' = Held(next)
  BY TurnFacts
<1>2. \A u \in Threads : thr[u].spawned \in References(u)
  BY DEF References
<1>3. \A c, u : u \in Threads /\ c \in References(u) => ~Free(c)
  BY DEF Free
<1> DEFINE Started(c) == (chan'[c].pid /\ chan'[c].fd) \/ chan'[c].failed \/ chan'[c].shutdown
<1>b. \A c : Begun(c)' <=> Started(c)
  BY DEF Begun, WorkerStarted
<1> SUFFICES ASSUME NEW u \in Threads, thr'[u].spawned # NoChannel
             PROVE  /\ \A r \in workers' : r.chan # thr'[u].spawned
                    /\ \A v \in Threads \ {u} : thr'[u].spawned \notin References(v)'
                    /\ (thr'[u].pc = "wait" \/ (thr'[u].pc = "handshaken" /\ thr'[u].resp.kind = "Health"))
                         => Started(thr'[u].spawned)
  BY DEF SpawnedAlone, RecordOf, Begun, WorkerStarted
<1>4. CASE u = t
  <2>1. \A v \in Threads \ {t} : next.spawned \notin References(v)
    BY <1>1, <1>3, <1>4 DEF RefersSoundly, LeaseInv, SpawnedAlone
  <2>2. (next.pc = "wait" \/ (next.pc = "handshaken" /\ next.resp.kind = "Health")) => Started(next.spawned)
    BY <1>1, <1>4, <1>b DEF RefersSoundly
  <2> QED
    BY <1>1, <1>4, <2>1, <2>2 DEF RefersSoundly
<1>5. CASE u # t
  <2> DEFINE d == thr[u].spawned
  <2>1. thr'[u] = thr[u] /\ d # NoChannel /\ d \in Channels
    BY <1>1, <1>5 DEF LeaseInv, Types, ThreadStates
  <2>2. RecordOf(d) = {} /\ (\A v \in Threads \ {u} : d \notin References(v)) /\ ~Free(d) /\ d \in References(u)
    BY <2>1, <1>2, <1>3 DEF LeaseInv, SpawnedAlone
  <2>3. d # thr[t].spawned
    BY <1>2, <1>5, <2>2
  <2>4. \A r \in workers' : r.chan # d
    BY <2>2, <2>3 DEF RecordsFollow, RecordOf
  <2>5. \A v \in Threads \ {u} : d \notin References(v)'
    BY <1>1, <1>5, <2>1, <2>2 DEF RefersSoundly
  <2>6. Fades(d)
    BY <1>5, <2>1, <2>2 DEF ChannelsFade
  <2>7. (thr[u].pc = "wait" \/ (thr[u].pc = "handshaken" /\ thr[u].resp.kind = "Health")) => Begun(d)
    BY <2>1 DEF LeaseInv, SpawnedAlone
  <2> QED
    BY <1>b, <2>1, <2>4, <2>5, <2>6, <2>7 DEF Fades
<1> QED
  BY <1>4, <1>5

LEMMA RetiredKept ==
    ASSUME LeaseInv, NEW t \in Threads, NEW next, TakesTurn(t, next), RecordsFollow(t), RefersSoundly(t, next)
    PROVE  RetiredUnrecorded'
<1>1. thr'[t] = next /\ \A u \in Threads \ {t} : thr'[u] = thr[u]
  BY TurnFacts
<1> SUFFICES ASSUME NEW u \in Threads, NEW c \in Range(thr'[u].retire) PROVE \A r \in workers' : r.chan # c
  BY DEF RetiredUnrecorded, RecordOf
<1>2. CASE u = t
  BY <1>1, <1>2 DEF RefersSoundly
<1>3. CASE u # t
  <2>1. RecordOf(c) = {} /\ c \in References(u)
    BY <1>1, <1>3 DEF LeaseInv, RetiredUnrecorded, References
  <2>2. c = thr[t].spawned => c = NoChannel
    BY <1>3, <2>1 DEF LeaseInv, SpawnedAlone
  <2> QED
    BY <2>1, <2>2 DEF RecordsFollow, RecordOf
<1> QED
  BY <1>2, <1>3

LEMMA RequestsKept ==
    ASSUME LeaseInv, NEW t \in Threads, NEW next, TakesTurn(t, next)
    PROVE  RequestsDiffer'
<1>1. thr'[t] = next /\ \A u \in Threads \ {t} : thr'[u] = thr[u]
  BY TurnFacts
<1>2. Asks(t, next) /\ \A u \in Threads : Asks(u, thr[u])
  BY DEF TakesTurn, LeaseInv, RequestsDiffer
<1> SUFFICES ASSUME NEW u \in Threads, Transacting(thr'[u])
             PROVE  /\ thr'[u].req \in Requests
                    /\ thr'[u].req.by = IF thr'[u].ret \in LeaseLabels THEN "client" ELSE "manager"
                    /\ thr'[u].ret = "close" <=> thr'[u].req.kind = "Shutdown"
                    /\ \A v \in Threads \ {u} :
                         (Transacting(thr'[v]) /\ thr'[v].req.by = thr'[u].req.by) => thr'[v].req.id # thr'[u].req.id
  BY DEF RequestsDiffer, Asks, Transacting
<1>3. CASE u = t
  BY <1>1, <1>2, <1>3 DEF Asks
<1>4. CASE u # t
  <2>1. Transacting(thr[u]) /\ thr'[u] = thr[u]
    BY <1>1, <1>4
  <2>2. ASSUME NEW v \in Threads \ {u}, Transacting(thr'[v]), thr'[v].req.by = thr[u].req.by
        PROVE  thr'[v].req.id # thr[u].req.id
    BY <1>1, <1>2, <2>1, <2>2, <1>4 DEF Asks
  <2> QED
    BY <1>2, <2>1, <2>2 DEF Asks
<1> QED
  BY <1>3, <1>4

LEMMA OnceKept ==
    ASSUME LeaseInv, NEW t \in Threads, NEW next, TakesTurn(t, next), RefersSoundly(t, next)
    PROVE  RetiredOnce'
<1>1. thr'[t] = next /\ \A u \in Threads \ {t} : thr'[u] = thr[u]
  BY TurnFacts
<1>2. ASSUME NEW u \in Threads \ {t} PROVE Range(thr[u].retire) \cap Range(next.retire) = {}
  <2> SUFFICES ASSUME NEW c \in Range(thr[u].retire), c \in Range(next.retire) PROVE FALSE
    OBVIOUS
  <2>1. RecordOf(c) = {} /\ c \in References(u) /\ c \notin Range(thr[t].retire)
    BY DEF LeaseInv, RetiredUnrecorded, RetiredOnce, References
  <2>2. c # NoChannel
    <3>1. thr[u].retire \in Seq(Channels)
      BY DEF LeaseInv, Types, ThreadStates
    <3> QED
      BY <3>1, ControlAssumption DEF Range, NoChannel
  <2>3. c # thr[t].spawned
    BY <2>1, <2>2 DEF LeaseInv, SpawnedAlone
  <2> QED
    BY <2>1, <2>3 DEF RefersSoundly
<1>3. Once(next.retire)
  BY DEF RefersSoundly
<1> SUFFICES ASSUME NEW u \in Threads
             PROVE  /\ Once(thr'[u].retire)
                    /\ \A v \in Threads \ {u} : Range(thr'[u].retire) \cap Range(thr'[v].retire) = {}
  BY DEF RetiredOnce, Once
<1>4. CASE u = t
  BY <1>1, <1>2, <1>3, <1>4
<1>5. CASE u # t
  BY <1>1, <1>2, <1>5 DEF LeaseInv, RetiredOnce
<1> QED
  BY <1>4, <1>5

LEMMA LeavesKept ==
    ASSUME LeaseInv, NEW t \in Threads, NEW next, TakesTurn(t, next), RecordsFollow(t), RefersSoundly(t, next)
    PROVE  LeavesAlone'
<1>1. /\ thr'[t] = next /\ References(t)' = Held(next)
      /\ \A u \in Threads \ {t} : thr'[u] = thr[u] /\ References(u)' = References(u)
  BY TurnFacts
<1>2. \A u \in Threads : LeavingChannel(thr[u]) => thr[u].chan \in References(u) /\ thr[u].chan # NoChannel
  BY DEF LeavingChannel, References, TeardownLabels
<1>3. \A u \in Threads : thr[u].spawned \in References(u)
  BY DEF References
<1> SUFFICES ASSUME NEW u \in Threads, LeavingChannel(thr'[u])
             PROVE  /\ \A r \in workers' : r.chan # thr'[u].chan
                    /\ \A v \in Threads \ {u} : thr'[u].chan \notin References(v)'
  BY DEF LeavesAlone, Alone, RecordOf, LeavingChannel, HoldsOnly
<1>4. ASSUME LeavingChannel(thr[u]), thr'[u].chan = thr[u].chan
      PROVE  \A r \in workers' : r.chan # thr'[u].chan
  <2>1. Alone(u, thr[u].chan)
    BY <1>4 DEF LeaseInv, LeavesAlone
  <2>2. CASE u # t
    BY <1>3, <1>4, <2>1, <2>2 DEF RecordsFollow, Alone, RecordOf
  <2>3. CASE u = t
    BY <1>4, <2>1, <2>3 DEF RecordsFollow, Alone, RecordOf, LeavingChannel, HoldsOnly
  <2> QED
    BY <2>2, <2>3
<1>5. CASE u = t
  <2>1. LeavingChannel(thr[t]) /\ next.chan = thr[t].chan => \A v \in Threads \ {t} : next.chan \notin References(v)
    BY DEF LeaseInv, LeavesAlone, Alone
  <2> QED
    BY <1>1, <1>4, <1>5, <2>1 DEF RefersSoundly
<1>6. CASE u # t
  <2>1. LeavingChannel(thr[u]) /\ Alone(u, thr[u].chan) /\ ~Free(thr[u].chan)
    BY <1>1, <1>2, <1>6 DEF LeaseInv, LeavesAlone, Free
  <2>2. thr[u].chan \notin Held(next)
    BY <1>2, <1>6, <2>1 DEF RefersSoundly, Alone
  <2> QED
    BY <1>1, <1>4, <1>6, <2>1, <2>2 DEF Alone
<1> QED
  BY <1>5, <1>6

LEMMA ReferredKept ==
    ASSUME LeaseInv, NEW t \in Threads, NEW next, TakesTurn(t, next), ClosesBehind(t, next)
    PROVE  OpenIsReferred'
<1>1. /\ \A u \in Threads \ {t} : References(u)' = References(u)
      /\ References(t)' = Held(next)
  BY TurnFacts
<1> SUFFICES ASSUME NEW c \in Channels
             PROVE  /\ Open(c)' => (\E r \in workers' : r.chan = c) \/ \E u \in Threads : c \in References(u)'
                    /\ proc'[c].alive => chan'[c].pid
  BY DEF OpenIsReferred, Referred, RecordOf
<1>2. proc'[c].alive => chan'[c].pid
  BY DEF ClosesBehind
<1>3. ASSUME Open(c)', c \notin Held(next)
      PROVE  (\E r \in workers' : r.chan = c) \/ \E u \in Threads \ {t} : c \in References(u)
  <2>1. RecordOf(c) # {} \/ \E u \in Threads : c \in References(u)
    BY <1>3 DEF ClosesBehind, LeaseInv, OpenIsReferred, Referred
  <2> QED
    BY <1>3, <2>1 DEF ClosesBehind
<1> QED
  BY <1>1, <1>2, <1>3

\* The manager's destructor runs after all clients, and nobody starts after it.
ExitIsLast(t) ==
    IF t = Exit THEN workers' = {} /\ \A g \in Graphs : thr[g].pc = "idle" /\ ~thr[g].running
    ELSE thr[Exit].pc = "idle"

LEMMA ExitKept ==
    ASSUME LeaseInv, NEW t \in Threads, NEW next, TakesTurn(t, next), ExitIsLast(t)
    PROVE  ExitIsAlone'
<1>1. \A u \in Threads \ {t} : thr'[u] = thr[u]
  BY TurnFacts
<1>2. Exit \in Threads /\ Graphs \subseteq Threads /\ Exit \notin Graphs
  BY ControlAssumption DEF Threads
<1> QED
  BY <1>1, <1>2 DEF ExitIsLast, ExitIsAlone

\* All together: what a thread's step has to show to keep the invariant.
LEMMA StepKeeps ==
    ASSUME LeaseInv, NEW t \in Threads, NEW next, TakesTurn(t, next), Types',
           RecordsFollow(t), RefersSoundly(t, next), ChannelsFade(t), ClosesBehind(t, next), ExitIsLast(t)
    PROVE  LeaseInv' /\ Turn(t)
<1>1. workers' \subseteq Records
  BY DEF Types
<1>2. Outline' /\ thr'[t] = next
  BY TurnFacts
<1>3. Turn(t)
  BY <1>2 DEF Turn, TakesTurn
<1> QED
  BY <1>1, <1>2, <1>3, RecordsKept, SpawnedKept, RetiredKept, RequestsKept, OnceKept, LeavesKept, ReferredKept, ExitKept
    DEF LeaseInv

-----------------------------------------------------------------------------
(* The first state, the readers and the worker processes.                  *)

LEMMA InitKeeps == Init => LeaseInv
<1> SUFFICES ASSUME Init PROVE LeaseInv
  OBVIOUS
<1>1. /\ chan = [c \in Channels |-> NewChannel] /\ proc = [c \in Channels |-> NoWorker]
      /\ toWorker = [c \in Channels |-> << >>] /\ toClient = [c \in Channels |-> << >>]
      /\ workers = {} /\ thr = [t \in Threads |-> NewThread]
  BY DEF Init, ChannelInit
<1>2. Types
  <2>1. << >> \in Seq(Requests) /\ << >> \in Seq(Events)
    OBVIOUS
  <2>2. NewChannel.responses = {}
    BY DEF NewChannel
  <2> QED
    BY <1>1, <2>1, <2>2, NewThreadTyped, FS_EmptySet DEF Types
<1>3. /\ NewThread.lease = NoChannel /\ NewThread.spawned = NoChannel /\ NewThread.retire = << >>
      /\ NewThread.pc = "idle" /\ ~NewThread.running
  BY DEF NewThread
<1>4. Outline
  BY <1>1, <1>3 DEF Outline, OutlineOf, Resting, HoldsOnly
<1>5. Exit \in Threads
  BY DEF Threads
<1>6. ExitIsAlone
  BY <1>1, <1>3, <1>5 DEF ExitIsAlone
<1>7. SpawnedAlone /\ RetiredUnrecorded /\ RecordsCount /\ OneWorkerPerRuntime
  BY <1>1, <1>3 DEF SpawnedAlone, RetiredUnrecorded, RecordOf, RecordsCount, OneWorkerPerRuntime
<1>8. OpenIsReferred
  <2>1. ~NewChannel.fd /\ ~NewChannel.pid /\ NewChannel.reader = "none" /\ ~NoWorker.alive
    BY DEF NewChannel, NoWorker
  <2> QED
    BY <1>1, <2>1 DEF OpenIsReferred, Open
<1>9. RequestsDiffer /\ RetiredOnce /\ LeavesAlone
  <2>1. NewThread.pc \notin TransactionLabels \cup TeardownLabels
    BY <1>3 DEF TransactionLabels, TeardownLabels
  <2>2. Range(<< >>) = {} /\ Once(<< >>)
    BY DEF Range, Once
  <2>3. \A t \in Threads : thr[t] = NewThread
    BY <1>1
  <2> QED
    BY <1>3, <2>1, <2>2, <2>3 DEF RequestsDiffer, Asks, Transacting, RetiredOnce, LeavesAlone, LeavingChannel
<1> QED
  BY <1>2, <1>4, <1>6, <1>7, <1>8, <1>9 DEF LeaseInv

\* A step below the client's threads keeps the invariant when channels only
\* close and fade.
LEMMA ChannelKeeps ==
    ASSUME LeaseInv, Types', UNCHANGED <<thr, workers>>,
           \A c \in Channels : Fades(c) /\ (Open(c)' => Open(c)) /\ (proc'[c].alive => chan'[c].pid)
    PROVE  LeaseInv'
<1> DEFINE Started(c) == (chan'[c].pid /\ chan'[c].fd) \/ chan'[c].failed \/ chan'[c].shutdown
<1> DEFINE Well(c) == ~chan'[c].shutdown /\ ~chan'[c].failed /\ chan'[c].pid /\ chan'[c].fd
<1>b. \A c : (Begun(c)' <=> Started(c)) /\ (Healthy(c)' <=> Well(c))
  BY DEF Begun, WorkerStarted, Healthy
<1>1. thr' = thr /\ workers' = workers /\ thr \in [Threads -> ThreadStates] /\ workers \subseteq Records
  BY DEF LeaseInv, Types
<1>2. \A t \in Threads : References(t)' = References(t)
  BY <1>1, ReferencesAreHeld
<1>3. Outline' /\ ExitIsAlone' /\ RetiredUnrecorded'
  BY <1>1 DEF LeaseInv, Outline, ExitIsAlone, RetiredUnrecorded, RecordOf
<1>4. \A c \in Channels : (Begun(c) => Started(c)) /\ (Begun(c) /\ Well(c) => Healthy(c))
  BY <1>b DEF Fades
<1> HIDE DEF Started, Well
<1>5. SpawnedAlone'
  <2> SUFFICES ASSUME NEW t \in Threads, thr[t].spawned # NoChannel
               PROVE  /\ \A r \in workers : r.chan # thr[t].spawned
                      /\ \A u \in Threads \ {t} : thr[t].spawned \notin References(u)
                      /\ (thr[t].pc = "wait" \/ (thr[t].pc = "handshaken" /\ thr[t].resp.kind = "Health"))
                           => Started(thr[t].spawned)
    BY <1>1, <1>2 DEF SpawnedAlone, RecordOf, Begun, WorkerStarted, Started
  <2>1. thr[t].spawned \in Channels
    BY <1>1 DEF ThreadStates
  <2>2. /\ RecordOf(thr[t].spawned) = {}
        /\ \A u \in Threads \ {t} : thr[t].spawned \notin References(u)
        /\ (thr[t].pc = "wait" \/ (thr[t].pc = "handshaken" /\ thr[t].resp.kind = "Health"))
             => Begun(thr[t].spawned)
    BY DEF LeaseInv, SpawnedAlone
  <2> QED
    BY <1>4, <2>1, <2>2 DEF RecordOf
<1>6. RecordsCount'
  <2>1. \A r \in workers : r.chan \in Channels /\ Begun(r.chan)
    BY <1>1 DEF LeaseInv, RecordsCount, Records
  <2>2. \A r \in workers : Begun(r.chan)'
    BY <1>b, <1>4, <2>1
  <2> QED
    BY <1>1, <2>2 DEF LeaseInv, RecordsCount
<1>7. OneWorkerPerRuntime'
  <2>1. \A r \in workers : r.chan \in Channels /\ Begun(r.chan)
    BY <1>1 DEF LeaseInv, RecordsCount, Records
  <2>2. \A r \in workers : Healthy(r.chan)' => Healthy(r.chan)
    BY <1>b, <1>4, <2>1
  <2> QED
    BY <1>1, <2>2 DEF LeaseInv, OneWorkerPerRuntime
<1>8. OpenIsReferred'
  BY <1>1, <1>2 DEF LeaseInv, OpenIsReferred, Referred, RecordOf
<1>9. RequestsDiffer' /\ RetiredOnce'
  BY <1>1 DEF LeaseInv, RequestsDiffer, Asks, Transacting, RetiredOnce, Once
<1>10. LeavesAlone'
  <2> SUFFICES ASSUME NEW t \in Threads, LeavingChannel(thr[t])
               PROVE  /\ \A r \in workers : r.chan # thr[t].chan
                      /\ \A u \in Threads \ {t} : thr[t].chan \notin References(u)
    BY <1>1, <1>2 DEF LeavesAlone, Alone, RecordOf, LeavingChannel, HoldsOnly
  <2> QED
    BY DEF LeaseInv, LeavesAlone, Alone, RecordOf
<1> QED
  BY <1>3, <1>5, <1>6, <1>7, <1>8, <1>9, <1>10 DEF LeaseInv

LEMMA ReaderKeeps ==
    ASSUME LeaseInv, NEW c \in Channels, ReaderFiles(c) \/ ReaderFails(c), UNCHANGED workers
    PROVE  LeaseInv'
<1> DEFINE ch == chan[c]
<1>1. /\ chan \in [Channels -> ChannelStates] /\ ch \in ChannelStates
      /\ toClient \in [Channels -> Seq(Events)] /\ toClient[c] \in Seq(Events)
      /\ \A d \in Channels : \A e, f \in chan[d].responses : e.id = f.id => e = f
  BY DEF LeaseInv, Types
<1>2. /\ UNCHANGED <<toWorker, proc, thr, faults, aborted>> /\ ch.reader = "running"
      /\ \A d \in Channels \ {c} : chan'[d] = chan[d]
  BY <1>1 DEF ReaderFiles, ReaderFails
<1>3. /\ toClient' \in [Channels -> Seq(Events)]
      /\ \E R \in SUBSET Events :
           /\ \A e, f \in R : e.id = f.id => e = f
           /\ chan'[c] \in {[ch EXCEPT !.reader = "ended"], [ch EXCEPT !.responses = R],
                            [ch EXCEPT !.reader = "ended", !.failed = TRUE]}
      /\ chan' = [chan EXCEPT ![c] = chan'[c]]
  <2>1. CASE ReaderFails(c)
    <3>1. [MarkedFailed(ch) EXCEPT !.reader = "ended"] = [ch EXCEPT !.reader = "ended", !.failed = TRUE]
      BY <1>1 DEF MarkedFailed, ChannelStates
    <3>2. chan' = [chan EXCEPT ![c] = [MarkedFailed(ch) EXCEPT !.reader = "ended"]] /\ toClient' = toClient
      BY <1>1, <2>1 DEF ReaderFails
    <3>3. chan'[c] = [MarkedFailed(ch) EXCEPT !.reader = "ended"]
      BY <1>1, <3>2
    <3>4. chan' = [chan EXCEPT ![c] = chan'[c]]
      BY <3>2, <3>3
    <3>5. {} \in SUBSET Events /\ \A e, f \in {} : e.id = f.id => e = f
      OBVIOUS
    <3>6. chan'[c] = [ch EXCEPT !.reader = "ended", !.failed = TRUE]
      BY <3>1, <3>3
    <3> QED
      BY <1>1, <3>2, <3>4, <3>5, <3>6
  <2>2. CASE ReaderFiles(c)
    <3> DEFINE ev == Head(toClient[c])
    <3> DEFINE R == {e \in ch.responses : e.id # ev.id} \cup {ev}
    <3>1. ev \in Events /\ Tail(toClient[c]) \in Seq(Events)
      BY <1>1, <2>2, HeadTailProperties DEF ReaderFiles
    <3>2. R \in SUBSET Events /\ \A e, f \in R : e.id = f.id => e = f
      BY <1>1, <3>1 DEF ChannelStates
    <3> DEFINE x == IF ch.shutdown \/ ch.failed THEN [ch EXCEPT !.reader = "ended"] ELSE [ch EXCEPT !.responses = R]
    <3>3. chan' = [chan EXCEPT ![c] = x] /\ toClient' = [toClient EXCEPT ![c] = Tail(toClient[c])]
      <4>1. chan' = [chan EXCEPT ![c] =
                       IF ch.shutdown \/ ch.failed
                       THEN [ch EXCEPT !.reader = "ended"]
                       ELSE [ch EXCEPT !.responses = {e \in ch.responses : e.id # ev.id} \cup {ev}]]
        BY <2>2 DEF ReaderFiles
      <4>2. toClient' = [toClient EXCEPT ![c] = Tail(toClient[c])]
        BY <2>2 DEF ReaderFiles
      <4> QED
        BY <4>1, <4>2
    <3> HIDE DEF R, ev
    <3>4. x \in {[ch EXCEPT !.reader = "ended"], [ch EXCEPT !.responses = R]}
      OBVIOUS
    <3> HIDE DEF x
    <3>5. chan'[c] = x
      BY <1>1, <3>3
    <3>6. chan' = [chan EXCEPT ![c] = chan'[c]]
      BY <3>3, <3>5
    <3>7. toClient' \in [Channels -> Seq(Events)]
      BY <1>1, <3>1, <3>3 DEF ev
    <3> QED
      BY <3>2, <3>4, <3>5, <3>6, <3>7
  <2> QED
    BY <2>1, <2>2
<1>4. /\ chan'[c] \in ChannelStates
      /\ \A e, f \in chan'[c].responses : e.id = f.id => e = f
      /\ chan'[c].fd = ch.fd /\ chan'[c].pid = ch.pid /\ chan'[c].shutdown = ch.shutdown
      /\ ch.failed => chan'[c].failed
  <2>1. PICK R \in SUBSET Events :
           /\ \A e, f \in R : e.id = f.id => e = f
           /\ chan'[c] \in {[ch EXCEPT !.reader = "ended"], [ch EXCEPT !.responses = R],
                            [ch EXCEPT !.reader = "ended", !.failed = TRUE]}
    BY <1>3
  <2>2. CASE chan'[c] = [ch EXCEPT !.reader = "ended"]
    BY <1>1, <2>2 DEF ChannelStates
  <2>3. CASE chan'[c] = [ch EXCEPT !.responses = R]
    BY <1>1, <2>1, <2>3 DEF ChannelStates
  <2>4. CASE chan'[c] = [ch EXCEPT !.reader = "ended", !.failed = TRUE]
    BY <1>1, <2>4 DEF ChannelStates
  <2> QED
    BY <2>1, <2>2, <2>3, <2>4
<1>5. chan' \in [Channels -> ChannelStates]
  BY <1>1, <1>3, <1>4
<1>6. Types'
  BY <1>1, <1>2, <1>3, <1>4, <1>5 DEF LeaseInv, Types
<1>7. ASSUME NEW d \in Channels
      PROVE  Fades(d) /\ (Open(d)' => Open(d)) /\ (proc'[d].alive => chan'[d].pid)
  <2>1. CASE d = c
    BY <1>1, <1>2, <1>4, <2>1 DEF Fades, Begun, WorkerStarted, Healthy, Open, LeaseInv, OpenIsReferred
  <2>2. CASE d # c
    BY <1>2, <2>2 DEF Fades, Begun, WorkerStarted, Healthy, Open, LeaseInv, OpenIsReferred
  <2> QED
    BY <2>1, <2>2
<1> QED
  BY <1>2, <1>6, <1>7, ChannelKeeps

LEMMA WorkerKeeps ==
    ASSUME LeaseInv, NEW c \in Channels, UNCHANGED workers,
           \/ WorkerHandles(c) \/ WorkerReadsEof(c) \/ WorkerCrashes(c) \/ WorkerHangs(c)
           \/ \E g \in Graphs : SessionFails(c, g)
    PROVE  LeaseInv'
<1>1. /\ proc \in [Channels -> WorkerStates] /\ proc[c] \in WorkerStates
      /\ toWorker \in [Channels -> Seq(Requests)] /\ toWorker[c] \in Seq(Requests)
      /\ toClient \in [Channels -> Seq(Events)] /\ toClient[c] \in Seq(Events)
  BY DEF LeaseInv, Types
<1>2. /\ UNCHANGED <<chan, thr>> /\ proc[c].alive
      /\ proc' \in [Channels -> WorkerStates] /\ \A d \in Channels \ {c} : proc'[d] = proc[d]
      /\ toWorker' \in [Channels -> Seq(Requests)] /\ toClient' \in [Channels -> Seq(Events)]
  <2>1. CASE WorkerHandles(c)
    <3> DEFINE r == Head(toWorker[c])
    <3>1. r \in Requests /\ Tail(toWorker[c]) \in Seq(Requests)
      BY <1>1, <2>1, HeadTailProperties DEF WorkerHandles
    <3>2. PICK o \in Handle(proc[c], r) :
            /\ proc' = [proc EXCEPT ![c] = IF chan[c].fd /\ ~o.w.shutdown THEN o.w ELSE NoWorker]
            /\ toClient' = [toClient EXCEPT ![c] = IF chan[c].fd THEN Append(@, o.ev) ELSE @]
      BY <2>1 DEF WorkerHandles
    <3>3. o.w \in WorkerStates /\ o.ev \in Events
      BY <1>1, <3>1, HandleTyped
    <3>4. Append(toClient[c], o.ev) \in Seq(Events)
      BY <1>1, <3>3
    <3>5. UNCHANGED <<chan, thr>> /\ proc[c].alive /\ toWorker' = [toWorker EXCEPT ![c] = Tail(@)]
      BY <2>1 DEF WorkerHandles
    <3> HIDE DEF r
    <3>6. proc' \in [Channels -> WorkerStates] /\ \A d \in Channels \ {c} : proc'[d] = proc[d]
      BY <1>1, <3>2, <3>3, NewThreadTyped
    <3>7. toClient' \in [Channels -> Seq(Events)]
      BY <1>1, <3>2, <3>4
    <3>8. toWorker' \in [Channels -> Seq(Requests)]
      BY <1>1, <3>1, <3>5
    <3> QED
      BY <3>5, <3>6, <3>7, <3>8
  <2>2. CASE WorkerReadsEof(c)
    BY <1>1, <2>2, NewThreadTyped DEF WorkerReadsEof
  <2>3. CASE WorkerCrashes(c)
    <3>1. << >> \in Seq(Requests)
      OBVIOUS
    <3> QED
      BY <1>1, <2>3, <3>1, NewThreadTyped DEF WorkerCrashes
  <2>4. CASE WorkerHangs(c)
    <3>1. [proc[c] EXCEPT !.hung = TRUE] \in WorkerStates
      BY <1>1 DEF WorkerStates
    <3> QED
      BY <1>1, <2>4, <3>1 DEF WorkerHangs
  <2>5. CASE \E g \in Graphs : SessionFails(c, g)
    <3>1. PICK g \in Graphs : SessionFails(c, g)
      BY <2>5
    <3>2. [proc[c] EXCEPT !.sick = @ \cup {g}] \in WorkerStates
      BY <1>1, <3>1 DEF WorkerStates
    <3> QED
      BY <1>1, <3>1, <3>2 DEF SessionFails
  <2> QED
    BY <2>1, <2>2, <2>3, <2>4, <2>5
<1>3. Types'
  BY <1>2 DEF LeaseInv, Types
<1>4. ASSUME NEW d \in Channels
      PROVE  Fades(d) /\ (Open(d)' => Open(d)) /\ (proc'[d].alive => chan'[d].pid)
  BY <1>2 DEF Fades, Begun, WorkerStarted, Healthy, Open, LeaseInv, OpenIsReferred
<1> QED
  BY <1>2, <1>3, <1>4, ChannelKeeps

-----------------------------------------------------------------------------
(* Transactions and teardowns.                                             *)

\* Whoever is busy is the manager's destructor or runs before it.
LEMMA BusyAlone ==
    ASSUME LeaseInv, NEW t \in Threads, thr[t].pc # "idle" \/ (t \in Graphs /\ thr[t].running)
    PROVE  IF t = Exit THEN workers = {} /\ \A g \in Graphs : thr[g].pc = "idle" /\ ~thr[g].running
           ELSE t \in Graphs /\ thr[Exit].pc = "idle"
<1>1. thr[Exit].pc # "idle" => workers = {} /\ \A g \in Graphs : thr[g].pc = "idle" /\ ~thr[g].running
  BY DEF LeaseInv, ExitIsAlone
<1>2. t # Exit <=> t \in Graphs
  BY ControlAssumption DEF Threads
<1> QED
  BY <1>1, <1>2

\* The locals of a transaction's and a teardown's callers.
SameLocals(next, th) ==
    /\ next.lease = th.lease /\ next.spawned = th.spawned /\ next.retire = th.retire
    /\ next.rt = th.rt /\ next.after = th.after /\ next.cret = th.cret
    /\ next.running = th.running /\ next.chan = th.chan

\* A leg of a transaction or a teardown, which may change its own channel
\* but starts it only on its own behalf.
LEMMA LegKeeps ==
    ASSUME LeaseInv, NEW t \in Threads, NEW next \in ThreadStates, UNCHANGED workers, Types',
           NEW c \in Channels, c = thr[t].chan,
           thr' = [thr EXCEPT ![t] = next], SameLocals(next, thr[t]),
           \/ thr[t].pc \in TransactionLabels /\ next.pc \in TransactionLabels /\ next.ret = thr[t].ret /\ next.req = thr[t].req
           \/ thr[t].pc \in TransactionLabels /\ next.pc = thr[t].ret
           \/ thr[t].pc \in TeardownLabels /\ next.pc \in TeardownLabels,
           \A d \in Channels \ {c} : chan'[d] = chan[d] /\ proc'[d] = proc[d],
           Fades(c), proc'[c].alive => chan'[c].pid,
           (next.pc = "wait" \/ (next.pc = "handshaken" /\ next.resp.kind = "Health")) => Begun(c)'
    PROVE  LeaseInv' /\ Turn(t)
<1> DEFINE th == thr[t]
<1>1. /\ th \in ThreadStates /\ c \in References(t)
      /\ th.pc \in TransactionLabels =>
           th.ret \in Returns /\ (Handshaking(th) \/ OnLease(th) \/ RetiringWorkers(t, th))
      /\ th.pc \in TeardownLabels => RetiringWorkers(t, th) \/ LeavingChannel(th)
  BY OutlineFacts
<1>2. \A l \in LeaseLabels \cup {"handshaken"} : l \notin TransactionLabels \cup TeardownLabels
  BY DEF LeaseLabels, TransactionLabels, TeardownLabels
<1>3. TransactionLabels \cap TeardownLabels = {} /\ TransactionLabels \cap Returns = {}
  BY DEF TransactionLabels, TeardownLabels, Returns, LeaseLabels
<1>4. \/ Place(th) = Place(next)
      \/ Place(th) \in TeardownLabels /\ Place(next) \in TeardownLabels
  <2>1. CASE th.pc \in TransactionLabels /\ next.pc \in TransactionLabels /\ next.ret = th.ret /\ next.req = th.req
    BY <2>1 DEF Place, Transacting
  <2>2. CASE th.pc \in TransactionLabels /\ next.pc = th.ret
    <3>1. next.pc \notin TransactionLabels
      BY <1>1, <1>3, <2>2
    <3> QED
      BY <2>2, <3>1 DEF Place, Transacting
  <2>3. CASE th.pc \in TeardownLabels /\ next.pc \in TeardownLabels
    <3>1. th.pc \notin TransactionLabels /\ next.pc \notin TransactionLabels
      BY <1>3, <2>3
    <3> QED
      BY <2>3, <3>1 DEF Place, Transacting
  <2> QED
    BY <2>1, <2>2, <2>3
<1>5. Transacting(next) => Transacting(th)
  BY <1>1, <1>3 DEF Transacting
<1>6. /\ Handshaking(th) => Handshaking(next)
      /\ OnLease(th) => OnLease(next)
      /\ RetiringWorkers(t, th) => RetiringWorkers(t, next)
      /\ LeavingChannel(th) /\ th.pc \in TeardownLabels => LeavingChannel(next)
  <2>1. Handshaking(th) => Handshaking(next)
    BY <1>2, <1>4, <1>5 DEF Handshaking, HoldsOnly, SameLocals
  <2>2. OnLease(th) => OnLease(next)
    BY <1>2, <1>4, <1>5 DEF OnLease, HoldsOnly, SameLocals
  <2>3. RetiringWorkers(t, th) => RetiringWorkers(t, next)
    BY <1>4 DEF RetiringWorkers, SameLocals
  <2>4. LeavingChannel(th) /\ th.pc \in TeardownLabels => LeavingChannel(next)
    BY <1>3 DEF LeavingChannel, HoldsOnly, SameLocals
  <2> QED
    BY <2>1, <2>2, <2>3, <2>4
<1>a. Asks(t, next)
  <2>1. Transacting(next) => next.req = th.req /\ next.ret = th.ret
    BY <1>1, <1>3 DEF Transacting
  <2> QED
    BY <1>5, <2>1 DEF LeaseInv, RequestsDiffer, Asks
<1>7. TakesTurn(t, next)
  BY <1>1, <1>6, <1>a DEF TakesTurn, OutlineOf
<1>8. Held(next) = References(t)
  <2>1. Held(th) = References(t) /\ c \in Held(th)
    BY <1>1, ReferencesAreHeld
  <2> QED
    BY <1>1, <1>3, <2>1 DEF Held, SameLocals
<1>9. RecordsFollow(t)
  <2>1. \A g \in Graphs : thr'[g].lease = thr[g].lease
    BY <1>7, TurnFacts DEF SameLocals, Threads
  <2> QED
    BY <2>1 DEF RecordsFollow, LeaseInv, RecordsCount
<1>10. RefersSoundly(t, next)
  <2>b. next.retire = th.retire
    BY DEF SameLocals
  <2>a. /\ \A d \in Range(next.retire) : (\A r \in workers' : r.chan # d) /\ d \in Range(th.retire)
        /\ Once(next.retire)
    BY <2>b DEF LeaseInv, RetiredUnrecorded, RetiredOnce, RecordOf
  <2>c. LeavingChannel(next) => LeavingChannel(th) /\ next.chan = th.chan
    <3>1. ASSUME LeavingChannel(next) PROVE th.pc \in TeardownLabels
      <4>1. next.pc \in TeardownLabels /\ th.cret = "returned"
        BY <3>1 DEF LeavingChannel, SameLocals
      <4>2. ~RetiringWorkers(t, th)
        BY <4>1 DEF RetiringWorkers
      <4>3. CASE th.pc \in TransactionLabels
        <5>1. next.pc = th.ret /\ Place(th) = th.ret
          BY <1>3, <4>1, <4>3 DEF Place, Transacting
        <5> QED
          BY <1>1, <1>2, <4>1, <4>2, <4>3, <5>1 DEF Handshaking, OnLease
      <4> QED
        BY <4>3
    <3> QED
      BY <3>1 DEF LeavingChannel, HoldsOnly, SameLocals
  <2>1. CASE next.spawned # NoChannel
    <3>1. /\ RecordOf(next.spawned) = {} /\ next.spawned = th.spawned
      BY <2>1 DEF LeaseInv, SpawnedAlone, SameLocals
    <3>2. Handshaking(th)
      BY <1>1, <1>3, <2>1 DEF SameLocals, OnLease, HoldsOnly, RetiringWorkers, LeavingChannel
    <3>3. th.pc \in TransactionLabels => c = next.spawned
      BY <3>1, <3>2 DEF Handshaking, Transacting
    <3>4. "wait" \notin TeardownLabels /\ "handshaken" \notin TeardownLabels
      BY DEF TeardownLabels
    <3>5. next.pc \in {"wait", "handshaken"} => th.pc \in TransactionLabels
      BY <3>4
    <3>6. (next.pc = "wait" \/ (next.pc = "handshaken" /\ next.resp.kind = "Health")) => Begun(next.spawned)'
      BY <3>3, <3>5
    <3> QED
      BY <1>8, <2>a, <2>c, <2>1, <3>1, <3>6 DEF RefersSoundly, RecordOf
  <2>2. CASE next.spawned = NoChannel
    BY <1>8, <2>a, <2>c, <2>2 DEF RefersSoundly
  <2> QED
    BY <2>1, <2>2
<1>11. \A d \in Channels \ {c} : Fades(d) /\ (Open(d)' => Open(d)) /\ (proc'[d].alive => chan'[d].pid)
  BY DEF Fades, Begun, WorkerStarted, Healthy, Open, LeaseInv, OpenIsReferred
<1>12. ChannelsFade(t)
  BY <1>11 DEF ChannelsFade
<1>13. ClosesBehind(t, next)
  BY <1>1, <1>8, <1>11 DEF ClosesBehind, RecordOf
<1>14. ExitIsLast(t)
  <2>1. th.pc # "idle"
    BY DEF TransactionLabels, TeardownLabels
  <2> QED
    BY <2>1, BusyAlone DEF ExitIsLast
<1> QED
  BY <1>7, <1>9, <1>10, <1>12, <1>13, <1>14, StepKeeps

Answered(th, ev) == [th EXCEPT !.pc = th.ret, !.resp = ev, !.req = NoRequest, !.ret = "idle"]
At(th, label) == [th EXCEPT !.pc = label]

LEMMA AnsweredTyped ==
    ASSUME NEW th \in ThreadStates, NEW ev \in Events, th.ret \in Returns
    PROVE  /\ Answered(th, ev) \in ThreadStates /\ SameLocals(Answered(th, ev), th)
           /\ Answered(th, ev).pc = th.ret /\ Answered(th, ev).resp = ev
<1>1. Answered(th, ev) \in ThreadStates
  BY DEF Answered, ThreadStates
<1>2. Answered(th, ev).pc = th.ret /\ Answered(th, ev).resp = ev
  BY DEF Answered, ThreadStates
<1>3. SameLocals(Answered(th, ev), th)
  BY DEF Answered, SameLocals
<1> QED
  BY <1>1, <1>2, <1>3

LEMMA AtTyped ==
    ASSUME NEW th \in ThreadStates, NEW label \in TransactionLabels \cup TeardownLabels
    PROVE  /\ At(th, label) \in ThreadStates /\ SameLocals(At(th, label), th)
           /\ At(th, label).pc = label /\ At(th, label).ret = th.ret
           /\ At(th, label).req = th.req
BY DEF At, SameLocals, ThreadStates

LEMMA ThreadMoves ==
    ASSUME Types, NEW t \in Threads
    PROVE  /\ \A ev : Return(t, ev) => thr' = [thr EXCEPT ![t] = Answered(thr[t], ev)]
           /\ \A l : thr' = [thr EXCEPT ![t].pc = l] => thr' = [thr EXCEPT ![t] = At(thr[t], l)]
           /\ \A th \in ThreadStates :
                thr' = [thr EXCEPT ![t] = th] => thr' \in [Threads -> ThreadStates]
<1>1. thr \in [Threads -> ThreadStates] /\ thr[t] \in ThreadStates
  BY DEF Types
<1>2. ASSUME NEW ev, Return(t, ev) PROVE thr' = [thr EXCEPT ![t] = Answered(thr[t], ev)]
  BY <1>1, <1>2 DEF Return, Answered, ThreadStates
<1>3. ASSUME NEW l, thr' = [thr EXCEPT ![t].pc = l] PROVE thr' = [thr EXCEPT ![t] = At(thr[t], l)]
  BY <1>3 DEF At
<1>4. ASSUME NEW th \in ThreadStates, thr' = [thr EXCEPT ![t] = th]
      PROVE  thr' \in [Threads -> ThreadStates]
  BY <1>1, <1>4
<1> QED
  BY <1>2, <1>3, <1>4

\* A channel that fails fades; one that is closed keeps its process.
LEMMA FailedFades ==
    ASSUME LeaseInv, NEW c \in Channels, NEW ch \in ChannelStates, chan' = [chan EXCEPT ![c] = ch],
           ch.failed \/ ch.shutdown \/ (ch.fd = chan[c].fd /\ chan[c].failed = ch.failed /\ chan[c].shutdown = ch.shutdown),
           chan[c].failed => ch.failed, chan[c].shutdown => ch.shutdown,
           ch.pid = chan[c].pid, proc' = proc
    PROVE  /\ Fades(c) /\ (proc'[c].alive => chan'[c].pid)
           /\ \A d \in Channels \ {c} : chan'[d] = chan[d] /\ proc'[d] = proc[d]
<1>1. chan \in [Channels -> ChannelStates] /\ chan'[c] = ch /\ \A d \in Channels \ {c} : chan'[d] = chan[d]
  BY DEF LeaseInv, Types
<1>2. proc[c].alive => chan[c].pid
  BY DEF LeaseInv, OpenIsReferred
<1> QED
  BY <1>1, <1>2 DEF Fades, Begun, WorkerStarted, Healthy, ChannelStates

LEMMA MarkedTyped ==
    ASSUME NEW ch \in ChannelStates
    PROVE  /\ MarkedFailed(ch) \in ChannelStates /\ MarkedFailed(ch).failed /\ MarkedFailed(ch).pid = ch.pid
           /\ MarkedFailed(ch).shutdown = ch.shutdown /\ MarkedFailed(ch).responses = ch.responses
BY DEF MarkedFailed, ChannelStates

LEMMA ChannelTyped ==
    ASSUME Types, NEW c \in Channels, NEW ch \in ChannelStates, chan' = [chan EXCEPT ![c] = ch],
           ch.responses \subseteq chan[c].responses
    PROVE  /\ chan' \in [Channels -> ChannelStates] /\ chan'[c] = ch
           /\ \A d \in Channels : \A e, f \in chan'[d].responses : e.id = f.id => e = f
<1>1. /\ chan \in [Channels -> ChannelStates]
      /\ \A d \in Channels : \A e, f \in chan[d].responses : e.id = f.id => e = f
  BY DEF Types
<1>2. chan' \in [Channels -> ChannelStates] /\ chan'[c] = ch /\ \A d \in Channels \ {c} : chan'[d] = chan[d]
  BY <1>1
<1> QED
  BY <1>1, <1>2

\* A transaction under way on a spawned worker's channel.
LEMMA HandshakeChannel ==
    ASSUME LeaseInv, NEW t \in Threads, thr[t].pc \in TransactionLabels, thr[t].ret = "handshaken"
    PROVE  thr[t].spawned = thr[t].chan /\ (thr[t].pc = "wait" => Begun(thr[t].chan))
<1>1. Place(thr[t]) = "handshaken" /\ Transacting(thr[t])
  BY DEF Place, Transacting
<1>2. Handshaking(thr[t])
  BY <1>1, OutlineFacts DEF OnLease, RetiringWorkers, LeaseLabels, TeardownLabels
<1>3. thr[t].spawned = thr[t].chan /\ thr[t].spawned # NoChannel
  BY <1>1, <1>2 DEF Handshaking
<1> QED
  BY <1>3 DEF LeaseInv, SpawnedAlone

\* A leg that ends the transaction without an answer.
LEMMA FailureKeeps ==
    ASSUME LeaseInv, NEW t \in Threads, UNCHANGED <<workers, toWorker, toClient, proc>>,
           thr[t].pc \in TransactionLabels, Return(t, Failed),
           NEW c \in Channels, c = thr[t].chan,
           chan' = chan \/ chan' = [chan EXCEPT ![c] = MarkedFailed(chan[c])]
    PROVE  LeaseInv' /\ Turn(t)
<1> DEFINE next == Answered(thr[t], Failed)
<1>1. Types /\ thr[t] \in ThreadStates /\ thr[t].ret \in Returns /\ Failed \in Events
  BY OutlineFacts, NewThreadTyped DEF LeaseInv
<1>2. next \in ThreadStates /\ SameLocals(next, thr[t]) /\ next.pc = thr[t].ret /\ next.resp = Failed
  BY <1>1, AnsweredTyped
<1> HIDE DEF next
<1>3. thr' = [thr EXCEPT ![t] = next] /\ thr' \in [Threads -> ThreadStates]
  BY <1>1, <1>2, ThreadMoves DEF next
<1>4. /\ chan' \in [Channels -> ChannelStates]
      /\ \A d \in Channels : \A e, f \in chan'[d].responses : e.id = f.id => e = f
      /\ Fades(c) /\ (proc'[c].alive => chan'[c].pid)
      /\ \A d \in Channels \ {c} : chan'[d] = chan[d] /\ proc'[d] = proc[d]
  <2>1. CASE chan' = chan
    BY <1>1, <2>1 DEF Types, Fades, Begun, WorkerStarted, Healthy, LeaseInv, OpenIsReferred
  <2>2. CASE chan' = [chan EXCEPT ![c] = MarkedFailed(chan[c])]
    <3>1. chan[c] \in ChannelStates
      BY <1>1 DEF Types
    <3> DEFINE ch == MarkedFailed(chan[c])
    <3>2. /\ ch \in ChannelStates /\ ch.failed /\ ch.pid = chan[c].pid /\ ch.shutdown = chan[c].shutdown
          /\ ch.responses = chan[c].responses
      BY <3>1, MarkedTyped
    <3> HIDE DEF ch
    <3>3. chan' = [chan EXCEPT ![c] = ch]
      BY <2>2 DEF ch
    <3> QED
      BY <1>1, <3>2, <3>3, ChannelTyped, FailedFades
  <2> QED
    BY <2>1, <2>2
<1>5. Types'
  BY <1>1, <1>3, <1>4 DEF Types
<1>6. next.pc # "wait" /\ next.resp.kind # "Health"
  BY <1>1, <1>2 DEF Failed, NoEvent, Returns, LeaseLabels
<1> QED
  BY <1>2, <1>3, <1>4, <1>5, <1>6, LegKeeps

LEMMA EnsureKeeps ==
    ASSUME LeaseInv, NEW t \in Threads, EnsureChecked(t), UNCHANGED workers
    PROVE  LeaseInv' /\ Turn(t)
<1>1. thr[t].pc = "ensure" /\ UNCHANGED <<chan, toWorker, toClient, proc>>
  BY DEF EnsureChecked
<1>2. thr[t].pc \in TransactionLabels /\ thr[t] \in ThreadStates /\ thr[t].chan \in Channels /\ Types
  BY <1>1, OutlineFacts DEF TransactionLabels, LeaseInv
<1>3. CASE Return(t, Failed)
  BY <1>1, <1>2, <1>3, FailureKeeps
<1>4. CASE thr' = [thr EXCEPT ![t].pc = "start"]
  <2> DEFINE next == At(thr[t], "start")
  <2>1. "start" \in TransactionLabels
    BY DEF TransactionLabels
  <2>2. /\ next \in ThreadStates /\ SameLocals(next, thr[t]) /\ next.pc = "start" /\ next.ret = thr[t].ret
        /\ next.req = thr[t].req
    BY <1>2, <2>1, AtTyped
  <2> HIDE DEF next
  <2>3. thr' = [thr EXCEPT ![t] = next] /\ thr' \in [Threads -> ThreadStates]
    BY <1>2, <1>4, <2>2, ThreadMoves DEF next
  <2>4. Types'
    BY <1>1, <1>2, <2>3 DEF Types
  <2>5. ASSUME NEW c \in Channels PROVE Fades(c) /\ (proc'[c].alive => chan'[c].pid)
    BY <1>1 DEF Fades, Begun, WorkerStarted, Healthy, LeaseInv, OpenIsReferred
  <2> QED
    BY <1>1, <1>2, <2>1, <2>2, <2>3, <2>4, <2>5, LegKeeps
<1> QED
  BY <1>3, <1>4 DEF EnsureChecked

\* The request is under way: a leg to "wait" on a channel that is begun.
LEMMA WaitingKeeps ==
    ASSUME LeaseInv, NEW t \in Threads, UNCHANGED workers, thr[t].pc = "start",
           thr' = [thr EXCEPT ![t].pc = "wait"],
           NEW c \in Channels, c = thr[t].chan,
           chan' \in [Channels -> ChannelStates], proc' \in [Channels -> WorkerStates],
           toWorker' \in [Channels -> Seq(Requests)], toClient' \in [Channels -> Seq(Events)],
           \A d \in Channels \ {c} : chan'[d] = chan[d] /\ proc'[d] = proc[d],
           chan'[c].responses = chan[c].responses,
           Fades(c), Begun(c)', chan'[c].pid
    PROVE  LeaseInv' /\ Turn(t)
<1> DEFINE next == At(thr[t], "wait")
<1>1. {"start", "wait"} \subseteq TransactionLabels
  BY DEF TransactionLabels
<1>2. Types /\ thr[t].pc \in TransactionLabels /\ thr[t] \in ThreadStates
  BY <1>1, OutlineFacts DEF LeaseInv
<1>3. /\ next \in ThreadStates /\ SameLocals(next, thr[t]) /\ next.pc = "wait" /\ next.ret = thr[t].ret
      /\ next.req = thr[t].req
  BY <1>1, <1>2, AtTyped
<1>a. thr' = [thr EXCEPT ![t] = next]
  BY <1>2, ThreadMoves
<1> HIDE DEF next
<1>4. thr' = [thr EXCEPT ![t] = next] /\ thr' \in [Threads -> ThreadStates]
  BY <1>2, <1>3, <1>a, ThreadMoves
<1>5. \A d \in Channels : \A e, f \in chan'[d].responses : e.id = f.id => e = f
  BY <1>2 DEF Types
<1>6. Types'
  BY <1>2, <1>4, <1>5 DEF Types
<1> QED
  BY <1>1, <1>2, <1>3, <1>4, <1>6, LegKeeps

LEMMA SendKeeps ==
    ASSUME LeaseInv, NEW t \in Threads, Send(t), UNCHANGED workers
    PROVE  LeaseInv' /\ Turn(t)
<1> DEFINE c == thr[t].chan
<1>1. /\ thr[t].pc = "start" /\ WorkerStarted(c) /\ UNCHANGED <<toClient, proc>>
  BY DEF Send
<1>2. /\ thr[t].pc \in TransactionLabels /\ thr[t] \in ThreadStates /\ c \in Channels /\ Types
      /\ thr[t].ret \in Returns
  BY <1>1, OutlineFacts DEF TransactionLabels, LeaseInv
<1>3. PICK d \in Channels : d = c
  BY <1>2
<1>4. CASE proc[c].alive
  <2>1. /\ toWorker' = [toWorker EXCEPT ![c] = Append(@, thr[t].req)] /\ chan' = chan
        /\ thr' = [thr EXCEPT ![t].pc = "wait"]
    BY <1>4 DEF Send
  <2>2. thr[t].req \in Requests
    BY <1>2 DEF LeaseInv, RequestsDiffer, Asks, Transacting
  <2>3. toWorker' \in [Channels -> Seq(Requests)]
    BY <1>2, <2>1, <2>2 DEF Types
  <2>4. Fades(d) /\ Begun(d)' /\ chan'[d].pid
    BY <1>1, <1>3, <2>1 DEF Fades, Begun, Healthy, WorkerStarted
  <2> QED
    BY <1>1, <1>2, <1>3, <2>1, <2>3, <2>4, WaitingKeeps DEF Types
<1>5. CASE ~proc[c].alive
  BY <1>1, <1>2, <1>3, <1>5, FailureKeeps DEF Send
<1> QED
  BY <1>4, <1>5

LEMMA StartWorkerKeeps ==
    ASSUME LeaseInv, NEW t \in Threads, StartWorkerAndSend(t), UNCHANGED workers
    PROVE  LeaseInv' /\ (chan[thr[t].chan].reader = "none" => Turn(t))
<1> DEFINE c == thr[t].chan
<1>1. thr[t].pc = "start" /\ ~WorkerStarted(c)
  BY DEF StartWorkerAndSend
<1>2. thr[t].pc \in TransactionLabels /\ thr[t] \in ThreadStates /\ c \in Channels /\ Types
  BY <1>1, OutlineFacts DEF TransactionLabels, LeaseInv
<1>3. PICK d \in Channels : d = c
  BY <1>2
<1>4. CASE chan[c].reader # "none"
  <2>1. UNCHANGED <<chan, toWorker, toClient, proc, thr>>
    BY <1>4 DEF StartWorkerAndSend
  <2>2. Types'
    BY <1>2, <2>1 DEF Types
  <2>3. \A e \in Channels : Fades(e) /\ (Open(e)' => Open(e)) /\ (proc'[e].alive => chan'[e].pid)
    BY <2>1 DEF Fades, Begun, WorkerStarted, Healthy, Open, LeaseInv, OpenIsReferred
  <2>4. LeaseInv'
    BY <2>1, <2>2, <2>3, ChannelKeeps
  <2> QED
    BY <1>4, <2>4
<1>5. CASE chan[c].reader = "none"
  <2> DEFINE ch == [chan[d] EXCEPT !.fd = TRUE, !.pid = TRUE, !.reader = "running"]
  <2>1. /\ chan' = [chan EXCEPT ![c].fd = TRUE, ![c].pid = TRUE, ![c].reader = "running"]
        /\ proc' = [proc EXCEPT ![c] = NewWorker]
        /\ toWorker' = [toWorker EXCEPT ![c] = <<thr[t].req>>]
        /\ toClient' = [toClient EXCEPT ![c] = << >>]
        /\ thr' = [thr EXCEPT ![t].pc = "wait"]
    BY <1>5 DEF StartWorkerAndSend
  <2>2. chan \in [Channels -> ChannelStates] /\ chan[d] \in ChannelStates /\ thr[t].req \in Requests
    BY <1>2 DEF Types, LeaseInv, RequestsDiffer, Asks, Transacting
  <2>3. ch \in ChannelStates /\ ch.responses = chan[d].responses /\ ch.fd /\ ch.pid
        /\ ch.failed = chan[d].failed /\ ch.shutdown = chan[d].shutdown
    BY <2>2 DEF ChannelStates
  <2>4. chan' = [chan EXCEPT ![d] = ch]
    BY <1>3, <2>1, <2>2 DEF ChannelStates
  <2> HIDE DEF ch
  <2>5. chan' \in [Channels -> ChannelStates] /\ chan'[d] = ch /\ \A e \in Channels \ {d} : chan'[e] = chan[e]
    BY <2>2, <2>3, <2>4
  <2>6. /\ proc' \in [Channels -> WorkerStates] /\ \A e \in Channels \ {d} : proc'[e] = proc[e]
    BY <1>2, <1>3, <2>1, NewThreadTyped DEF Types
  <2>7. <<thr[t].req>> \in Seq(Requests) /\ << >> \in Seq(Events)
    BY <2>2
  <2>8. toWorker' \in [Channels -> Seq(Requests)] /\ toClient' \in [Channels -> Seq(Events)]
    BY <1>2, <2>1, <2>7 DEF Types
  <2>9. Fades(d) /\ Begun(d)'
    BY <1>1, <1>3, <2>3, <2>5 DEF Fades, Begun, Healthy, WorkerStarted
  <2>10. chan'[d].responses = chan[d].responses /\ chan'[d].pid
    BY <2>3, <2>5
  <2>11. \A e \in Channels \ {d} : chan'[e] = chan[e] /\ proc'[e] = proc[e]
    BY <2>5, <2>6
  <2>12. thr' = [thr EXCEPT ![t].pc = "wait"] /\ d = thr[t].chan
    BY <1>3, <2>1
  <2>13. chan' \in [Channels -> ChannelStates] /\ proc' \in [Channels -> WorkerStates]
    BY <2>5, <2>6
  <2> QED
    BY <1>1, <2>8, <2>9, <2>10, <2>11, <2>12, <2>13, WaitingKeeps
<1> QED
  BY <1>4, <1>5

LEMMA WaitKeeps ==
    ASSUME LeaseInv, NEW t \in Threads, WaitEnds(t) \/ WaitTimesOut(t) \/ StartWorkerFails(t), UNCHANGED workers
    PROVE  LeaseInv' /\ Turn(t)
<1> DEFINE c == thr[t].chan
<1>1. thr[t].pc \in {"start", "wait"} /\ UNCHANGED <<toWorker, toClient, proc>>
  BY DEF WaitEnds, WaitTimesOut, StartWorkerFails
<1>2. /\ thr[t].pc \in TransactionLabels /\ thr[t] \in ThreadStates /\ c \in Channels /\ Types
      /\ thr[t].ret \in Returns
  BY <1>1, OutlineFacts DEF TransactionLabels, LeaseInv
<1>3. PICK d \in Channels : d = c
  BY <1>2
<1>4. CASE Return(t, Failed) /\ (chan' = chan \/ chan' = [chan EXCEPT ![c] = MarkedFailed(@)])
  BY <1>1, <1>2, <1>3, <1>4, FailureKeeps
<1>5. ASSUME NEW ev \in ResponsesFor(t), Return(t, ev), thr[t].pc = "wait",
             chan' = [chan EXCEPT ![c].responses = @ \ {ev}]
      PROVE  LeaseInv' /\ Turn(t)
  <2> DEFINE next == Answered(thr[t], ev)
  <2> DEFINE ch == [chan[d] EXCEPT !.responses = chan[d].responses \ {ev}]
  <2>1. chan \in [Channels -> ChannelStates] /\ chan[d] \in ChannelStates
    BY <1>2 DEF Types
  <2>2. ev \in Events
    BY <1>3, <1>5, <2>1 DEF ResponsesFor, ChannelStates
  <2>3. next \in ThreadStates /\ SameLocals(next, thr[t]) /\ next.pc = thr[t].ret
    BY <1>2, <2>2, AnsweredTyped
  <2>4. Return(t, ev) => thr' = [thr EXCEPT ![t] = next]
    BY <1>2, ThreadMoves
  <2> HIDE DEF next
  <2>6. thr' = [thr EXCEPT ![t] = next] /\ thr' \in [Threads -> ThreadStates]
    BY <1>2, <1>5, <2>3, <2>4, ThreadMoves
  <2>7. /\ ch \in ChannelStates /\ ch.responses \subseteq chan[d].responses /\ ch.pid = chan[d].pid
        /\ ch.fd = chan[d].fd /\ ch.failed = chan[d].failed /\ ch.shutdown = chan[d].shutdown
    BY <2>1 DEF ChannelStates
  <2>8. chan' = [chan EXCEPT ![d] = ch]
    BY <1>3, <1>5, <2>1 DEF ChannelStates
  <2> HIDE DEF ch
  <2>9. /\ chan' \in [Channels -> ChannelStates] /\ chan'[d] = ch
        /\ \A x \in Channels : \A e, f \in chan'[x].responses : e.id = f.id => e = f
    BY <1>2, <2>7, <2>8, ChannelTyped
  <2>10. /\ Fades(d) /\ (proc'[d].alive => chan'[d].pid)
         /\ \A x \in Channels \ {d} : chan'[x] = chan[x] /\ proc'[x] = proc[x]
    BY <1>1, <2>7, <2>8, FailedFades
  <2>11. Types'
    BY <1>1, <1>2, <2>6, <2>9 DEF Types
  <2>12. next.pc # "wait" /\ (next.pc = "handshaken" => Begun(d))
    BY <1>2, <1>3, <1>5, <2>3, HandshakeChannel DEF Returns, LeaseLabels
  <2> QED
    BY <1>2, <1>3, <2>3, <2>6, <2>10, <2>11, <2>12, LegKeeps DEF Fades
<1> QED
  BY <1>4, <1>5 DEF WaitEnds, WaitTimesOut, StartWorkerFails

LEMMA TeardownLegKeeps ==
    ASSUME LeaseInv, NEW t \in Threads, CloseSocket(t) \/ JoinReader(t), UNCHANGED workers
    PROVE  LeaseInv' /\ Turn(t)
<1> DEFINE c == thr[t].chan
<1>1. thr[t].pc \in TeardownLabels /\ UNCHANGED <<toWorker, toClient, proc>>
  BY DEF CloseSocket, JoinReader, TeardownLabels
<1>2. thr[t] \in ThreadStates /\ c \in Channels /\ Types
  BY <1>1, OutlineFacts DEF LeaseInv
<1>3. PICK d \in Channels : d = c
  BY <1>2
<1>4. chan \in [Channels -> ChannelStates] /\ chan[d] \in ChannelStates
  BY <1>2 DEF Types
<1>5. PICK label \in {"join", "terminate"}, ch \in ChannelStates :
         /\ thr' = [thr EXCEPT ![t].pc = label] /\ chan' = [chan EXCEPT ![d] = ch]
         /\ ch.responses \subseteq chan[d].responses /\ ch.pid = chan[d].pid
         /\ chan[d].failed => ch.failed
         /\ chan[d].shutdown => ch.shutdown
         /\ ch.failed \/ ch.shutdown \/ (ch.fd = chan[d].fd /\ chan[d].failed = ch.failed /\ chan[d].shutdown = ch.shutdown)
  <2>1. CASE CloseSocket(t)
    <3> DEFINE ch == [chan[d] EXCEPT !.shutdown = TRUE, !.fd = FALSE]
    <3>1. chan' = [chan EXCEPT ![d] = ch] /\ thr' = [thr EXCEPT ![t].pc = "join"]
      BY <1>3, <1>4, <2>1 DEF CloseSocket, ChannelStates
    <3>2. /\ ch \in ChannelStates /\ ch.responses \subseteq chan[d].responses /\ ch.pid = chan[d].pid
          /\ ch.shutdown /\ ch.failed = chan[d].failed
      BY <1>4 DEF ChannelStates
    <3> HIDE DEF ch
    <3> QED
      BY <3>1, <3>2
  <2>2. CASE JoinReader(t)
    <3> DEFINE ch == [chan[d] EXCEPT !.reader = "none"]
    <3>1. chan' = [chan EXCEPT ![d] = ch] /\ thr' = [thr EXCEPT ![t].pc = "terminate"]
      BY <1>3, <1>4, <2>2 DEF JoinReader, ChannelStates
    <3>2. ch \in ChannelStates /\ ch.responses \subseteq chan[d].responses /\ ch.pid = chan[d].pid
          /\ ch.fd = chan[d].fd /\ chan[d].failed = ch.failed /\ chan[d].shutdown = ch.shutdown
      BY <1>4 DEF ChannelStates
    <3> HIDE DEF ch
    <3> QED
      BY <3>1, <3>2
  <2> QED
    BY <2>1, <2>2
<1> DEFINE next == At(thr[t], label)
<1>6. label \in TeardownLabels /\ label \notin TransactionLabels /\ label \notin {"wait", "handshaken"}
  BY DEF TeardownLabels, TransactionLabels
<1>7. next \in ThreadStates /\ SameLocals(next, thr[t]) /\ next.pc = label
  BY <1>2, <1>6, AtTyped
<1>8. thr' = [thr EXCEPT ![t] = next]
  BY <1>2, <1>5, ThreadMoves
<1> HIDE DEF next
<1>9. thr' \in [Threads -> ThreadStates]
  BY <1>2, <1>7, <1>8, ThreadMoves
<1>10. /\ chan' \in [Channels -> ChannelStates]
       /\ \A x \in Channels : \A e, f \in chan'[x].responses : e.id = f.id => e = f
  BY <1>2, <1>5, ChannelTyped
<1>11. /\ Fades(d) /\ (proc'[d].alive => chan'[d].pid)
       /\ \A x \in Channels \ {d} : chan'[x] = chan[x] /\ proc'[x] = proc[x]
  BY <1>1, <1>5, FailedFades
<1>12. Types'
  BY <1>1, <1>2, <1>9, <1>10 DEF Types
<1> QED
  BY <1>1, <1>3, <1>6, <1>7, <1>8, <1>11, <1>12, LegKeeps

\* A list goes to its end.
LEMMA TailHeld ==
    ASSUME NEW S, NEW s \in Seq(S), s # << >>
    PROVE  /\ Head(s) \in S /\ Tail(s) \in Seq(S)
           /\ \A c \in Range(s) : c = Head(s) \/ c \in Range(Tail(s))
           /\ Range(Tail(s)) \subseteq Range(s)
           /\ Once(s) => Once(Tail(s)) /\ Head(s) \notin Range(Tail(s))
<1>1. /\ Head(s) = s[1] /\ Head(s) \in S /\ Tail(s) \in Seq(S) /\ Len(Tail(s)) = Len(s) - 1
      /\ \A i \in 1 .. Len(s) - 1 : Tail(s)[i] = s[i + 1]
      /\ Len(s) \in Nat /\ DOMAIN s = 1 .. Len(s) /\ DOMAIN Tail(s) = 1 .. Len(s) - 1
  BY HeadTailProperties, LenProperties
<1>2. ASSUME NEW i \in DOMAIN s PROVE s[i] = Head(s) \/ s[i] \in Range(Tail(s))
  <2>1. CASE i = 1
    BY <1>1, <2>1
  <2>2. CASE i # 1
    <3>1. i - 1 \in DOMAIN Tail(s) /\ Tail(s)[i - 1] = s[i]
      BY <1>1, <2>2
    <3> QED
      BY <3>1 DEF Range
  <2> QED
    BY <2>1, <2>2
<1>a. \A i \in DOMAIN Tail(s) : i + 1 \in DOMAIN s /\ Tail(s)[i] = s[i + 1] /\ i \in Nat /\ i # 0
  BY <1>1
<1>3. ASSUME NEW i \in DOMAIN Tail(s) PROVE Tail(s)[i] \in Range(s)
  BY <1>a DEF Range
<1>4. ASSUME Once(s) PROVE Once(Tail(s)) /\ Head(s) \notin Range(Tail(s))
  <2>1. \A i, j \in DOMAIN s : s[i] = s[j] => i = j
    BY <1>4 DEF Once
  <2>2. ASSUME NEW i \in DOMAIN Tail(s), NEW j \in DOMAIN Tail(s), Tail(s)[i] = Tail(s)[j] PROVE i = j
    <3>1. i + 1 = j + 1
      BY <1>a, <2>1, <2>2
    <3> QED
      BY <1>a, <3>1
  <2>3. ASSUME NEW i \in DOMAIN Tail(s), Tail(s)[i] = Head(s) PROVE FALSE
    <3>1. 1 \in DOMAIN s
      BY <1>1, <1>a
    <3>2. i + 1 = 1
      BY <1>1, <1>a, <2>1, <2>3, <3>1
    <3> QED
      BY <1>a, <3>2
  <2> QED
    BY <2>2, <2>3 DEF Once, Range
<1> QED
  BY <1>1, <1>2, <1>3, <1>4 DEF Range

LEMMA CloseEndsKeeps ==
    ASSUME LeaseInv, NEW t \in Threads, CloseEnds(t)
    PROVE  LeaseInv' /\ Turn(t) /\ thr[t].chan \notin Range(thr'[t].retire) /\ thr'[t].pc \in {"ensure", "idle", "done"}
<1> DEFINE th == thr[t]
<1> DEFINE rest == [th EXCEPT !.cret = "idle", !.chan = NoChannel, !.retire = Tail(@)]
<1>1. /\ th.pc = "terminate" /\ th.pc \in TeardownLabels /\ workers' = workers
  BY DEF CloseEnds, TerminateProcess, TeardownLabels
<1>2. /\ th \in ThreadStates /\ th.chan \in Channels /\ Types
      /\ RetiringWorkers(t, th) \/ LeavingChannel(th)
  BY <1>1, OutlineFacts DEF LeaseInv
<1>3. PICK c \in Channels : c = th.chan
  BY <1>2
<1>4. chan \in [Channels -> ChannelStates] /\ chan[c] \in ChannelStates /\ workers \subseteq Records
  BY <1>2 DEF Types
\* The channel after the teardown.
<1> DEFINE after == IF SharedWithOthers(t, c, workers) THEN Terminated(chan[c]) ELSE NewChannel
<1>5. /\ after \in ChannelStates /\ after.responses = {}
      /\ SharedWithOthers(t, c, workers) => after.failed /\ after.shutdown = chan[c].shutdown
  <2>1. /\ Terminated(chan[c]) \in ChannelStates /\ Terminated(chan[c]).responses = {} /\ Terminated(chan[c]).failed
        /\ Terminated(chan[c]).shutdown = chan[c].shutdown
    BY <1>4 DEF Terminated, ChannelStates
  <2>2. NewChannel.responses = {}
    BY DEF NewChannel
  <2> QED
    BY <2>1, <2>2, NewThreadTyped
<1>6. /\ proc' = [proc EXCEPT ![c] = NoWorker] /\ toWorker' = [toWorker EXCEPT ![c] = << >>]
      /\ toClient' = [toClient EXCEPT ![c] = << >>] /\ chan' = [chan EXCEPT ![c] = after]
  BY <1>3 DEF CloseEnds, TerminateProcess
<1> HIDE DEF after
<1>7. /\ chan' \in [Channels -> ChannelStates] /\ chan'[c] = after
      /\ \A d \in Channels : \A e, f \in chan'[d].responses : e.id = f.id => e = f
  BY <1>2, <1>5, <1>6, ChannelTyped
<1>8. /\ proc' \in [Channels -> WorkerStates] /\ ~proc'[c].alive
      /\ toWorker' \in [Channels -> Seq(Requests)] /\ toClient' \in [Channels -> Seq(Events)]
      /\ \A d \in Channels \ {c} : chan'[d] = chan[d] /\ proc'[d] = proc[d]
  <2>1. << >> \in Seq(Requests) /\ << >> \in Seq(Events) /\ ~NoWorker.alive
    BY DEF NoWorker
  <2> QED
    BY <1>2, <1>6, <2>1, NewThreadTyped DEF Types
\* The thread after it, and what it still holds.
<1>9. PICK next \in ThreadStates :
        /\ thr' = [thr EXCEPT ![t] = next] /\ Asks(t, next) /\ OutlineOf(t, next)
        /\ next.lease \in {th.lease, NoChannel}
        /\ next.lease # th.lease => th.retire = <<th.lease>>
        /\ Range(next.retire) \subseteq Range(th.retire)
        /\ \A d \in Range(th.retire) : d = c \/ d \in Range(next.retire)
        /\ Once(next.retire) /\ c \notin Range(next.retire)
        /\ next.spawned # NoChannel => next.spawned \in Channels /\ Free(next.spawned)
        /\ next.pc \in {"ensure", "idle", "done"}
  <2>1. CASE th.cret = "returned"
    <3>1. LeavingChannel(th)
      BY <1>2, <2>1 DEF RetiringWorkers
    <3>2. Idle([th EXCEPT !.cret = "idle", !.chan = NoChannel]) = NewThread
      BY <3>1 DEF LeavingChannel, Idle
    <3>3. thr' = [thr EXCEPT ![t] = NewThread]
      BY <2>1, <3>2 DEF CloseEnds
    <3>4. /\ Asks(t, NewThread) /\ OutlineOf(t, NewThread) /\ NewThread.lease = NoChannel /\ NewThread.pc = "idle"
          /\ NewThread.retire = << >> /\ NewThread.spawned = NoChannel
      BY DEF Asks, Transacting, TransactionLabels, NewThread, OutlineOf, Resting, HoldsOnly
    <3>5. th.lease = NoChannel /\ th.retire = << >> /\ Range(<< >>) = {} /\ Once(<< >>)
      BY <3>1 DEF LeavingChannel, HoldsOnly, Range, Once
    <3> QED
      BY <3>3, <3>4, <3>5, NewThreadTyped
  <2>2. CASE th.cret = "retired"
    <3>1. RetiringWorkers(t, th)
      BY <1>2, <2>2 DEF LeavingChannel
    <3>2. th.retire \in Seq(Channels) /\ th.retire # << >> /\ c = Head(th.retire)
      BY <1>2, <1>3, <3>1 DEF ThreadStates, RetiringWorkers
    <3>3. /\ Tail(th.retire) \in Seq(Channels)
          /\ \A d \in Range(th.retire) : d = c \/ d \in Range(Tail(th.retire))
          /\ Range(Tail(th.retire)) \subseteq Range(th.retire)
          /\ Once(Tail(th.retire)) /\ c \notin Range(Tail(th.retire))
      BY <3>2, TailHeld DEF LeaseInv, RetiredOnce
    <3>4. /\ rest \in ThreadStates /\ rest.lease = th.lease /\ rest.spawned = th.spawned /\ rest.rt = th.rt
          /\ rest.retire = Tail(th.retire) /\ rest.after = th.after /\ rest.running = th.running
      BY <1>2, <3>3 DEF ThreadStates
    <3>5. th.retire = <<th.lease>> => Tail(th.retire) = << >>
      OBVIOUS
    <3>6. PICK next \in Continue(t, [[th EXCEPT !.cret = "idle", !.chan = NoChannel] EXCEPT !.retire = Tail(@)]) :
            thr' = [thr EXCEPT ![t] = next]
      BY <2>2 DEF CloseEnds
    <3>7. [[th EXCEPT !.cret = "idle", !.chan = NoChannel] EXCEPT !.retire = Tail(@)] = rest
      BY <1>2 DEF ThreadStates
    <3> HIDE DEF rest
    <3>8. MayContinue(t, rest)
      BY <3>1, <3>4, <3>5 DEF MayContinue, RetiringWorkers
    <3>9. /\ next \in ThreadStates /\ Asks(t, next) /\ OutlineOf(t, next)
          /\ next.lease = (IF rest.retire = << >> /\ rest.after = "invalidated" THEN NoChannel ELSE rest.lease)
          /\ next.retire = rest.retire
          /\ next.spawned # NoChannel => next.spawned \in Channels /\ Free(next.spawned)
          /\ next.pc \in {"ensure", "idle", "done"}
      BY <3>6, <3>7, <3>8, ContinueKeeps
    <3>10. rest.after = "invalidated" => th.retire = <<th.lease>>
      BY <3>1, <3>4 DEF RetiringWorkers
    <3> QED
      BY <3>3, <3>4, <3>6, <3>9, <3>10
  <2> QED
    BY <2>1, <2>2 DEF CloseEnds
<1>10. TakesTurn(t, next)
  BY <1>9 DEF TakesTurn
<1>11. thr' \in [Threads -> ThreadStates]
  BY <1>2, <1>9, ThreadMoves
<1>12. Types'
  BY <1>1, <1>2, <1>7, <1>8, <1>11 DEF Types
<1>13. RecordsFollow(t)
  <2>1. thr'[t] = next /\ \A u \in Threads \ {t} : thr'[u] = thr[u]
    BY <1>10, TurnFacts
  <2>2. next.lease # th.lease => RecordOf(th.lease) = {} /\ next.lease = NoChannel
    <3>1. th.retire = <<th.lease>> => th.lease \in Range(th.retire)
      BY DEF Range
    <3> QED
      BY <1>9, <3>1 DEF LeaseInv, RetiredUnrecorded
  <2>3. ASSUME NEW r \in workers PROVE r.active = {g \in Graphs : thr'[g].lease = r.chan}
    <3>1. r.active = {g \in Graphs : thr[g].lease = r.chan} /\ r.chan # NoChannel
      BY <1>4, ControlAssumption DEF LeaseInv, RecordsCount, Records, NoChannel
    <3>2. \A g \in Graphs : thr'[g].lease = r.chan <=> thr[g].lease = r.chan
      BY <2>1, <2>2, <3>1 DEF RecordOf, Threads
    <3> QED
      BY <3>1, <3>2
  <2> QED
    BY <1>1, <2>3 DEF RecordsFollow
<1>14. RefersSoundly(t, next)
  <2>1. \A d \in Held(next) \ {NoChannel} : d \in References(t) \/ RecordOf(d) # {} \/ Free(d)
    <3>1. next.pc \notin TeardownLabels
      BY <1>9 DEF TeardownLabels
    <3> QED
      BY <1>9, <3>1 DEF Held, References
  <2>2. next.spawned # NoChannel => Free(next.spawned) /\ \A r \in workers' : r.chan # next.spawned
    BY <1>1, <1>9 DEF Free, RecordOf
  <2>3. \A d \in Range(next.retire) : \A r \in workers' : r.chan # d
    BY <1>1, <1>9 DEF LeaseInv, RetiredUnrecorded, RecordOf
  <2>4. ~LeavingChannel(next)
    BY <1>9 DEF LeavingChannel, TeardownLabels
  <2> QED
    BY <1>9, <2>1, <2>2, <2>3, <2>4 DEF RefersSoundly
<1>15. ASSUME NEW d \in Channels, d # c
       PROVE  Fades(d) /\ (Open(d)' => Open(d)) /\ (proc'[d].alive => chan'[d].pid)
  BY <1>8, <1>15 DEF Fades, Begun, WorkerStarted, Healthy, Open, LeaseInv, OpenIsReferred
<1>16. ChannelsFade(t)
  <2>1. CASE SharedWithOthers(t, c, workers)
    <3>1. Fades(c)
      BY <1>5, <1>7, <2>1 DEF Fades, Begun, WorkerStarted, Healthy
    <3> QED
      BY <1>15, <3>1 DEF ChannelsFade
  <2>2. CASE ~SharedWithOthers(t, c, workers)
    <3>1. (\A r \in workers' : r.chan # c) /\ \A u \in Threads \ {t} : c \notin References(u)
      BY <1>1, <2>2 DEF SharedWithOthers
    <3> QED
      BY <1>15, <3>1 DEF ChannelsFade
  <2> QED
    BY <2>1, <2>2
<1>17. ClosesBehind(t, next)
  <2>1. Open(c)' => SharedWithOthers(t, c, workers)
    <3>1. ~NewChannel.fd /\ ~NewChannel.pid /\ NewChannel.reader = "none"
      BY DEF NewChannel
    <3> QED
      BY <1>7, <3>1 DEF after, Open
  <2>2. Open(c)' => (\E r \in workers' : r.chan = c) \/ \E u \in Threads \ {t} : c \in References(u)
    BY <1>1, <2>1 DEF SharedWithOthers
  <2>3. Open(c)' => Open(c)
    BY <1>4, <1>7, <2>1 DEF after, Open, Terminated, ChannelStates
  <2>4. ASSUME NEW d \in Channels, d # c, d \in References(t)
        PROVE  d \in Held(next) \/ RecordOf(d) # {} \/ ~Open(d)
    <3>1. d \in {th.lease, th.spawned} \/ d \in Range(th.retire)
      BY <1>3, <2>4 DEF References
    <3>2. d # NoChannel
      BY ControlAssumption DEF NoChannel
    <3>3. th.spawned = NoChannel
      BY <1>2 DEF RetiringWorkers, LeavingChannel, HoldsOnly
    <3>4. CASE d = th.lease
      <4>1. next.lease # th.lease => d \in Range(th.retire)
        BY <1>9, <3>4 DEF Range
      <4> QED
        BY <1>9, <2>4, <3>4, <4>1 DEF Held
    <3>5. CASE d \in Range(th.retire)
      BY <1>9, <2>4, <3>5 DEF Held
    <3> QED
      BY <3>1, <3>2, <3>3, <3>4, <3>5
  <2>5. ASSUME NEW d \in Channels, d # c
        PROVE  /\ Open(d)' => Open(d) \/ d \in Held(next)
               /\ (Open(d)' /\ (d \in References(t) \/ RecordOf(d) # {}))
                    => \/ d \in Held(next) \/ \E r \in workers' : r.chan = d
                       \/ \E u \in Threads \ {t} : d \in References(u)
               /\ proc'[d].alive => chan'[d].pid
    BY <1>1, <1>15, <2>4, <2>5 DEF RecordOf
  <2> QED
    BY <1>8, <2>2, <2>3, <2>5 DEF ClosesBehind
<1>18. ExitIsLast(t)
  BY <1>1, BusyAlone DEF ExitIsLast
<1>19. thr'[t] = next
  BY <1>10, TurnFacts
<1> QED
  BY <1>3, <1>9, <1>10, <1>12, <1>13, <1>14, <1>16, <1>17, <1>18, <1>19, StepKeeps

-----------------------------------------------------------------------------
(* The client's own steps.                                                 *)

\* Whatever is open and was referred to by the thread or a record still is.
LeavesNothing(t, next) ==
    \A d \in Channels :
        (Open(d) /\ (d \in References(t) \/ RecordOf(d) # {}))
          => \/ d \in Held(next) \/ \E r \in workers' : r.chan = d
             \/ \E u \in Threads \ {t} : d \in References(u)

\* Nobody but thread t is left to know the channel.
LeftAlone(t, d) == (\A r \in workers' : r.chan # d) /\ \A u \in Threads \ {t} : d \notin References(u)

\* A client's step touches no socket and no process, and no thread waits or
\* closes a channel by it.
ClientTurn(t) ==
    /\ Turn(t) /\ UNCHANGED <<toWorker, toClient, proc>>
    /\ \A d \in Channels :
         /\ chan'[d].fd = chan[d].fd /\ chan'[d].pid = chan[d].pid /\ chan'[d].reader = chan[d].reader
         /\ \/ LeftAlone(t, d) /\ ~chan'[d].fd
            \/ /\ chan'[d].failed = chan[d].failed /\ chan'[d].shutdown = chan[d].shutdown
               /\ chan'[d].responses = chan[d].responses
    /\ thr'[t].pc \notin {"wait", "join", "terminate", "handshaken"}

LEMMA ClientKeeps ==
    ASSUME LeaseInv, NEW t \in Threads, NEW next \in ThreadStates, Asks(t, next), OutlineOf(t, next),
           thr' = [thr EXCEPT ![t] = next], UNCHANGED <<toWorker, toClient, proc>>,
           chan' \in [Channels -> ChannelStates],
           next.pc \notin {"wait", "join", "terminate", "handshaken"},
           \A d \in Channels :
               /\ chan'[d].responses \subseteq chan[d].responses
               /\ chan'[d].fd = chan[d].fd /\ chan'[d].pid = chan[d].pid /\ chan'[d].reader = chan[d].reader
               /\ \/ LeftAlone(t, d) /\ ~chan'[d].fd
                  \/ /\ chan'[d].failed = chan[d].failed /\ chan'[d].shutdown = chan[d].shutdown
                     /\ chan'[d].responses = chan[d].responses,
           workers' \subseteq Records, IsFiniteSet(workers)',
           RecordsFollow(t), RefersSoundly(t, next), LeavesNothing(t, next), ExitIsLast(t)
    PROVE  LeaseInv' /\ ClientTurn(t)
<1>1. Types
  BY DEF LeaseInv
<1>2. TakesTurn(t, next)
  BY DEF TakesTurn
<1>3. thr' \in [Threads -> ThreadStates]
  BY <1>1, ThreadMoves
<1>4. \A d \in Channels : \A e, f \in chan'[d].responses : e.id = f.id => e = f
  BY <1>1 DEF Types
<1>5. Types'
  BY <1>1, <1>3, <1>4 DEF Types
<1>6. ChannelsFade(t)
  BY DEF ChannelsFade, LeftAlone, Fades, Begun, WorkerStarted, Healthy
<1>7. ClosesBehind(t, next)
  <2>1. \A d \in Channels : Open(d)' <=> Open(d)
    BY DEF Open
  <2>2. \A d \in Channels : proc'[d].alive => chan'[d].pid
    BY DEF LeaseInv, OpenIsReferred
  <2> QED
    BY <2>1, <2>2 DEF ClosesBehind, LeavesNothing
<1>8. LeaseInv' /\ Turn(t) /\ thr'[t] = next
  BY <1>2, <1>5, <1>6, <1>7, StepKeeps, TurnFacts
<1> QED
  BY <1>8 DEF ClientTurn

\* A step that leaves the channels alone.
LEMMA QuietKeeps ==
    ASSUME LeaseInv, NEW t \in Threads, NEW next \in ThreadStates, Asks(t, next), OutlineOf(t, next),
           thr' = [thr EXCEPT ![t] = next], UNCHANGED <<chan, toWorker, toClient, proc>>,
           next.pc \notin {"wait", "join", "terminate", "handshaken"},
           workers' \subseteq Records, IsFiniteSet(workers)',
           RecordsFollow(t), RefersSoundly(t, next), LeavesNothing(t, next), ExitIsLast(t)
    PROVE  LeaseInv' /\ ClientTurn(t)
<1>1. chan' \in [Channels -> ChannelStates]
  BY DEF LeaseInv, Types
<1> QED
  BY <1>1, ClientKeeps

\* A step that leaves the records alone too, and refers to the same channels.
LEMMA LocalKeeps ==
    ASSUME LeaseInv, NEW t \in Threads, NEW next \in ThreadStates, Asks(t, next), OutlineOf(t, next),
           thr' = [thr EXCEPT ![t] = next], UNCHANGED <<chan, toWorker, toClient, proc, workers>>,
           next.pc \notin {"wait", "join", "terminate", "handshaken"},
           Held(next) = References(t), next.lease = thr[t].lease, next.spawned = NoChannel,
           next.retire = << >>, ExitIsLast(t),
           LeavingChannel(next) => Alone(t, next.chan)
    PROVE  LeaseInv' /\ ClientTurn(t)
<1>1. workers' \subseteq Records /\ IsFiniteSet(workers)'
  BY DEF LeaseInv, Types
<1>2. \A g \in Graphs : thr'[g].lease = thr[g].lease
  BY DEF LeaseInv, Types, Threads
<1>3. RecordsFollow(t)
  BY <1>2 DEF RecordsFollow, LeaseInv, RecordsCount
<1>4. Range(<< >>) = {} /\ Once(<< >>)
  BY DEF Range, Once
<1>5. RefersSoundly(t, next)
  BY <1>4 DEF RefersSoundly, Alone, RecordOf
<1>6. LeavesNothing(t, next)
  BY DEF LeavesNothing, RecordOf
<1> QED
  BY <1>1, <1>3, <1>5, <1>6, QuietKeeps

\* What a thread that is not in the midst of a call holds, by its label.
LEMMA PlaceFacts ==
    ASSUME LeaseInv, NEW t \in Threads
    PROVE  /\ thr[t] \in ThreadStates /\ Types
           /\ thr[t].pc = "idle" => Resting(t, thr[t])
           /\ thr[t].pc = "acquire" => Acquiring(thr[t])
           /\ thr[t].pc = "handshaken" => Handshaking(thr[t])
           /\ thr[t].pc \in LeaseLabels => OnLease(thr[t])
           /\ thr[t].pc \notin TeardownLabels =>
                References(t) = {thr[t].lease, thr[t].spawned} \cup Range(thr[t].retire)
<1>1. thr[t] \in ThreadStates /\ Types /\ OutlineOf(t, thr[t])
  BY DEF LeaseInv, Types, Outline
<1>2. thr[t].pc \notin TransactionLabels => ~Transacting(thr[t]) /\ Place(thr[t]) = thr[t].pc
  BY DEF Transacting, Place
<1>3. \A l \in LeaseLabels \cup {"handshaken", "idle", "acquire", "done"} : l \notin TransactionLabels \cup TeardownLabels
  BY DEF LeaseLabels, TransactionLabels, TeardownLabels
<1>4. {"idle", "acquire", "done", "handshaken"} \cap LeaseLabels = {}
  BY DEF LeaseLabels
<1>5. thr[t].pc = "idle" => Resting(t, thr[t])
  BY <1>1, <1>2, <1>3, <1>4 DEF OutlineOf, Acquiring, Handshaking, OnLease, RetiringWorkers, LeavingChannel, Finished
<1>6. thr[t].pc = "acquire" => Acquiring(thr[t])
  BY <1>1, <1>2, <1>3, <1>4 DEF OutlineOf, Resting, Handshaking, OnLease, RetiringWorkers, LeavingChannel, Finished
<1>7. thr[t].pc = "handshaken" => Handshaking(thr[t])
  BY <1>1, <1>2, <1>3, <1>4 DEF OutlineOf, Resting, Acquiring, OnLease, RetiringWorkers, LeavingChannel, Finished
<1>8. thr[t].pc \in LeaseLabels => OnLease(thr[t])
  BY <1>1, <1>2, <1>3, <1>4 DEF OutlineOf, Resting, Acquiring, Handshaking, RetiringWorkers, LeavingChannel, Finished
<1>9. thr[t].pc \notin TeardownLabels =>
                References(t) = {thr[t].lease, thr[t].spawned} \cup Range(thr[t].retire)
  BY DEF References, TeardownLabels
<1> QED
  BY <1>1, <1>5, <1>6, <1>7, <1>8, <1>9

LEMMA ClientsAreGraphs ==
    ASSUME LeaseInv, NEW g \in Graphs, thr[g].pc # "idle" \/ thr[g].running \/ thr[Exit].pc = "idle"
    PROVE  g \in Threads /\ ExitIsLast(g)
<1>1. g # Exit /\ g \in Threads
  BY ControlAssumption DEF Threads
<1> QED
  BY <1>1, BusyAlone DEF ExitIsLast

LEMMA NewThreadRests ==
    \A t \in Threads : /\ Asks(t, NewThread) /\ OutlineOf(t, NewThread) /\ Resting(t, NewThread)
                       /\ NewThread.pc = "idle" /\ NewThread.lease = NoChannel /\ NewThread.spawned = NoChannel
                       /\ NewThread.retire = << >> /\ ~NewThread.running /\ Held(NewThread) = {NoChannel}
                       /\ ~LeavingChannel(NewThread)
<1>1. /\ NewThread.pc = "idle" /\ NewThread.lease = NoChannel /\ NewThread.spawned = NoChannel
      /\ NewThread.retire = << >> /\ ~NewThread.running
  BY DEF NewThread
<1>2. Range(<< >>) = {}
  BY DEF Range
<1> QED
  BY <1>1, <1>2 DEF Asks, Transacting, TransactionLabels, TeardownLabels, OutlineOf, Resting, HoldsOnly, Held, LeavingChannel

LEMMA StartCallKeeps ==
    ASSUME LeaseInv, NEW g \in Graphs, NEW runtime \in RuntimesOf[g], StartCall(g, runtime)
    PROVE  LeaseInv' /\ ClientTurn(g)
<1> DEFINE next == [thr[g] EXCEPT !.pc = "acquire", !.rt = runtime]
<1>1. /\ thr[g].pc = "idle" /\ ~thr[g].running /\ thr[Exit].pc = "idle" /\ thr' = [thr EXCEPT ![g] = next]
      /\ UNCHANGED <<chan, toWorker, toClient, proc, workers>>
  BY DEF StartCall
<1>2. g \in Threads /\ ExitIsLast(g)
  BY <1>1, ClientsAreGraphs
<1>3. thr[g] \in ThreadStates /\ Resting(g, thr[g]) /\ References(g) = {NoChannel}
  <2>1. Range(<< >>) = {} /\ thr[g].pc \notin TeardownLabels
    BY <1>1 DEF Range, TeardownLabels
  <2> QED
    BY <1>1, <1>2, <2>1, PlaceFacts DEF Resting, HoldsOnly
<1>4. runtime \in Runtimes
  BY ControlAssumption
<1>5. /\ next \in ThreadStates /\ next.pc = "acquire" /\ next.rt = runtime /\ next.lease = thr[g].lease
      /\ next.spawned = thr[g].spawned /\ next.retire = thr[g].retire /\ next.running = thr[g].running
  BY <1>3, <1>4 DEF ThreadStates
<1> HIDE DEF next
<1>6. Asks(g, next) /\ OutlineOf(g, next)
  BY <1>1, <1>3, <1>4, <1>5 DEF Asks, Transacting, TransactionLabels, OutlineOf, Acquiring, Resting, HoldsOnly
<1>a. ~LeavingChannel(next)
  BY <1>5 DEF LeavingChannel, TeardownLabels
<1>7. Held(next) = References(g)
  BY <1>2, <1>3, <1>5, ReferencesAreHeld DEF Held, TeardownLabels, Resting, HoldsOnly, Range
<1> QED
  BY <1>1, <1>2, <1>3, <1>5, <1>6, <1>7, <1>a, LocalKeeps DEF Resting, HoldsOnly

LEMMA AcquireFailsKeeps ==
    ASSUME LeaseInv, NEW g \in Graphs, AcquireFails(g)
    PROVE  LeaseInv' /\ ClientTurn(g)
<1>1. /\ thr[g].pc = "acquire" /\ thr' = [thr EXCEPT ![g] = NewThread]
      /\ UNCHANGED <<chan, toWorker, toClient, proc, workers>>
  BY DEF AcquireFails
<1>2. g \in Threads /\ ExitIsLast(g)
  BY <1>1, ClientsAreGraphs
<1>3. thr[g].lease = NoChannel /\ References(g) = {NoChannel}
  <2>1. Range(<< >>) = {} /\ thr[g].pc \notin TeardownLabels
    BY <1>1 DEF Range, TeardownLabels
  <2> QED
    BY <1>1, <1>2, <2>1, PlaceFacts DEF Acquiring, HoldsOnly
<1> QED
  BY <1>1, <1>2, <1>3, NewThreadTyped, NewThreadRests, LocalKeeps

\* stop(), stats(): a client on its lease calls, and rests when it is answered.
LEMMA CallOnLeaseKeeps ==
    ASSUME LeaseInv, NEW g \in Graphs, thr[g].running,
           thr[g].pc = "idle" \/ thr[g].pc \in LeaseLabels,
           NEW kind \in {"StopSessions", "HealthCheck", "Stats"}, NEW ret \in {"stopAnswered", "statsHealthChecked", "statsAnswered"},
           NEW next \in CallsOnLease(g, kind, ret), thr' = [thr EXCEPT ![g] = next],
           UNCHANGED <<chan, toWorker, toClient, proc, workers>>
    PROVE  LeaseInv' /\ ClientTurn(g)
<1>1. g \in Threads /\ ExitIsLast(g)
  BY ClientsAreGraphs
<1>2. /\ thr[g] \in ThreadStates /\ Types /\ thr[g].lease \in Channels /\ thr[g].lease # NoChannel
      /\ HoldsOnly(thr[g], thr[g].lease, NoChannel) /\ thr[g].pc \notin TeardownLabels
  <2>1. thr[g].pc \notin TeardownLabels
    BY DEF TeardownLabels, LeaseLabels
  <2> QED
    BY <1>1, <2>1, PlaceFacts DEF Resting, OnLease, ThreadStates, HoldsOnly
<1>3. kind \in RequestKinds /\ ret \in Returns /\ ret \in LeaseLabels /\ ret \notin {"healthChecked", "startAnswered"}
  BY DEF RequestKinds, Returns, LeaseLabels
<1>4. next \in Calls(g, thr[g], thr[g].lease, kind, "client", ret)
  BY DEF CallsOnLease
<1>5. /\ next \in ThreadStates /\ Asks(g, next)
      /\ next.pc = "ensure" /\ next.chan = thr[g].lease /\ next.ret = ret
      /\ next.lease = thr[g].lease /\ next.spawned = thr[g].spawned /\ next.retire = thr[g].retire
      /\ next.running = thr[g].running
  <2>1. PICK th \in ThreadStates, c \in Channels : th = thr[g] /\ c = th.lease
    BY <1>2
  <2>2. next \in Calls(g, th, c, kind, "client", ret)
    BY <1>4, <2>1
  <2>3. g \in Threads /\ "client" \in {"client", "manager"}
    BY <1>1
  <2>4. /\ next \in ThreadStates /\ Asks(g, next)
        /\ next.pc = "ensure" /\ next.chan = c /\ next.ret = ret
        /\ next.lease = th.lease /\ next.spawned = th.spawned /\ next.retire = th.retire
        /\ next.running = th.running
    BY <1>2, <1>3, <2>2, <2>3, CallKeeps
  <2> QED
    BY <2>1, <2>4
<1>6. OnLease(next)
  BY <1>2, <1>3, <1>5 DEF OnLease, Place, Transacting, TransactionLabels, HoldsOnly
<1>7. Held(next) = References(g)
  BY <1>1, <1>2, <1>5, ReferencesAreHeld DEF Held, TeardownLabels
<1>8. ~LeavingChannel(next)
  BY <1>5 DEF LeavingChannel, TeardownLabels
<1> QED
  BY <1>1, <1>2, <1>5, <1>6, <1>7, <1>8, LocalKeeps DEF OutlineOf, HoldsOnly

\* start() or stats() has its last answer.
LEMMA AnsweredKeeps ==
    ASSUME LeaseInv, NEW g \in Graphs, thr[g].pc \in LeaseLabels,
           thr' = [thr EXCEPT ![g] = Idle([thr[g] EXCEPT !.running = TRUE])],
           UNCHANGED <<chan, toWorker, toClient, proc, workers>>
    PROVE  LeaseInv' /\ ClientTurn(g)
<1> DEFINE th == thr[g]
<1> DEFINE next == [NewThread EXCEPT !.rt = th.rt, !.lease = th.lease, !.handler = th.handler, !.running = TRUE]
<1>1. g \in Threads /\ ExitIsLast(g)
  BY ClientsAreGraphs DEF LeaseLabels
<1>2. th \in ThreadStates /\ OnLease(th) /\ th.pc \notin TeardownLabels
  BY <1>1, PlaceFacts DEF LeaseLabels, TeardownLabels
<1>3. Idle([th EXCEPT !.running = TRUE]) = next
  BY <1>2 DEF Idle, ThreadStates
<1>4. /\ next \in ThreadStates /\ next.pc = "idle" /\ next.lease = th.lease /\ next.running
      /\ next.spawned = NoChannel /\ next.retire = << >>
  <2>1. th.rt \in Runtimes \cup {NoRuntime} /\ th.lease \in Channels \cup {NoChannel} /\ th.handler \in BOOLEAN
    BY <1>2 DEF ThreadStates
  <2>2. next \in ThreadStates
    BY <2>1, NewThreadTyped DEF ThreadStates
  <2>3. /\ next.pc = NewThread.pc /\ next.lease = th.lease /\ next.running
        /\ next.spawned = NewThread.spawned /\ next.retire = NewThread.retire
    BY NewThreadTyped DEF ThreadStates
  <2> QED
    BY <1>1, <2>2, <2>3, NewThreadRests
<1>5. thr' = [thr EXCEPT ![g] = next]
  BY <1>3
<1> HIDE DEF next
<1>6. Asks(g, next) /\ OutlineOf(g, next)
  BY <1>2, <1>4 DEF Asks, Transacting, TransactionLabels, OutlineOf, Resting, HoldsOnly, OnLease
<1>8. ~LeavingChannel(next)
  BY <1>4 DEF LeavingChannel, TeardownLabels
<1>7. Held(next) = References(g)
  BY <1>1, <1>2, <1>4, ReferencesAreHeld DEF Held, TeardownLabels, OnLease, HoldsOnly
<1> QED
  BY <1>1, <1>4, <1>5, <1>6, <1>7, <1>8, LocalKeeps

\* The workers to shut down, one after the other.
LEMMA ShutdownListed ==
    ASSUME LeaseInv, NEW rs \in SUBSET workers, NEW s \in WorkersToShutdown(rs)
    PROVE  s \in Seq(Channels) /\ Range(s) = {r.chan : r \in rs} /\ Once(s)
<1> DEFINE cs == {r.chan : r \in rs}
<1> DEFINE n == Cardinality(cs)
<1>1. workers \subseteq Records /\ IsFiniteSet(workers)
  BY DEF LeaseInv, Types
<1>2. IsFiniteSet(rs)
  BY <1>1, FS_Subset
<1>3. n \in Nat /\ IsFiniteSet(cs)
  <2> DEFINE f == [r \in rs |-> r.chan]
  <2>1. f \in Surjection(rs, cs)
    BY DEF Surjection
  <2>2. IsFiniteSet(cs)
    BY <1>2, <2>1, FS_Surjection
  <2> QED
    BY <2>2, FS_CardinalityType
<1>4. cs \subseteq Channels
  BY <1>1 DEF Records
<1>a. n = Cardinality(cs)
  OBVIOUS
<1> HIDE DEF n
<1>5. s \in [1 .. n -> cs] /\ \A c \in cs : \E i \in DOMAIN s : s[i] = c
  BY DEF WorkersToShutdown, n
<1> HIDE DEF cs
<1>8. Once(s)
  <2>1. IsFiniteSet(1 .. n) /\ Cardinality(1 .. n) = n
    BY <1>3, FS_Interval
  <2>2. s \in Surjection(1 .. n, cs)
    BY <1>5 DEF Surjection
  <2>3. s \in Injection(1 .. n, cs)
    BY <1>3, <1>a, <2>1, <2>2, FS_SurjSameCardinalityImpliesInj
  <2> QED
    BY <1>5, <2>3 DEF Injection, IsInjective, Once
<1>6. s \in Seq(Channels)
  BY <1>3, <1>4, <1>5
<1>7. Range(s) = cs
  BY <1>5 DEF Range
<1> QED
  BY <1>6, <1>7, <1>8 DEF cs

\* A record that gets a client keeps its channel and its runtime.
LEMMA WithGraphCounts ==
    ASSUME LeaseInv, NEW rs \in SUBSET workers, NEW r \in rs, NEW g \in Graphs
    PROVE  /\ WithGraph(rs, r, g) \subseteq Records /\ IsFiniteSet(WithGraph(rs, r, g))
           /\ \A q \in WithGraph(rs, r, g) :
                \/ q \in rs /\ q.chan # r.chan
                \/ q.chan = r.chan /\ q.runtime = r.runtime /\ q.active = r.active \cup {g}
           /\ \A q \in rs : \E p \in WithGraph(rs, r, g) : p.chan = q.chan
<1> DEFINE with == [r EXCEPT !.active = @ \cup {g}]
<1>1. workers \subseteq Records /\ IsFiniteSet(workers) /\ r \in Records
  BY DEF LeaseInv, Types
<1>2. with \in Records /\ with.chan = r.chan /\ with.runtime = r.runtime /\ with.active = r.active \cup {g}
  BY <1>1 DEF Records
<1>3. WithGraph(rs, r, g) = (rs \ {r}) \cup {with}
  BY DEF WithGraph
<1> HIDE DEF with
<1>4. IsFiniteSet(rs \ {r})
  BY <1>1, FS_Subset
<1>5. IsFiniteSet(WithGraph(rs, r, g))
  BY <1>3, <1>4, FS_AddElement
<1>6. \A q \in rs : q # r => q.chan # r.chan
  BY DEF LeaseInv, RecordsCount
<1> QED
  BY <1>1, <1>2, <1>3, <1>5, <1>6

\* What Retiring leaves of a thread: the list, and what comes after it.
LEMMA RetiringKeeps ==
    ASSUME LeaseInv, NEW t \in Threads, NEW th \in ThreadStates, th.spawned = NoChannel, ~th.running,
           NEW cs \in Seq(Channels), NEW after \in {"acquired", "invalidated", "done"},
           after = "acquired" => th.rt \in Runtimes,
           after = "invalidated" => cs = <<th.lease>>,
           after = "done" => th.lease = NoChannel /\ t = Exit,
           NEW next \in Retiring(t, th, cs, after)
    PROVE  /\ next \in ThreadStates /\ Asks(t, next) /\ OutlineOf(t, next)
           /\ next.lease = th.lease /\ next.retire = cs
           /\ next.spawned # NoChannel => next.spawned \in Channels /\ Free(next.spawned)
           /\ next.pc \in {"ensure", "idle", "done"} /\ next.pc \notin TeardownLabels
           /\ after = "done" => next.pc # "idle"
<1> DEFINE w == [th EXCEPT !.retire = cs, !.after = after, !.resp = NoEvent]
<1>1. /\ w \in ThreadStates /\ w.spawned = th.spawned /\ w.running = th.running /\ w.rt = th.rt
      /\ w.lease = th.lease /\ w.retire = cs /\ w.after = after
  <2>1. NoEvent \in Events
    BY NewThreadTyped
  <2>2. w \in ThreadStates
    BY <2>1 DEF ThreadStates
  <2> QED
    BY <2>2 DEF ThreadStates
<1>2. next \in Continue(t, w)
  BY DEF Retiring
<1> HIDE DEF w
<1>3. MayContinue(t, w)
  BY <1>1 DEF MayContinue
<1>4. /\ next \in ThreadStates /\ Asks(t, next) /\ OutlineOf(t, next)
      /\ next.lease = (IF w.retire = << >> /\ w.after = "invalidated" THEN NoChannel ELSE w.lease)
      /\ next.retire = w.retire
      /\ next.spawned # NoChannel => next.spawned \in Channels /\ Free(next.spawned)
      /\ next.pc \in {"ensure", "idle", "done"}
      /\ w.after = "done" => next.pc # "idle"
  BY <1>2, <1>3, ContinueKeeps
<1>5. next.lease = th.lease
  <2>a. << >> # <<th.lease>>
    <3>1. Len(<< >>) = 0 /\ Len(<<th.lease>>) = 1
      OBVIOUS
    <3> QED
      BY <3>1
  <2>1. w.after = "invalidated" => w.retire # << >>
    BY <1>1, <2>a
  <2> QED
    BY <1>1, <1>4, <2>1
<1> QED
  BY <1>1, <1>4, <1>5 DEF TeardownLabels

LEMMA HealthyOrRetired ==
    \A runtime : Retirable(runtime) \subseteq workers /\ Kept(runtime) = workers \ Retirable(runtime)
BY DEF Retirable, Kept

LEMMA AcquireKeeps ==
    ASSUME LeaseInv, NEW g \in Graphs, Acquire(g)
    PROVE  LeaseInv' /\ ClientTurn(g)
<1> DEFINE th == thr[g]
<1> DEFINE rt == th.rt
<1> DEFINE gone == Retirable(rt)
<1> DEFINE kept == Kept(rt)
<1>1. th.pc = "acquire" /\ UNCHANGED <<chan, toWorker, toClient, proc>>
  BY DEF Acquire
<1>2. g \in Threads /\ ExitIsLast(g)
  BY <1>1, ClientsAreGraphs
<1>3. /\ th \in ThreadStates /\ Types /\ th.lease = NoChannel /\ th.spawned = NoChannel /\ th.rt \in Runtimes
      /\ ~th.running /\ References(g) = {NoChannel}
  <2>1. Range(<< >>) = {} /\ thr[g].pc \notin TeardownLabels
    BY <1>1 DEF Range, TeardownLabels
  <2> QED
    BY <1>1, <1>2, <2>1, PlaceFacts DEF Acquiring, HoldsOnly
<1>4. /\ gone \subseteq workers /\ kept = workers \ gone /\ workers \subseteq Records /\ IsFiniteSet(workers)
      /\ \A r, s \in workers : r.chan = s.chan => r = s
      /\ \A r \in workers : r.active = {h \in Graphs : thr[h].lease = r.chan} /\ r.chan # NoChannel
  BY HealthyOrRetired, ControlAssumption DEF LeaseInv, Types, RecordsCount, Records, NoChannel
\* Thread g has its list of workers and, if there is a match, its lease.
<1>5. PICK shutdown \in Seq(Channels), lease \in Channels \cup {NoChannel}, next \in ThreadStates :
        /\ Range(shutdown) = {r.chan : r \in gone} /\ Once(shutdown)
        /\ Asks(g, next) /\ OutlineOf(g, next) /\ thr' = [thr EXCEPT ![g] = next]
        /\ next.lease = lease /\ next.retire = shutdown
        /\ next.spawned # NoChannel => next.spawned \in Channels /\ Free(next.spawned)
        /\ next.pc \in {"ensure", "idle", "done"} /\ next.pc \notin TeardownLabels
        /\ \/ \E r \in kept : lease = r.chan /\ workers' = WithGraph(kept, r, g)
           \/ lease = NoChannel /\ workers' = kept
  <2>1. PICK shutdown \in WorkersToShutdown(gone) :
          \/ \E r \in Matching(kept, rt) :
               /\ workers' = WithGraph(kept, r, g)
               /\ \E next \in Retiring(g, [th EXCEPT !.lease = r.chan], shutdown, "acquired") :
                    thr' = [thr EXCEPT ![g] = next]
          \/ /\ workers' = kept
             /\ \E next \in Retiring(g, th, shutdown, "acquired") : thr' = [thr EXCEPT ![g] = next]
    BY DEF Acquire
  <2>2. shutdown \in Seq(Channels) /\ Range(shutdown) = {r.chan : r \in gone} /\ Once(shutdown)
    BY <1>4, <2>1, ShutdownListed
  <2>3. CASE \E r \in Matching(kept, rt) :
               /\ workers' = WithGraph(kept, r, g)
               /\ \E next \in Retiring(g, [th EXCEPT !.lease = r.chan], shutdown, "acquired") :
                    thr' = [thr EXCEPT ![g] = next]
    <3>1. PICK r \in kept : /\ workers' = WithGraph(kept, r, g)
                            /\ \E next \in Retiring(g, [th EXCEPT !.lease = r.chan], shutdown, "acquired") :
                                 thr' = [thr EXCEPT ![g] = next]
      BY <2>3 DEF Matching
    <3>2. r.chan \in Channels
      BY <1>4, <3>1 DEF Records
    <3> DEFINE w == [th EXCEPT !.lease = r.chan]
    <3>3. w \in ThreadStates /\ w.lease = r.chan /\ w.spawned = th.spawned /\ w.running = th.running /\ w.rt = th.rt
      BY <1>3, <3>2 DEF ThreadStates
    <3>4. PICK next \in Retiring(g, w, shutdown, "acquired") : thr' = [thr EXCEPT ![g] = next]
      BY <3>1
    <3> HIDE DEF w
    <3>5. /\ next \in ThreadStates /\ Asks(g, next) /\ OutlineOf(g, next)
          /\ next.lease = w.lease /\ next.retire = shutdown
          /\ next.spawned # NoChannel => next.spawned \in Channels /\ Free(next.spawned)
          /\ next.pc \in {"ensure", "idle", "done"} /\ next.pc \notin TeardownLabels
      BY <1>2, <1>3, <2>2, <3>3, <3>4, RetiringKeeps
    <3> QED
      BY <2>2, <3>1, <3>2, <3>3, <3>4, <3>5
  <2>4. CASE /\ workers' = kept
             /\ \E next \in Retiring(g, th, shutdown, "acquired") : thr' = [thr EXCEPT ![g] = next]
    <3>1. PICK w \in ThreadStates : w = th
      BY <1>3
    <3>2. PICK next \in Retiring(g, w, shutdown, "acquired") : thr' = [thr EXCEPT ![g] = next]
      BY <2>4, <3>1
    <3>3. /\ next \in ThreadStates /\ Asks(g, next) /\ OutlineOf(g, next)
          /\ next.lease = w.lease /\ next.retire = shutdown
          /\ next.spawned # NoChannel => next.spawned \in Channels /\ Free(next.spawned)
          /\ next.pc \in {"ensure", "idle", "done"} /\ next.pc \notin TeardownLabels
      BY <1>2, <1>3, <2>2, <3>1, <3>2, RetiringKeeps
    <3> QED
      BY <1>3, <2>2, <2>4, <3>1, <3>2, <3>3
  <2> QED
    BY <2>1, <2>3, <2>4
<1> HIDE DEF gone, kept
<1>6. /\ workers' \subseteq Records /\ IsFiniteSet(workers')
      /\ \A q \in workers' :
           \/ q \in kept /\ q.chan # lease
           \/ \E r \in kept : /\ q.chan = r.chan /\ q.chan = lease /\ q.runtime = r.runtime
                              /\ q.active = r.active \cup {g}
      /\ \A q \in kept : \E p \in workers' : p.chan = q.chan
  <2>1. CASE lease = NoChannel /\ workers' = kept
    <3>1. IsFiniteSet(kept)
      BY <1>4, FS_Subset
    <3> QED
      BY <1>4, <2>1, <3>1
  <2>2. ASSUME NEW r \in kept, lease = r.chan, workers' = WithGraph(kept, r, g)
        PROVE  /\ workers' \subseteq Records /\ IsFiniteSet(workers')
               /\ \A q \in workers' :
                    \/ q \in kept /\ q.chan # lease
                    \/ \E p \in kept : /\ q.chan = p.chan /\ q.chan = lease /\ q.runtime = p.runtime
                                       /\ q.active = p.active \cup {g}
               /\ \A q \in kept : \E p \in workers' : p.chan = q.chan
    <3>1. kept \in SUBSET workers
      BY <1>4
    <3>2. /\ WithGraph(kept, r, g) \subseteq Records /\ IsFiniteSet(WithGraph(kept, r, g))
          /\ \A q \in WithGraph(kept, r, g) :
                \/ q \in kept /\ q.chan # r.chan
                \/ q.chan = r.chan /\ q.runtime = r.runtime /\ q.active = r.active \cup {g}
          /\ \A q \in kept : \E p \in WithGraph(kept, r, g) : p.chan = q.chan
      BY <3>1, WithGraphCounts
    <3> QED
      BY <2>2, <3>2
  <2> QED
    BY <1>5, <2>1, <2>2
<1>7. thr'[g] = next /\ \A u \in Threads \ {g} : thr'[u] = thr[u]
  BY <1>2, <1>3, <1>5 DEF Types
<1>8. RecordsFollow(g)
  <2>1. ASSUME NEW q \in workers'
        PROVE  /\ q.active = {h \in Graphs : thr'[h].lease = q.chan}
               /\ \E s \in workers : s.chan = q.chan /\ s.runtime = q.runtime
    <3>1. CASE q \in kept /\ q.chan # lease
      <4>1. q \in workers
        BY <1>4, <3>1
      <4>2. \A h \in Graphs : thr'[h].lease = q.chan <=> thr[h].lease = q.chan
        BY <1>2, <1>3, <1>4, <1>5, <1>7, <3>1, <4>1 DEF Threads
      <4> QED
        BY <1>4, <4>1, <4>2
    <3>2. CASE \E r \in kept : /\ q.chan = r.chan /\ q.chan = lease /\ q.runtime = r.runtime
                               /\ q.active = r.active \cup {g}
      <4>1. PICK r \in kept : /\ q.chan = r.chan /\ q.chan = lease /\ q.runtime = r.runtime
                              /\ q.active = r.active \cup {g}
        BY <3>2
      <4>2. r \in workers
        BY <1>4, <4>1
      <4>3. \A h \in Graphs : thr'[h].lease = q.chan <=> thr[h].lease = r.chan \/ h = g
        BY <1>2, <1>5, <1>7, <4>1 DEF Threads
      <4>4. r.active = {h \in Graphs : thr[h].lease = r.chan}
        BY <1>4, <4>2
      <4>5. q.active = {h \in Graphs : thr'[h].lease = q.chan}
        BY <4>1, <4>3, <4>4
      <4> QED
        BY <4>1, <4>2, <4>5
    <3> QED
      BY <1>6, <3>1, <3>2
  <2> QED
    BY <2>1 DEF RecordsFollow
<1>9. \A q \in workers' : \E s \in kept : s.chan = q.chan
  BY <1>6
<1>10. RefersSoundly(g, next)
  <2>1. \A d \in Range(next.retire) : RecordOf(d) # {} /\ \A r \in workers' : r.chan # d
    <3>1. ASSUME NEW s \in gone, NEW r \in workers', r.chan = s.chan PROVE FALSE
      <4>1. PICK q \in kept : q.chan = r.chan
        BY <1>9
      <4> QED
        BY <1>4, <3>1, <4>1
    <3> QED
      BY <1>4, <1>5, <3>1 DEF RecordOf
  <2>2. next.lease # NoChannel => RecordOf(next.lease) # {}
    BY <1>4, <1>5 DEF RecordOf
  <2>3. next.spawned # NoChannel => Free(next.spawned) /\ \A r \in workers' : r.chan # next.spawned
    BY <1>4, <1>5, <1>9 DEF Free, RecordOf
  <2>4. next.spawned # NoChannel => next.pc # "wait" /\ next.pc # "handshaken"
    BY <1>5
  <2> QED
    BY <1>5, <2>1, <2>2, <2>3, <2>4 DEF RefersSoundly, Held, LeavingChannel
<1>11. LeavesNothing(g, next)
  <2>1. ASSUME NEW d \in Channels, RecordOf(d) # {}
        PROVE  d \in Held(next) \/ \E r \in workers' : r.chan = d
    <3>1. PICK s \in workers : s.chan = d
      BY <2>1 DEF RecordOf
    <3>2. CASE s \in gone
      BY <1>5, <3>1, <3>2 DEF Held
    <3>3. CASE s \in kept
      BY <1>6, <3>1, <3>3
    <3> QED
      BY <1>4, <3>2, <3>3
  <2>2. \A d \in Channels : d # NoChannel
    BY ControlAssumption DEF NoChannel
  <2> QED
    BY <1>3, <2>1, <2>2 DEF LeavesNothing
<1> QED
  BY <1>1, <1>2, <1>5, <1>6, <1>8, <1>10, <1>11, QuietKeeps

\* A thread that has given up its channel closes it; nobody else knows it.
LEMMA ClosingKeeps ==
    ASSUME NEW t \in Threads, NEW th \in ThreadStates, NEW c \in Channels,
           th.lease = NoChannel, th.spawned = NoChannel, th.retire = << >>, ~th.running
    PROVE  /\ Closing(th, c, "returned") \in ThreadStates /\ Asks(t, Closing(th, c, "returned"))
           /\ OutlineOf(t, Closing(th, c, "returned"))
           /\ Held(Closing(th, c, "returned")) = {NoChannel, c}
           /\ Closing(th, c, "returned").lease = NoChannel /\ Closing(th, c, "returned").spawned = NoChannel
           /\ Closing(th, c, "returned").retire = << >>
           /\ Closing(th, c, "returned").pc = "close" /\ Closing(th, c, "returned").chan = c
<1> DEFINE next == Closing(th, c, "returned")
<1>1. NoEvent \in Events /\ Range(<< >>) = {} /\ c # NoChannel
  BY NewThreadTyped, ControlAssumption DEF Range, NoChannel
<1>2. next \in ThreadStates
  BY <1>1 DEF Closing, ThreadStates, TeardownLabels
<1>3. /\ next.pc = "close" /\ next.chan = c /\ next.cret = "returned" /\ next.lease = th.lease
      /\ next.spawned = th.spawned /\ next.retire = th.retire /\ next.running = th.running
  BY DEF Closing, ThreadStates
<1> HIDE DEF next
<1>4. LeavingChannel(next) /\ Asks(t, next)
  BY <1>1, <1>3 DEF LeavingChannel, HoldsOnly, TeardownLabels, Transacting, TransactionLabels, Asks
<1>5. Held(next) = {NoChannel, c}
  BY <1>1, <1>3 DEF Held, TeardownLabels
<1> QED
  BY <1>2, <1>3, <1>4, <1>5 DEF OutlineOf, next

LEMMA HandshakeFailsKeeps ==
    ASSUME LeaseInv, NEW g \in Graphs, HandshakeFails(g)
    PROVE  LeaseInv' /\ ClientTurn(g)
<1> DEFINE th == [thr[g] EXCEPT !.spawned = NoChannel]
<1>1. thr[g].pc = "handshaken" /\ UNCHANGED <<chan, toWorker, toClient, proc, workers>>
  BY DEF HandshakeFails
<1>2. g \in Threads /\ ExitIsLast(g)
  BY <1>1, ClientsAreGraphs
<1>3. /\ thr[g] \in ThreadStates /\ Handshaking(thr[g]) /\ Types
      /\ References(g) = {thr[g].lease, thr[g].spawned} \cup Range(thr[g].retire)
  BY <1>1, <1>2, PlaceFacts DEF TeardownLabels
<1>4. PICK c \in Channels : c = thr[g].spawned
  BY <1>3 DEF Handshaking, ThreadStates
<1>5. /\ th \in ThreadStates /\ th.lease = NoChannel /\ th.spawned = NoChannel /\ th.retire = << >> /\ ~th.running
  BY <1>3 DEF ThreadStates, Handshaking, HoldsOnly
<1> DEFINE next == Closing(th, c, "returned")
<1>6. /\ next \in ThreadStates /\ Asks(g, next) /\ OutlineOf(g, next) /\ Held(next) = {NoChannel, c}
      /\ next.lease = NoChannel /\ next.spawned = NoChannel /\ next.retire = << >>
      /\ next.pc = "close" /\ next.chan = c
  BY <1>2, <1>5, ClosingKeeps
<1>7. thr' = [thr EXCEPT ![g] = next]
  BY <1>4 DEF HandshakeFails
<1> HIDE DEF th, next
<1>8. thr[g].lease = NoChannel /\ References(g) = {NoChannel, c}
  <2>1. Range(<< >>) = {}
    BY DEF Range
  <2> QED
    BY <1>3, <1>4, <2>1 DEF Handshaking, HoldsOnly
<1>9. Alone(g, c)
  BY <1>2, <1>3, <1>4 DEF LeaseInv, SpawnedAlone, Handshaking, Alone
<1> QED
  BY <1>1, <1>2, <1>6, <1>7, <1>8, <1>9, LocalKeeps

LEMMA RegisterKeeps ==
    ASSUME LeaseInv, NEW g \in Graphs, Register(g)
    PROVE  LeaseInv' /\ ClientTurn(g)
<1> DEFINE th == [thr[g] EXCEPT !.spawned = NoChannel]
<1> DEFINE rt == thr[g].rt
<1>1. thr[g].pc = "handshaken" /\ HandshakeAccepted(thr[g].resp) /\ UNCHANGED <<chan, toWorker, toClient, proc>>
  BY DEF Register
<1>2. g \in Threads /\ ExitIsLast(g)
  BY <1>1, ClientsAreGraphs
<1>3. /\ thr[g] \in ThreadStates /\ Handshaking(thr[g]) /\ Types
      /\ References(g) = {thr[g].lease, thr[g].spawned} \cup Range(thr[g].retire)
  BY <1>1, <1>2, PlaceFacts DEF TeardownLabels
<1>4. PICK c \in Channels : c = thr[g].spawned /\ c # NoChannel
  BY <1>3 DEF Handshaking, ThreadStates
<1>5. /\ workers \subseteq Records /\ IsFiniteSet(workers)
      /\ \A r, s \in workers : r.chan = s.chan => r = s
      /\ \A r \in workers : r.active = {h \in Graphs : thr[h].lease = r.chan} /\ r.chan # NoChannel
  BY <1>3, ControlAssumption DEF LeaseInv, Types, RecordsCount, Records, NoChannel
\* The new worker's channel is known to this thread only, and it was started.
<1>6. /\ RecordOf(c) = {} /\ \A u \in Threads \ {g} : c \notin References(u)
      /\ Begun(c)' /\ thr[g].lease = NoChannel /\ References(g) = {NoChannel, c} /\ rt \in Runtimes
      /\ Handshaken(g)
  <2>1. Range(<< >>) = {} /\ thr[g].resp.kind = "Health"
    BY <1>1 DEF Range, HandshakeAccepted
  <2>2. Begun(c)
    BY <1>1, <1>2, <1>4, <2>1 DEF LeaseInv, SpawnedAlone
  <2>3. Begun(c)'
    BY <1>1, <2>2 DEF Begun, WorkerStarted
  <2> QED
    BY <1>1, <1>2, <1>3, <1>4, <2>1, <2>3 DEF LeaseInv, SpawnedAlone, Handshaking, HoldsOnly, Handshaken
<1>7. /\ th \in ThreadStates /\ th.spawned = NoChannel /\ ~th.running /\ th.rt = rt
  BY <1>3 DEF ThreadStates, Handshaking
<1>8. ASSUME NEW d \in Channels, NEW cs \in Seq(Channels), NEW next \in Retiring(g, [th EXCEPT !.lease = d], cs, "acquired")
      PROVE  /\ next \in ThreadStates /\ Asks(g, next) /\ OutlineOf(g, next)
             /\ next.lease = d /\ next.retire = cs
             /\ next.spawned # NoChannel => next.spawned \in Channels /\ Free(next.spawned)
             /\ next.pc \in {"ensure", "idle", "done"} /\ next.pc \notin TeardownLabels
  <2> DEFINE w == [th EXCEPT !.lease = d]
  <2>1. w \in ThreadStates /\ w.lease = d /\ w.spawned = th.spawned /\ w.running = th.running /\ w.rt = th.rt
    BY <1>7 DEF ThreadStates
  <2> HIDE DEF w
  <2>2. next \in Retiring(g, w, cs, "acquired")
    BY <1>8 DEF w
  <2>3. /\ next \in ThreadStates /\ Asks(g, next) /\ OutlineOf(g, next)
        /\ next.lease = w.lease /\ next.retire = cs
        /\ next.spawned # NoChannel => next.spawned \in Channels /\ Free(next.spawned)
        /\ next.pc \notin TeardownLabels /\ next.pc \in {"ensure", "idle", "done"}
    BY <1>2, <1>3, <1>6, <1>7, <2>1, <2>2, RetiringKeeps
  <2> QED
    BY <2>1, <2>3
<1> HIDE DEF th
<1>9. CASE \E r \in Rivals(rt) :
             /\ workers' = WithGraph(workers, r, g)
             /\ \E next \in Retiring(g, [th EXCEPT !.lease = r.chan], <<c>>, "acquired") :
                  thr' = [thr EXCEPT ![g] = next]
  <2>1. PICK r \in workers :
             /\ workers' = WithGraph(workers, r, g)
             /\ \E next \in Retiring(g, [th EXCEPT !.lease = r.chan], <<c>>, "acquired") :
                  thr' = [thr EXCEPT ![g] = next]
    BY <1>9 DEF Rivals, Matching
  <2>2. r.chan \in Channels /\ <<c>> \in Seq(Channels) /\ Range(<<c>>) = {c} /\ Once(<<c>>)
    BY <1>5 DEF Records, Range, Once
  <2>3. PICK next \in ThreadStates :
               /\ Asks(g, next) /\ OutlineOf(g, next) /\ thr' = [thr EXCEPT ![g] = next]
               /\ next.lease = r.chan /\ next.retire = <<c>>
               /\ next.spawned # NoChannel => next.spawned \in Channels /\ Free(next.spawned)
               /\ next.pc \in {"ensure", "idle", "done"} /\ next.pc \notin TeardownLabels
    <3>1. PICK d \in Channels, cs \in Seq(Channels) : d = r.chan /\ cs = <<c>>
      BY <2>2
    <3>2. PICK next \in Retiring(g, [th EXCEPT !.lease = d], cs, "acquired") : thr' = [thr EXCEPT ![g] = next]
      BY <2>1, <3>1
    <3>3. /\ next \in ThreadStates /\ Asks(g, next) /\ OutlineOf(g, next)
          /\ next.lease = d /\ next.retire = cs
          /\ next.spawned # NoChannel => next.spawned \in Channels /\ Free(next.spawned)
          /\ next.pc \in {"ensure", "idle", "done"} /\ next.pc \notin TeardownLabels
      BY <1>8, <3>2
    <3> QED
      BY <3>1, <3>2, <3>3
  <2>4. /\ workers' \subseteq Records /\ IsFiniteSet(workers')
        /\ \A q \in workers' :
             \/ q \in workers /\ q.chan # r.chan
             \/ q.chan = r.chan /\ q.runtime = r.runtime /\ q.active = r.active \cup {g}
        /\ \A q \in workers : \E p \in workers' : p.chan = q.chan
    <3>1. /\ WithGraph(workers, r, g) \subseteq Records /\ IsFiniteSet(WithGraph(workers, r, g))
          /\ \A q \in WithGraph(workers, r, g) :
                \/ q \in workers /\ q.chan # r.chan
                \/ q.chan = r.chan /\ q.runtime = r.runtime /\ q.active = r.active \cup {g}
          /\ \A q \in workers : \E p \in WithGraph(workers, r, g) : p.chan = q.chan
      BY WithGraphCounts
    <3> QED
      BY <2>1, <3>1
  <2>5. thr'[g] = next /\ \A u \in Threads \ {g} : thr'[u] = thr[u]
    BY <1>2, <1>3, <2>3 DEF Types
  <2>6. RecordsFollow(g)
    <3>1. ASSUME NEW q \in workers'
          PROVE  /\ q.active = {h \in Graphs : thr'[h].lease = q.chan}
                 /\ \E s \in workers : s.chan = q.chan /\ s.runtime = q.runtime
      <4>1. CASE q \in workers /\ q.chan # r.chan
        <5>1. \A h \in Graphs : thr'[h].lease = q.chan <=> thr[h].lease = q.chan
          BY <1>2, <1>5, <1>6, <2>3, <2>5, <4>1 DEF Threads
        <5> QED
          BY <1>5, <4>1, <5>1
      <4>2. CASE q.chan = r.chan /\ q.runtime = r.runtime /\ q.active = r.active \cup {g}
        <5>1. \A h \in Graphs : thr'[h].lease = q.chan <=> thr[h].lease = r.chan \/ h = g
          BY <1>2, <2>3, <2>5, <4>2 DEF Threads
        <5>2. r.active = {h \in Graphs : thr[h].lease = r.chan}
          BY <1>5
        <5> QED
          BY <4>2, <5>1, <5>2
      <4> QED
        BY <2>4, <4>1, <4>2
    <3> QED
      BY <3>1 DEF RecordsFollow
  <2>7. RefersSoundly(g, next)
    <3>1. RecordOf(r.chan) # {}
      BY DEF RecordOf
    <3>2. \A q \in workers' : q.chan # c
      BY <1>6, <2>4 DEF RecordOf
    <3>3. next.spawned # NoChannel => Free(next.spawned) /\ \A q \in workers' : q.chan # next.spawned
      BY <2>3, <2>4 DEF Free, RecordOf
    <3> QED
      BY <1>4, <1>6, <2>2, <2>3, <3>1, <3>2, <3>3 DEF RefersSoundly, Held, LeavingChannel
  <2>8. LeavesNothing(g, next)
    <3>1. c \in Held(next)
      BY <2>2, <2>3 DEF Held
    <3>2. \A d \in Channels : d # NoChannel
      BY ControlAssumption DEF NoChannel
    <3> QED
      BY <1>6, <2>4, <3>1, <3>2 DEF LeavesNothing, RecordOf
  <2> QED
    BY <1>1, <1>2, <2>3, <2>4, <2>6, <2>7, <2>8, QuietKeeps
<1>10. CASE /\ Rivals(rt) = {} /\ workers' = workers \cup {NewRecord(c, rt, g)}
            /\ \E next \in Retiring(g, [th EXCEPT !.lease = c], << >>, "acquired") : thr' = [thr EXCEPT ![g] = next]
  <2>1. << >> \in Seq(Channels) /\ Range(<< >>) = {} /\ Once(<< >>)
    BY DEF Range, Once
  <2>2. PICK next \in ThreadStates :
               /\ Asks(g, next) /\ OutlineOf(g, next) /\ thr' = [thr EXCEPT ![g] = next]
               /\ next.lease = c /\ next.retire = << >>
               /\ next.spawned # NoChannel => next.spawned \in Channels /\ Free(next.spawned)
               /\ next.pc \in {"ensure", "idle", "done"} /\ next.pc \notin TeardownLabels
    <3>1. PICK d \in Channels, cs \in Seq(Channels) : d = c /\ cs = << >>
      BY <2>1
    <3>2. PICK next \in Retiring(g, [th EXCEPT !.lease = d], cs, "acquired") : thr' = [thr EXCEPT ![g] = next]
      BY <1>10, <3>1
    <3>3. /\ next \in ThreadStates /\ Asks(g, next) /\ OutlineOf(g, next)
          /\ next.lease = d /\ next.retire = cs
          /\ next.spawned # NoChannel => next.spawned \in Channels /\ Free(next.spawned)
          /\ next.pc \in {"ensure", "idle", "done"} /\ next.pc \notin TeardownLabels
      BY <1>8, <3>2
    <3> QED
      BY <3>1, <3>2, <3>3
  <2>3. PICK new \in Records :
          /\ workers' = workers \cup {new}
          /\ new.chan = c /\ new.runtime = rt /\ new.active = {g}
    <3>1. NewRecord(c, rt, g) \in Records
      BY <1>6 DEF NewRecord, Records
    <3>2. NewRecord(c, rt, g).chan = c /\ NewRecord(c, rt, g).runtime = rt /\ NewRecord(c, rt, g).active = {g}
      BY DEF NewRecord
    <3> QED
      BY <1>10, <3>1, <3>2
  <2>4. workers' = workers \cup {new}
    BY <2>3
  <2>5. workers' \subseteq Records /\ IsFiniteSet(workers')
    BY <1>5, <2>3, <2>4, FS_AddElement
  <2>6. thr'[g] = next /\ \A u \in Threads \ {g} : thr'[u] = thr[u]
    BY <1>2, <1>3, <2>2 DEF Types
  <2>7. \A u \in Threads \ {g} : thr[u].lease # c
    BY <1>6 DEF References
  <2>8. \A s \in workers : Healthy(s.chan)' => s.runtime # rt
    <3>1. \A s \in workers : Healthy(s.chan) => s.runtime # rt
      BY <1>10 DEF Rivals, Matching
    <3>2. \A d : Healthy(d)' <=> Healthy(d)
      BY <1>1 DEF Healthy
    <3> QED
      BY <3>1, <3>2
  <2>9. RecordsFollow(g)
    <3>1. ASSUME NEW q \in workers PROVE q.active = {h \in Graphs : thr'[h].lease = q.chan}
      <4>1. q.chan # c
        BY <1>6 DEF RecordOf
      <4>2. \A h \in Graphs : thr'[h].lease = q.chan <=> thr[h].lease = q.chan
        BY <1>2, <1>5, <1>6, <2>2, <2>6, <4>1 DEF Threads
      <4> QED
        BY <1>5, <4>2
    <3>2. new.active = {h \in Graphs : thr'[h].lease = new.chan}
      BY <1>2, <2>2, <2>3, <2>6, <2>7 DEF Threads
    <3>3. new.chan = thr[g].spawned /\ new.chan # NoChannel /\ Begun(new.chan)'
      <4>1. new.chan = c
        BY <2>3
      <4> QED
        BY <1>4, <1>6, <4>1
    <3> QED
      BY <1>6, <2>3, <2>4, <2>8, <3>1, <3>2, <3>3 DEF RecordsFollow
  <2>10. RefersSoundly(g, next)
    <3>1. next.spawned # NoChannel => next.spawned # c
      BY <1>2, <1>6, <2>2 DEF Free
    <3>2. next.spawned # NoChannel => Free(next.spawned) /\ \A q \in workers' : q.chan # next.spawned
      BY <2>2, <2>3, <2>4, <3>1 DEF Free, RecordOf
    <3> QED
      BY <1>6, <2>1, <2>2, <3>2 DEF RefersSoundly, Held, LeavingChannel
  <2>11. LeavesNothing(g, next)
    <3>1. c \in Held(next)
      BY <2>2 DEF Held
    <3>2. \A d \in Channels : d # NoChannel
      BY ControlAssumption DEF NoChannel
    <3> QED
      BY <1>6, <2>4, <3>1, <3>2 DEF LeavesNothing, RecordOf
  <2> QED
    BY <1>1, <1>2, <2>2, <2>5, <2>9, <2>10, <2>11, QuietKeeps
<1> QED
  BY <1>4, <1>9, <1>10 DEF Register, th

\* A client on its lease, between two transactions.
LEMMA LeaseFacts ==
    ASSUME LeaseInv, NEW g \in Graphs, thr[g].pc \in LeaseLabels
    PROVE  /\ g \in Threads /\ ExitIsLast(g) /\ thr[g] \in ThreadStates /\ Types /\ OnLease(thr[g])
           /\ thr[g].lease \in Channels /\ thr[g].lease # NoChannel /\ References(g) = {NoChannel, thr[g].lease}
           /\ thr[g].spawned = NoChannel /\ thr[g].retire = << >>
<1>1. g \in Threads /\ ExitIsLast(g)
  BY ClientsAreGraphs DEF LeaseLabels
<1>2. thr[g].pc \notin TeardownLabels
  BY DEF LeaseLabels, TeardownLabels
<1>3. /\ thr[g] \in ThreadStates /\ Types /\ OnLease(thr[g])
      /\ References(g) = {thr[g].lease, thr[g].spawned} \cup Range(thr[g].retire)
  BY <1>1, <1>2, PlaceFacts
<1>4. thr[g].spawned = NoChannel /\ thr[g].retire = << >> /\ thr[g].lease # NoChannel
  BY <1>3 DEF OnLease, HoldsOnly
<1>5. Range(<< >>) = {} /\ thr[g].lease \in Channels
  BY <1>3, <1>4 DEF Range, ThreadStates
<1> QED
  BY <1>1, <1>3, <1>4, <1>5

LEMMA UnregisteredTyped ==
    ASSUME NEW g, NEW ch \in ChannelStates
    PROVE  /\ Unregistered(g, ch) \in ChannelStates /\ Unregistered(g, ch).responses = ch.responses
           /\ Unregistered(g, ch).fd = ch.fd /\ Unregistered(g, ch).pid = ch.pid
           /\ Unregistered(g, ch).reader = ch.reader /\ Unregistered(g, ch).failed = ch.failed
           /\ Unregistered(g, ch).shutdown = ch.shutdown
BY DEF Unregistered, ChannelStates

\* The records after client g left the worker of channel c.
Leaves(g, c, rs) ==
    /\ rs \subseteq Records /\ IsFiniteSet(rs)
    /\ \A q \in rs :
         \/ q.chan # c /\ q \in workers
         \/ q.chan = c /\ \E r \in workers : r.chan = c /\ r.runtime = q.runtime /\ q.active = r.active \ {g}
    /\ \A r \in workers : r.chan # c => r \in rs

LEMMA ClearLeaseKeeps ==
    ASSUME LeaseInv, NEW g \in Graphs, thr[g].pc \in LeaseLabels,
           NEW c \in Channels, c = thr[g].lease, NEW rs, Leaves(g, c, rs), workers' = rs, ClearLease(g, rs),
           UNCHANGED <<toWorker, toClient, proc>>
    PROVE  LeaseInv' /\ ClientTurn(g)
<1> DEFINE last == ~SharedWithOthers(g, c, rs)
<1>1. /\ g \in Threads /\ ExitIsLast(g) /\ Types /\ c # NoChannel /\ References(g) = {NoChannel, c}
  BY LeaseFacts
<1>2. /\ workers \subseteq Records
      /\ \A r, s \in workers : r.chan = s.chan => r = s
      /\ \A r \in workers : r.active = {h \in Graphs : thr[h].lease = r.chan} /\ r.chan # NoChannel
  BY <1>1, ControlAssumption DEF LeaseInv, Types, RecordsCount, Records, NoChannel
<1>3. last <=> (\A r \in workers' : r.chan # c) /\ \A u \in Threads \ {g} : c \notin References(u)
  BY DEF SharedWithOthers
<1>4. PICK next \in ThreadStates :
        /\ thr' = [thr EXCEPT ![g] = next] /\ Asks(g, next) /\ OutlineOf(g, next)
        /\ next.lease = NoChannel /\ next.spawned = NoChannel /\ next.retire = << >>
        /\ Held(next) = IF last /\ Open(c) THEN {NoChannel, c} ELSE {NoChannel}
        /\ next.pc \in {"idle", "close"}
        /\ LeavingChannel(next) => next.chan = c /\ last
  <2> DEFINE closing == Closing(NewThread, c, "returned")
  <2>1. /\ closing \in ThreadStates /\ Asks(g, closing) /\ OutlineOf(g, closing) /\ Held(closing) = {NoChannel, c}
        /\ closing.lease = NoChannel /\ closing.spawned = NoChannel /\ closing.retire = << >>
        /\ closing.pc = "close" /\ closing.chan = c
    BY <1>1, NewThreadTyped, NewThreadRests, ClosingKeeps
  <2>2. /\ NewThread \in ThreadStates /\ Asks(g, NewThread) /\ OutlineOf(g, NewThread)
        /\ Held(NewThread) = {NoChannel} /\ NewThread.lease = NoChannel /\ NewThread.spawned = NoChannel
        /\ NewThread.retire = << >> /\ NewThread.pc = "idle" /\ ~LeavingChannel(NewThread)
    BY <1>1, NewThreadTyped, NewThreadRests
  <2>3. thr' = [thr EXCEPT ![g] = IF last /\ Open(c) THEN closing ELSE NewThread]
    BY DEF ClearLease
  <2> HIDE DEF closing, last
  <2>4. CASE last /\ Open(c)
    BY <2>1, <2>3, <2>4
  <2>5. CASE ~(last /\ Open(c))
    BY <2>2, <2>3, <2>5
  <2> QED
    BY <2>4, <2>5
<1>5. thr'[g] = next /\ \A u \in Threads \ {g} : thr'[u] = thr[u]
  BY <1>1, <1>4 DEF Types
<1>6. /\ chan' \in [Channels -> ChannelStates]
      /\ \A d \in Channels :
           /\ chan'[d].responses \subseteq chan[d].responses
           /\ chan'[d].fd = chan[d].fd /\ chan'[d].pid = chan[d].pid /\ chan'[d].reader = chan[d].reader
           /\ \/ LeftAlone(g, d) /\ ~chan'[d].fd
              \/ /\ chan'[d].failed = chan[d].failed /\ chan'[d].shutdown = chan[d].shutdown
                 /\ chan'[d].responses = chan[d].responses
  <2> DEFINE ch == IF last /\ ~Open(c) THEN NewChannel ELSE Unregistered(g, chan[c])
  <2>1. chan \in [Channels -> ChannelStates] /\ chan[c] \in ChannelStates
    BY <1>1 DEF Types
  <2>2. chan' = [chan EXCEPT ![c] = ch]
    BY DEF ClearLease
  <2>3. /\ ch \in ChannelStates /\ ch.responses \subseteq chan[c].responses
        /\ ch.fd = chan[c].fd /\ ch.pid = chan[c].pid /\ ch.reader = chan[c].reader
        /\ \/ LeftAlone(g, c) /\ ~ch.fd
           \/ ch.failed = chan[c].failed /\ ch.shutdown = chan[c].shutdown /\ ch.responses = chan[c].responses
    <3>1. CASE last /\ ~Open(c)
      <4>1. ch = NewChannel /\ LeftAlone(g, c)
        BY <1>3, <3>1 DEF LeftAlone
      <4>2. /\ NewChannel.responses = {} /\ ~NewChannel.fd /\ ~NewChannel.pid /\ NewChannel.reader = "none"
        BY DEF NewChannel
      <4>3. ~chan[c].fd /\ ~chan[c].pid /\ chan[c].reader = "none" /\ chan[c].fd \in BOOLEAN /\ chan[c].pid \in BOOLEAN
        BY <2>1, <3>1 DEF Open, ChannelStates
      <4>4. NewChannel.fd = FALSE /\ NewChannel.pid = FALSE
        BY DEF NewChannel
      <4>5. chan[c].fd = FALSE /\ chan[c].pid = FALSE
        BY <4>3
      <4> QED
        BY <4>1, <4>2, <4>3, <4>4, <4>5, NewThreadTyped
    <3>2. CASE ~(last /\ ~Open(c))
      <4>1. ch = Unregistered(g, chan[c])
        BY <3>2
      <4> QED
        BY <2>1, <4>1, UnregisteredTyped
    <3> QED
      BY <3>1, <3>2
  <2> HIDE DEF ch
  <2> QED
    BY <2>1, <2>2, <2>3
<1>7. rs \subseteq Records /\ IsFiniteSet(rs)
  BY DEF Leaves
<1>8. RecordsFollow(g)
  <2>1. ASSUME NEW q \in rs
        PROVE  /\ q.active = {h \in Graphs : thr'[h].lease = q.chan}
               /\ \E s \in workers : s.chan = q.chan /\ s.runtime = q.runtime
    <3>1. CASE q.chan # c /\ q \in workers
      <4>1. \A h \in Graphs : thr'[h].lease = q.chan <=> thr[h].lease = q.chan
        BY <1>2, <1>4, <1>5, <3>1 DEF Threads
      <4> QED
        BY <1>2, <3>1, <4>1
    <3>2. CASE q.chan = c /\ \E r \in workers : r.chan = c /\ r.runtime = q.runtime /\ q.active = r.active \ {g}
      <4>1. PICK r \in workers : r.chan = c /\ r.runtime = q.runtime /\ q.active = r.active \ {g}
        BY <3>2
      <4>2. \A h \in Graphs : thr'[h].lease = c <=> thr[h].lease = c /\ h # g
        BY <1>1, <1>4, <1>5 DEF Threads
      <4>3. r.active = {h \in Graphs : thr[h].lease = c}
        BY <1>2, <4>1
      <4>4. q.active = {h \in Graphs : thr'[h].lease = c}
        BY <4>1, <4>2, <4>3
      <4> QED
        BY <3>2, <4>1, <4>4
    <3> QED
      BY <3>1, <3>2 DEF Leaves
  <2> QED
    BY <2>1 DEF RecordsFollow
<1>9. RefersSoundly(g, next)
  <2>1. Range(<< >>) = {} /\ Once(<< >>)
    BY DEF Range, Once
  <2> QED
    BY <1>1, <1>3, <1>4, <2>1 DEF RefersSoundly
<1>10. LeavesNothing(g, next)
  <2>1. ASSUME NEW d \in Channels, Open(d), d \in References(g) \/ RecordOf(d) # {}
        PROVE  \/ d \in Held(next) \/ \E r \in workers' : r.chan = d
               \/ \E u \in Threads \ {g} : d \in References(u)
    <3>1. CASE d = c
      BY <1>3, <1>4, <2>1, <3>1
    <3>2. CASE d # c
      <4>1. d # NoChannel
        BY ControlAssumption DEF NoChannel
      <4> QED
        BY <1>1, <2>1, <3>2, <4>1 DEF RecordOf, Leaves
    <3> QED
      BY <3>1, <3>2
  <2> QED
    BY <2>1 DEF LeavesNothing
<1> QED
  BY <1>1, <1>4, <1>6, <1>7, <1>8, <1>9, <1>10, ClientKeeps

LEMMA ReleasedLeaves ==
    ASSUME LeaseInv, NEW g \in Graphs, NEW c \in Channels
    PROVE  Leaves(g, c, Released(c, g))
<1> DEFINE mine == RecordOf(c)
<1> DEFINE stays(m) == m.active \ {g} # {} \/ \A o \in {r \in workers \ mine : Healthy(r.chan)} : o.runtime = m.runtime
<1> DEFINE kept == {[r EXCEPT !.active = @ \ {g}] : r \in {m \in mine : stays(m)}}
<1>1. /\ workers \subseteq Records /\ IsFiniteSet(workers)
      /\ \A r, s \in workers : r.chan = s.chan => r = s
  BY DEF LeaseInv, Types, RecordsCount
<1>2. mine = {r \in workers : r.chan = c}
  BY DEF RecordOf
<1>3. Released(c, g) = (workers \ mine) \cup kept
  BY DEF Released
<1>4. ASSUME NEW q \in kept
      PROVE  \E r \in mine : /\ q = [r EXCEPT !.active = @ \ {g}] /\ q \in Records /\ q.chan = c
                             /\ q.runtime = r.runtime /\ q.active = r.active \ {g}
  <2>1. PICK r \in mine : q = [r EXCEPT !.active = @ \ {g}]
    BY <1>4
  <2>2. r \in Records /\ r.chan = c
    BY <1>1, <1>2
  <2> QED
    BY <2>1, <2>2 DEF Records
<1> HIDE DEF kept
<1>5. \E x : kept \subseteq {x}
  <2>1. CASE mine = {}
    BY <1>4, <2>1
  <2>2. CASE mine # {}
    <3>1. PICK r \in mine : TRUE
      BY <2>2
    <3>2. \A s \in mine : s = r
      BY <1>1, <1>2, <3>1
    <3>3. kept \subseteq {[r EXCEPT !.active = @ \ {g}]}
      BY <1>4, <3>2
    <3> QED
      BY <3>3
  <2> QED
    BY <2>1, <2>2
<1>6. IsFiniteSet(Released(c, g))
  <2>1. PICK x : kept \subseteq {x}
    BY <1>5
  <2>2. IsFiniteSet((workers \ mine) \cup {x})
    <3>1. IsFiniteSet(workers \ mine)
      BY <1>1, FS_Subset
    <3> QED
      BY <3>1, FS_AddElement
  <2>3. Released(c, g) \subseteq (workers \ mine) \cup {x}
    BY <1>3, <2>1
  <2> QED
    BY <2>2, <2>3, FS_Subset
<1> QED
  BY <1>1, <1>2, <1>3, <1>4, <1>6 DEF Leaves

LEMMA ReleaseKeeps ==
    ASSUME LeaseInv, NEW g \in Graphs, thr[g].pc \in LeaseLabels, ReleaseGraph(g),
           UNCHANGED <<toWorker, toClient, proc>>
    PROVE  LeaseInv' /\ ClientTurn(g)
<1>1. PICK c \in Channels : c = thr[g].lease
  BY LeaseFacts
<1>2. PICK rs : rs = Released(c, g)
  OBVIOUS
<1>3. Leaves(g, c, rs)
  BY <1>2, ReleasedLeaves
<1>4. workers' = rs /\ ClearLease(g, rs)
  BY <1>1, <1>2 DEF ReleaseGraph
<1> QED
  BY <1>1, <1>3, <1>4, ClearLeaseKeeps

\* A client that found its worker unusable has that worker to shut down.
LEMMA InvalidatingRetires ==
    ASSUME LeaseInv, NEW g \in Threads, NEW c \in Channels,
           NEW next \in Retiring(g, [NewThread EXCEPT !.lease = c], <<c>>, "invalidated")
    PROVE  /\ next \in ThreadStates /\ Asks(g, next) /\ OutlineOf(g, next)
           /\ next.lease = c /\ next.retire = <<c>>
           /\ next.spawned # NoChannel => next.spawned \in Channels /\ Free(next.spawned)
           /\ next.pc \in {"ensure", "idle", "done"} /\ next.pc \notin TeardownLabels
<1> DEFINE w == [NewThread EXCEPT !.lease = c]
<1>1. w \in ThreadStates /\ w.lease = c /\ w.spawned = NoChannel /\ ~w.running
  <2>1. w \in ThreadStates /\ w.lease = c
    BY NewThreadTyped DEF ThreadStates
  <2>2. w.spawned = NewThread.spawned /\ w.running = NewThread.running
    BY DEF NewThread
  <2> QED
    BY <2>1, <2>2, NewThreadRests
<1>2. PICK cs \in Seq(Channels) : cs = <<c>>
  <2>1. <<c>> \in Seq(Channels)
    OBVIOUS
  <2> QED
    BY <2>1
<1>3. next \in Retiring(g, w, cs, "invalidated")
  BY <1>2
<1> HIDE DEF w
<1>4. PICK after \in {"acquired", "invalidated", "done"} : after = "invalidated"
  OBVIOUS
<1>5. next \in Retiring(g, w, cs, after)
  BY <1>3, <1>4
<1>6. after # "acquired" /\ after # "done" /\ cs = <<w.lease>>
  BY <1>1, <1>2, <1>4
<1>7. /\ w \in ThreadStates /\ w.spawned = NoChannel /\ ~w.running
      /\ after = "acquired" => w.rt \in Runtimes
      /\ after = "invalidated" => cs = <<w.lease>>
      /\ after = "done" => w.lease = NoChannel /\ g = Exit
  BY <1>1, <1>6
<1>8. /\ next \in ThreadStates /\ Asks(g, next) /\ OutlineOf(g, next)
      /\ next.lease = w.lease /\ next.retire = cs
      /\ next.spawned # NoChannel => next.spawned \in Channels /\ Free(next.spawned)
      /\ next.pc \in {"ensure", "idle", "done"} /\ next.pc \notin TeardownLabels
  BY <1>5, <1>7, RetiringKeeps
<1> QED
  BY <1>1, <1>2, <1>8

LEMMA InvalidateKeeps ==
    ASSUME LeaseInv, NEW g \in Graphs, thr[g].pc \in LeaseLabels, InvalidateWorker(g),
           UNCHANGED <<toWorker, toClient, proc>>
    PROVE  LeaseInv' /\ ClientTurn(g)
<1>1. PICK c \in Channels : c = thr[g].lease
  BY LeaseFacts
<1>2. /\ g \in Threads /\ ExitIsLast(g) /\ Types /\ c # NoChannel /\ References(g) = {NoChannel, c}
  BY <1>1, LeaseFacts
<1>3. /\ workers \subseteq Records /\ IsFiniteSet(workers) /\ chan \in [Channels -> ChannelStates]
      /\ \A r \in workers : r.active = {h \in Graphs : thr[h].lease = r.chan}
  BY DEF LeaseInv, Types, RecordsCount
<1>4. CASE RecordOf(c) = {} /\ ClearLease(g, workers) /\ UNCHANGED workers
  <2>1. PICK rs : rs = workers
    OBVIOUS
  <2>2. Leaves(g, c, rs)
    BY <1>3, <1>4, <2>1 DEF Leaves, RecordOf
  <2> QED
    BY <1>1, <1>4, <2>1, <2>2, ClearLeaseKeeps
<1>5. CASE /\ workers' = Invalidated(c)
           /\ chan' = [chan EXCEPT ![c] = Unregistered(g, @)]
           /\ \E next \in Retiring(g, [NewThread EXCEPT !.lease = c], <<c>>, "invalidated") :
                thr' = [thr EXCEPT ![g] = next]
           /\ RecordOf(c) # {}
  <2>1. PICK next \in Retiring(g, [NewThread EXCEPT !.lease = c], <<c>>, "invalidated") :
          thr' = [thr EXCEPT ![g] = next]
    BY <1>5
  <2>2. PICK cs \in Seq(Channels) : cs = <<c>>
    <3>1. <<c>> \in Seq(Channels)
      OBVIOUS
    <3> QED
      BY <3>1
  <2>3. Range(cs) = {c} /\ Once(cs)
    BY <2>2 DEF Range, Once
  <2>4. /\ next \in ThreadStates /\ Asks(g, next) /\ OutlineOf(g, next)
        /\ next.lease = c /\ next.retire = <<c>>
        /\ next.spawned # NoChannel => next.spawned \in Channels /\ Free(next.spawned)
        /\ next.pc \in {"ensure", "idle", "done"} /\ next.pc \notin TeardownLabels
    BY <1>2, <2>1, InvalidatingRetires
  <2>5. next.retire = cs
    BY <2>2, <2>4
  <2>6. workers' = {r \in workers : r.chan # c} /\ workers' \subseteq workers
    BY <1>5 DEF Invalidated, RecordOf
  <2>7. workers' \subseteq Records /\ IsFiniteSet(workers')
    BY <1>3, <2>6, FS_Subset
  <2>8. /\ chan' \in [Channels -> ChannelStates]
        /\ \A d \in Channels :
           /\ chan'[d].responses \subseteq chan[d].responses
           /\ chan'[d].fd = chan[d].fd /\ chan'[d].pid = chan[d].pid /\ chan'[d].reader = chan[d].reader
           /\ chan'[d].failed = chan[d].failed /\ chan'[d].shutdown = chan[d].shutdown
           /\ chan'[d].responses = chan[d].responses
    BY <1>3, <1>5, UnregisteredTyped
  <2>9. RecordsFollow(g)
    <3>1. thr'[g] = next /\ \A u \in Threads \ {g} : thr'[u] = thr[u]
      BY <1>2, <2>1 DEF Types
    <3>2. \A h \in Graphs : thr'[h].lease = thr[h].lease
      BY <1>1, <2>4, <3>1 DEF Threads
    <3> QED
      BY <1>3, <2>6, <3>2 DEF RecordsFollow
  <2>10. RefersSoundly(g, next)
    <3>1. RecordOf(c) # {}
      BY <1>5
    <3> QED
      BY <1>2, <2>3, <2>4, <2>5, <2>6, <3>1 DEF RefersSoundly, Held, Free, RecordOf, LeavingChannel
  <2>11. LeavesNothing(g, next)
    <3>1. c \in Held(next)
      BY <2>4 DEF Held
    <3>2. \A d \in Channels : d # NoChannel
      BY ControlAssumption DEF NoChannel
    <3> QED
      BY <1>2, <2>6, <3>1, <3>2 DEF LeavesNothing, RecordOf
  <2> QED
    BY <1>2, <2>1, <2>4, <2>7, <2>8, <2>9, <2>10, <2>11, ClientKeeps
<1> QED
  BY <1>1, <1>4, <1>5 DEF InvalidateWorker

LEMMA PrepareKeeps ==
    ASSUME LeaseInv, NEW g \in Graphs, Prepare(g)
    PROVE  LeaseInv' /\ ClientTurn(g)
<1>1. thr[g].pc = "healthChecked" /\ thr[g].pc \in LeaseLabels /\ UNCHANGED <<toWorker, toClient, proc>>
  BY DEF Prepare, LeaseLabels
<1>2. PICK c \in Channels : c = thr[g].lease
  BY <1>1, LeaseFacts
<1>3. /\ g \in Threads /\ ExitIsLast(g) /\ thr[g] \in ThreadStates /\ Types /\ OnLease(thr[g])
      /\ c # NoChannel /\ References(g) = {NoChannel, c} /\ thr[g].spawned = NoChannel /\ thr[g].retire = << >>
  BY <1>1, <1>2, LeaseFacts
<1>4. CASE InvalidateWorker(g)
  BY <1>1, <1>4, InvalidateKeeps
<1>5. CASE /\ chan' = [chan EXCEPT ![c].handlers = @ \cup {g}]
           /\ \E next \in Calls(g, [thr[g] EXCEPT !.handler = TRUE, !.after = "idle"], c,
                                "StartSessions", "client", "startAnswered") :
                thr' = [thr EXCEPT ![g] = next]
           /\ UNCHANGED workers
  <2> DEFINE w == [thr[g] EXCEPT !.handler = TRUE, !.after = "idle"]
  <2>1. /\ w \in ThreadStates /\ w.lease = c /\ w.spawned = NoChannel /\ w.retire = << >>
        /\ w.running = thr[g].running
    BY <1>2, <1>3 DEF ThreadStates
  <2>2. PICK next \in Calls(g, w, c, "StartSessions", "client", "startAnswered") : thr' = [thr EXCEPT ![g] = next]
    BY <1>5
  <2> HIDE DEF w
  <2>3. "StartSessions" \in RequestKinds /\ "startAnswered" \in Returns /\ "startAnswered" \in LeaseLabels
    BY DEF RequestKinds, Returns, LeaseLabels
  <2>4. /\ next \in ThreadStates /\ Asks(g, next)
        /\ next.pc = "ensure" /\ next.chan = c /\ next.ret = "startAnswered"
        /\ next.lease = w.lease /\ next.spawned = w.spawned /\ next.retire = w.retire
        /\ next.running = w.running
    BY <1>3, <2>1, <2>2, <2>3, CallKeeps
  <2>5. ~thr[g].running
    BY <1>1, <1>3 DEF OnLease, Place, Transacting, TransactionLabels
  <2>6. OutlineOf(g, next)
    BY <1>3, <2>1, <2>3, <2>4, <2>5 DEF OutlineOf, OnLease, Place, Transacting, TransactionLabels, HoldsOnly
  <2>7. Held(next) = References(g)
    BY <1>3, <2>1, <2>4 DEF Held, TeardownLabels, Range
  <2>8. /\ chan' \in [Channels -> ChannelStates]
        /\ \A d \in Channels :
             /\ chan'[d].responses \subseteq chan[d].responses
             /\ chan'[d].fd = chan[d].fd /\ chan'[d].pid = chan[d].pid /\ chan'[d].reader = chan[d].reader
             /\ chan'[d].failed = chan[d].failed /\ chan'[d].shutdown = chan[d].shutdown
             /\ chan'[d].responses = chan[d].responses
    <3> DEFINE ch == [chan[c] EXCEPT !.handlers = @ \cup {g}]
    <3>1. chan \in [Channels -> ChannelStates] /\ chan[c] \in ChannelStates
      BY <1>3 DEF Types
    <3>2. /\ ch \in ChannelStates /\ ch.responses = chan[c].responses /\ ch.fd = chan[c].fd
          /\ ch.pid = chan[c].pid /\ ch.reader = chan[c].reader /\ ch.failed = chan[c].failed
          /\ ch.shutdown = chan[c].shutdown
      BY <3>1 DEF ChannelStates
    <3>3. chan' = [chan EXCEPT ![c] = ch]
      BY <1>5
    <3> HIDE DEF ch
    <3> QED
      BY <3>1, <3>2, <3>3
  <2>9. workers' = workers /\ workers' \subseteq Records /\ IsFiniteSet(workers')
    BY <1>3, <1>5 DEF Types
  <2>10. RecordsFollow(g)
    <3>1. \A h \in Graphs : thr'[h].lease = thr[h].lease
      BY <1>2, <1>3, <2>1, <2>2, <2>4 DEF Types, Threads
    <3> QED
      BY <2>9, <3>1 DEF RecordsFollow, LeaseInv, RecordsCount
  <2>11. RefersSoundly(g, next)
    BY <2>1, <2>4, <2>7 DEF RefersSoundly, Range, Once, LeavingChannel, TeardownLabels
  <2>12. LeavesNothing(g, next)
    BY <2>7, <2>9 DEF LeavesNothing, RecordOf
  <2> QED
    BY <1>1, <1>3, <2>2, <2>4, <2>6, <2>8, <2>9, <2>10, <2>11, <2>12, ClientKeeps
<1> QED
  BY <1>2, <1>4, <1>5 DEF Prepare

LEMMA ShutdownAllKeeps ==
    ASSUME LeaseInv, ShutdownAll(Exit)
    PROVE  LeaseInv' /\ ClientTurn(Exit)
<1> DEFINE t == Exit
<1> DEFINE th == thr[Exit]
<1>1. /\ \A g \in Graphs : thr[g].pc = "idle" /\ ~thr[g].running
      /\ th.pc = "idle" /\ workers' = {} /\ UNCHANGED <<chan, toWorker, toClient, proc>>
  BY DEF ShutdownAll
<1>2. t \in Threads /\ t \notin Graphs /\ ExitIsLast(t)
  BY <1>1, ControlAssumption DEF Threads, ExitIsLast
<1>3. /\ th \in ThreadStates /\ Types /\ th.lease = NoChannel /\ th.spawned = NoChannel /\ ~th.running
      /\ References(t) = {NoChannel}
  <2>1. Range(<< >>) = {} /\ th.pc \notin TeardownLabels
    BY <1>1 DEF Range, TeardownLabels
  <2> QED
    BY <1>1, <1>2, <2>1, PlaceFacts DEF Resting, HoldsOnly
<1>4. PICK shutdown \in WorkersToShutdown(workers) :
        \E next \in Retiring(t, th, shutdown, "done") : thr' = [thr EXCEPT ![t] = next]
  BY DEF ShutdownAll
<1>5. shutdown \in Seq(Channels) /\ Range(shutdown) = {r.chan : r \in workers} /\ Once(shutdown)
  BY <1>4, ShutdownListed
<1>6. PICK w \in ThreadStates : w = th
  BY <1>3
<1>7. PICK next \in Retiring(t, w, shutdown, "done") : thr' = [thr EXCEPT ![t] = next]
  BY <1>4, <1>6
<1>8. /\ next \in ThreadStates /\ Asks(t, next) /\ OutlineOf(t, next)
      /\ next.lease = w.lease /\ next.retire = shutdown
      /\ next.spawned # NoChannel => next.spawned \in Channels /\ Free(next.spawned)
      /\ next.pc \in {"ensure", "idle", "done"} /\ next.pc \notin TeardownLabels
  BY <1>2, <1>3, <1>5, <1>6, <1>7, RetiringKeeps
<1>9. workers' \subseteq Records /\ IsFiniteSet(workers')
  BY <1>1, FS_EmptySet
<1>10. RecordsFollow(t)
  BY <1>1 DEF RecordsFollow
<1>11. RefersSoundly(t, next)
  BY <1>1, <1>3, <1>5, <1>6, <1>8 DEF RefersSoundly, Held, RecordOf, LeavingChannel
<1>12. LeavesNothing(t, next)
  <2>1. \A d \in Channels : d # NoChannel
    BY ControlAssumption DEF NoChannel
  <2> QED
    BY <1>3, <1>5, <1>8, <2>1 DEF LeavesNothing, Held, RecordOf
<1> QED
  BY <1>1, <1>2, <1>7, <1>8, <1>9, <1>10, <1>11, <1>12, QuietKeeps

\* The steps of a client, one by one.
LEMMA ClientStepKeeps ==
    ASSUME LeaseInv, NEW g \in Graphs, ClientStep(g)
    PROVE  LeaseInv' /\ ClientTurn(g)
<1> USE DEF LeaseLabels
<1>1. CASE AcquireFails(g)
  BY <1>1, AcquireFailsKeeps
<1>2. CASE Acquire(g)
  BY <1>2, AcquireKeeps
<1>3. CASE HandshakeFails(g)
  BY <1>3, HandshakeFailsKeeps
<1>4. CASE Register(g)
  BY <1>4, RegisterKeeps
<1>5. CASE PrepareFails(g)
  BY <1>5, ReleaseKeeps DEF PrepareFails
<1>6. CASE Prepare(g)
  BY <1>6, PrepareKeeps
<1>7. CASE StartAnswered(g)
  <2>1. thr[g].pc \in LeaseLabels /\ UNCHANGED <<toWorker, toClient, proc>>
    BY <1>7 DEF StartAnswered
  <2>2. CASE thr' = [thr EXCEPT ![g] = Idle([@ EXCEPT !.running = TRUE])] /\ UNCHANGED <<chan, workers>>
    <3>1. thr' = [thr EXCEPT ![g] = Idle([thr[g] EXCEPT !.running = TRUE])]
      BY <2>2
    <3> QED
      BY <2>1, <2>2, <3>1, AnsweredKeeps
  <2> QED
    BY <1>7, <2>1, <2>2, ReleaseKeeps, InvalidateKeeps DEF StartAnswered
<1>8. CASE StopAnswered(g)
  BY <1>8, ReleaseKeeps, InvalidateKeeps DEF StopAnswered
<1>9. CASE StatsHealthAnswered(g)
  <2>1. thr[g].pc = "statsHealthChecked" /\ thr[g].pc \in LeaseLabels /\ UNCHANGED <<toWorker, toClient, proc>>
    BY <1>9 DEF StatsHealthAnswered
  <2>2. thr[g].running
    BY <2>1, LeaseFacts DEF OnLease, Place, Transacting, TransactionLabels
  <2>3. CASE InvalidateWorker(g)
    BY <2>1, <2>3, InvalidateKeeps
  <2>4. CASE /\ \E next \in CallsOnLease(g, "Stats", "statsAnswered") : thr' = [thr EXCEPT ![g] = next]
             /\ UNCHANGED <<chan, workers>>
    BY <2>1, <2>2, <2>4, CallOnLeaseKeeps
  <2> QED
    BY <1>9, <2>3, <2>4 DEF StatsHealthAnswered
<1>10. CASE StatsAnswered(g)
  <2>1. thr[g].pc = "statsAnswered" /\ thr[g].pc \in LeaseLabels /\ UNCHANGED <<toWorker, toClient, proc>>
    BY <1>10 DEF StatsAnswered
  <2>2. thr[g].running /\ thr[g] \in ThreadStates
    BY <2>1, LeaseFacts DEF OnLease, Place, Transacting, TransactionLabels
  <2>3. CASE InvalidateWorker(g)
    BY <2>1, <2>3, InvalidateKeeps
  <2>4. CASE thr' = [thr EXCEPT ![g] = Idle(@)] /\ UNCHANGED <<chan, workers>>
    <3>1. [thr[g] EXCEPT !.running = TRUE] = thr[g]
      BY <2>2 DEF ThreadStates
    <3>2. thr' = [thr EXCEPT ![g] = Idle([thr[g] EXCEPT !.running = TRUE])]
      BY <2>4, <3>1
    <3> QED
      BY <2>1, <2>4, <3>2, AnsweredKeeps
  <2> QED
    BY <1>10, <2>3, <2>4 DEF StatsAnswered
<1> QED
  BY <1>1, <1>2, <1>3, <1>4, <1>5, <1>6, <1>7, <1>8, <1>9, <1>10 DEF ClientStep

LEMMA ClientCallKeeps ==
    ASSUME LeaseInv, NEW g \in Graphs, ClientCall(g)
    PROVE  LeaseInv' /\ ClientTurn(g)
<1>1. CASE \E runtime \in RuntimesOf[g] : StartCall(g, runtime)
  BY <1>1, StartCallKeeps
<1>2. CASE StatsCall(g)
  BY <1>2, CallOnLeaseKeeps DEF StatsCall
<1>3. CASE StopCall(g)
  BY <1>3, CallOnLeaseKeeps DEF StopCall
<1> QED
  BY <1>1, <1>2, <1>3 DEF ClientCall

LEMMA ThreadStepKeeps ==
    ASSUME LeaseInv, NEW t \in Threads, ThreadStep(t)
    PROVE  LeaseInv'
<1>1. CASE EnsureChecked(t) /\ UNCHANGED workers
  BY <1>1, EnsureKeeps
<1>2. CASE (StartWorkerAndSend(t) \/ Send(t)) /\ UNCHANGED workers
  BY <1>2, StartWorkerKeeps, SendKeeps
<1>3. CASE (WaitEnds(t) \/ WaitTimesOut(t) \/ StartWorkerFails(t)) /\ UNCHANGED workers
  BY <1>3, WaitKeeps
<1>4. CASE (CloseSocket(t) \/ JoinReader(t)) /\ UNCHANGED workers
  BY <1>4, TeardownLegKeeps
<1>5. CASE CloseEnds(t)
  BY <1>5, CloseEndsKeeps
<1> QED
  BY <1>1, <1>2, <1>3, <1>4, <1>5 DEF ThreadStep

\* Nothing in the invariant depends on the counts of faults and calls.
LEMMA StutterKeeps ==
    ASSUME LeaseInv, UNCHANGED vars
    PROVE  LeaseInv'
<1>1. UNCHANGED <<chan, toWorker, toClient, proc, thr, workers>>
  BY DEF vars
<1>2. Types'
  BY <1>1 DEF LeaseInv, Types
<1>3. \A c \in Channels : Fades(c) /\ (Open(c)' => Open(c)) /\ (proc'[c].alive => chan'[c].pid)
  BY <1>1 DEF Fades, Begun, WorkerStarted, Healthy, Open, LeaseInv, OpenIsReferred
<1> QED
  BY <1>1, <1>2, <1>3, ChannelKeeps

LEMMA NextKeeps == LeaseInv /\ [Next]_vars => LeaseInv'
<1> SUFFICES ASSUME LeaseInv, [Next]_vars
             PROVE  LeaseInv'
  OBVIOUS
<1>1. CASE \E t \in Threads : ThreadStep(t)
  BY <1>1, ThreadStepKeeps
<1>2. CASE \E g \in Graphs : ClientStep(g) \/ ClientCall(g)
  BY <1>2, ClientStepKeeps, ClientCallKeeps
<1>3. CASE \E c \in Channels : ReaderStep(c) \/ WorkerStep(c) \/ WorkerFault(c)
  <2>1. PICK c \in Channels : ReaderStep(c) \/ WorkerStep(c) \/ WorkerFault(c)
    BY <1>3
  <2>2. CASE ReaderStep(c)
    BY <2>2, ReaderKeeps DEF ReaderStep
  <2>3. CASE WorkerStep(c)
    BY <2>3, WorkerKeeps DEF WorkerStep
  <2>4. CASE WorkerFault(c)
    BY <2>4, WorkerKeeps DEF WorkerFault
  <2> QED
    BY <2>1, <2>2, <2>3, <2>4
<1>4. CASE ShutdownAll(Exit)
  BY <1>4, ShutdownAllKeeps
<1>5. CASE UNCHANGED vars
  BY <1>5, StutterKeeps
<1> QED
  BY <1>1, <1>2, <1>3, <1>4, <1>5 DEF Next

-----------------------------------------------------------------------------
(* The theorems.                                                           *)

\* The invariant: types, where each thread is and what it holds there, and
\* how the records, the leases and the open channels relate.
THEOREM ControlPlaneCorrect == Spec => []LeaseInv
  BY InitKeeps, NextKeeps, PTL DEF Spec

\* The graphs a record counts are the clients that hold its lease, and at
\* most one usable worker per runtime is cached, whatever fails and however
\* many clients acquire, stop and invalidate at once.
THEOREM LeasesAreAlwaysSound == Spec => []LeasesAreSound
<1>1. LeaseInv => LeasesAreSound
  <2> SUFFICES ASSUME LeaseInv PROVE LeasesAreSound
    OBVIOUS
  <2>1. Types /\ RecordsCount /\ OneWorkerPerRuntime
    BY DEF LeaseInv
  <2>2. TypeOK
    <3>1. \A c \in Channels : proc[c] \in WorkerStates /\ chan[c] \in ChannelStates
      BY <2>1 DEF Types
    <3>2. \A r \in workers : r \in Records
      BY <2>1 DEF Types
    <3>3. \A t \in Threads : thr[t] \in ThreadStates
      BY <2>1 DEF Types
    <3>4. \A c \in Channels : \A e, f \in chan[c].responses : e.id = f.id => e = f
      BY <2>1 DEF Types
    <3> QED
      BY <3>1, <3>2, <3>3, <3>4 DEF TypeOK, ChannelStates, Records, ThreadStates
  <2> QED
    BY <2>1, <2>2 DEF LeasesAreSound, RecordsCount, OneWorkerPerRuntime
<1> QED
  BY <1>1, ControlPlaneCorrect, PTL

\* No worker process outlives the references to its channel, and none is left
\* once the manager's destructor has returned, although a worker released by
\* its last client is never asked to shut down.
THEOREM NoWorkerIsLeftBehind == Spec => []ProcessesAreEnded
<1>1. LeaseInv => ProcessesAreEnded
  <2> SUFFICES ASSUME LeaseInv, NEW c \in Channels, proc[c].alive
               PROVE  /\ RecordOf(c) = {} => \E t \in Threads : c \in References(t)
                      /\ thr[Exit].pc # "done"
    BY DEF ProcessesAreEnded
  <2>1. Referred(c)
    BY DEF LeaseInv, OpenIsReferred, Open
  <2>2. ASSUME thr[Exit].pc = "done" PROVE FALSE
    <3>1. workers = {} /\ \A g \in Graphs : thr[g].pc = "idle"
      BY <2>2 DEF LeaseInv, ExitIsAlone
    <3>2. PICK t \in Threads : c \in References(t)
      BY <2>1, <3>1 DEF Referred, RecordOf
    <3>3. thr[t].pc \in {"idle", "done"}
      BY <2>2, <3>1 DEF Threads
    <3>4. thr[t].spawned = NoChannel /\ thr[t].retire = << >> /\ thr[t].lease = NoChannel
      <4>1. CASE t = Exit
        <5>1. OutlineOf(t, thr[t]) /\ thr[t].pc = "done"
          BY <2>2, <4>1 DEF LeaseInv, Outline
        <5> QED
          BY <5>1 DEF OutlineOf, Resting, Acquiring, Handshaking, OnLease, RetiringWorkers, LeavingChannel,
            Finished, HoldsOnly, Place, Transacting, TransactionLabels, TeardownLabels, LeaseLabels
      <4>2. CASE t \in Graphs
        <5>1. ~thr[t].running /\ thr[t].pc = "idle"
          BY <2>2, <4>2 DEF LeaseInv, ExitIsAlone
        <5> QED
          BY <5>1, PlaceFacts DEF Resting, HoldsOnly
      <4> QED
        BY <4>1, <4>2 DEF Threads
    <3>5. References(t) = {NoChannel}
      <4>1. Range(<< >>) = {}
        BY DEF Range
      <4> QED
        BY <3>3, <3>4, <4>1, PlaceFacts DEF TeardownLabels
    <3> QED
      BY <3>2, <3>5, ControlAssumption DEF NoChannel
  <2> QED
    BY <2>1, <2>2 DEF Referred
<1> QED
  BY <1>1, ControlPlaneCorrect, PTL

\* Who gives up the healthy worker r.
GivesUp(r) == \E g \in r.active : /\ thr'[g] # thr[g]
                                  /\ r.active = {g} \/ thr'[g].retire = <<r.chan>>

LEMMA ReleaseSpares ==
    ASSUME LeaseInv, NEW g \in Graphs, thr[g].pc \in LeaseLabels, ReleaseGraph(g),
           NEW r \in workers, r.active # {}, \A s \in workers' : s.chan # r.chan
    PROVE  GivesUp(r)
<1>1. g \in Threads /\ thr \in [Threads -> ThreadStates] /\ workers \subseteq Records
  BY LeaseFacts DEF Types
<1>2. PICK c \in Channels : c = thr[g].lease
  BY LeaseFacts
<1>3. \A s \in workers : s.chan = r.chan => s = r
  BY DEF LeaseInv, RecordsCount
<1>4. workers' = Released(c, g)
  BY <1>2 DEF ReleaseGraph
<1>5. r.chan = c
  BY <1>4 DEF Released, RecordOf
<1>6. r.active = {g}
  <2> DEFINE left == [r EXCEPT !.active = @ \ {g}]
  <2>1. left.chan = r.chan
    BY <1>1 DEF Records
  <2>2. r \in RecordOf(c) /\ left \notin workers'
    BY <1>5, <2>1 DEF RecordOf
  <2>3. r.active \ {g} = {}
    BY <1>4, <2>2 DEF Released
  <2> QED
    BY <2>3
<1>7. thr'[g] # thr[g]
  <2>1. thr'[g].pc \notin LeaseLabels
    BY <1>1 DEF ReleaseGraph, ClearLease, Closing, NewThread, LeaseLabels
  <2> QED
    BY <2>1
<1> QED
  BY <1>6, <1>7 DEF GivesUp

LEMMA InvalidateSpares ==
    ASSUME LeaseInv, NEW g \in Graphs, thr[g].pc \in LeaseLabels, InvalidateWorker(g),
           NEW r \in workers, \A s \in workers' : s.chan # r.chan
    PROVE  GivesUp(r)
<1>1. g \in Threads /\ thr \in [Threads -> ThreadStates] /\ workers \subseteq Records /\ Types
  BY LeaseFacts DEF Types
<1>2. PICK c \in Channels : c = thr[g].lease
  BY LeaseFacts
<1>3. workers' = Invalidated(c) /\ \E next \in Retiring(g, [NewThread EXCEPT !.lease = c], <<c>>, "invalidated") :
            thr' = [thr EXCEPT ![g] = next]
  BY <1>2 DEF InvalidateWorker
<1>4. r.chan = c
  BY <1>3 DEF Invalidated, RecordOf
<1>5. g \in r.active
  BY <1>2, <1>4 DEF LeaseInv, RecordsCount
<1>6. thr'[g].retire = <<c>>
  <2>1. PICK next \in Retiring(g, [NewThread EXCEPT !.lease = c], <<c>>, "invalidated") :
          thr' = [thr EXCEPT ![g] = next]
    BY <1>3
  <2>2. next.retire = <<c>>
    BY <1>1, <2>1, InvalidatingRetires
  <2> QED
    BY <1>1, <2>1, <2>2
<1>7. thr[g].retire # <<c>>
  <2>1. Len(<<c>>) = 1 /\ Len(<< >>) = 0 /\ thr[g].retire = << >>
    BY LeaseFacts
  <2> QED
    BY <2>1
<1> QED
  BY <1>4, <1>5, <1>6, <1>7 DEF GivesUp

\* A healthy worker that graphs use leaves the records only by a step of one of
\* its own clients: the last one that uses it, or one that found it unusable.
THEOREM SharedWorkersAreSpared == Spec => SharedWorkerSpared
<1>1. LeaseInv /\ [Next]_vars
        => [\A r \in workers :
              (Healthy(r.chan) /\ r.active # {} /\ \A s \in workers' : s.chan # r.chan)
                => \E g \in r.active : /\ thr'[g] # thr[g]
                                       /\ r.active = {g} \/ thr'[g].retire = <<r.chan>>]_vars
  <2> SUFFICES ASSUME LeaseInv, Next, NEW r \in workers, Healthy(r.chan), r.active # {},
                      \A s \in workers' : s.chan # r.chan
               PROVE  GivesUp(r)
    BY DEF GivesUp
  <2>1. workers' # workers /\ r.chan \in Channels /\ r \in Records
    BY DEF LeaseInv, Types, Records
  <2>2. CASE \E t \in Threads : ThreadStep(t)
    BY <2>1, <2>2 DEF ThreadStep, CloseEnds
  <2>3. CASE \E g \in Graphs : ClientStep(g)
    <3>1. PICK g \in Graphs : ClientStep(g)
      BY <2>3
    <3>2. ~(AcquireFails(g) \/ HandshakeFails(g))
      BY <2>1 DEF AcquireFails, HandshakeFails
    <3>3. \A rs, q : WithGraph(rs, q, g) = (rs \ {q}) \cup {[q EXCEPT !.active = @ \cup {g}]}
      BY DEF WithGraph
    <3>4. \A rs \in SUBSET workers : \A q \in rs : r \in rs => \E s \in WithGraph(rs, q, g) : s.chan = r.chan
      <4> SUFFICES ASSUME NEW rs \in SUBSET workers, NEW q \in rs, r \in rs
                   PROVE  \E s \in WithGraph(rs, q, g) : s.chan = r.chan
        OBVIOUS
      <4>1. [q EXCEPT !.active = @ \cup {g}].chan = q.chan
        BY DEF LeaseInv, Types, Records
      <4> QED
        BY <3>3, <4>1
    <3>5. ~Acquire(g)
      <4>1. \A runtime : r \in Kept(runtime) /\ Kept(runtime) \subseteq workers
        BY DEF Kept, Retirable
      <4>2. \A runtime : Matching(Kept(runtime), runtime) \subseteq Kept(runtime)
        BY DEF Matching
      <4> QED
        BY <3>4, <4>1, <4>2 DEF Acquire
    <3>6. ~Register(g)
      <4>1. Rivals(thr[g].rt) \subseteq workers
        BY DEF Rivals, Matching
      <4> QED
        BY <3>4, <4>1 DEF Register
    <3>7. thr[g].pc \in LeaseLabels /\ (ReleaseGraph(g) \/ InvalidateWorker(g))
      BY <2>1, <3>1, <3>2, <3>5, <3>6 DEF ClientStep, PrepareFails, Prepare, StartAnswered, StopAnswered,
        StatsHealthAnswered, StatsAnswered, LeaseLabels
    <3> QED
      BY <3>7, ReleaseSpares, InvalidateSpares
  <2>4. CASE \E g \in Graphs : ClientCall(g)
    BY <2>1, <2>4 DEF ClientCall, StartCall, StatsCall, StopCall
  <2>5. CASE \E c \in Channels : ReaderStep(c) \/ WorkerStep(c) \/ WorkerFault(c)
    BY <2>1, <2>5 DEF ReaderStep, WorkerStep, WorkerFault
  <2>6. CASE ShutdownAll(Exit)
    <3>1. \A g \in Graphs : thr[g].lease = NoChannel
      BY <2>6, PlaceFacts DEF ShutdownAll, Resting, Threads
    <3>2. r.active = {}
      BY <2>1, <3>1, ControlAssumption DEF LeaseInv, RecordsCount, NoChannel
    <3> QED
      BY <3>2
  <2>7. CASE UNCHANGED vars
    BY <2>1, <2>7 DEF vars
  <2> QED
    BY <2>2, <2>3, <2>4, <2>5, <2>6, <2>7 DEF Next
<1> QED
  BY <1>1, ControlPlaneCorrect, PTL DEF Spec, SharedWorkerSpared

-----------------------------------------------------------------------------
(* The threads that wait.                                                  *)

\* The thread tears channel d down and may join its reader.
Ends(t, d) == thr[t].pc \in {"join", "terminate"} /\ d = thr[t].chan

\* Nobody else is about to use a channel whose reader is joined.
LEMMA EndsAlone ==
    ASSUME LeaseInv, NEW t \in Threads, NEW d \in Channels, Ends(t, d)
    PROVE  /\ RecordOf(d) = {} /\ d \in References(t)
           /\ \A u \in Threads \ {t} : d \notin Range(thr[u].retire) /\ thr[u].spawned # d
<1>1. thr[t].pc \in TeardownLabels
  BY DEF Ends, TeardownLabels
<1>2. /\ thr[t] \in ThreadStates /\ d \in References(t)
      /\ RetiringWorkers(t, thr[t]) \/ LeavingChannel(thr[t])
  BY <1>1, OutlineFacts DEF Ends
<1>3. \A u \in Threads \ {t} : thr[u].spawned # d
  BY <1>2, ControlAssumption DEF LeaseInv, SpawnedAlone, NoChannel
<1>4. CASE RetiringWorkers(t, thr[t])
  <2>1. thr[t].retire \in Seq(Channels) /\ thr[t].retire # << >> /\ d = Head(thr[t].retire)
    BY <1>2, <1>4 DEF RetiringWorkers, ThreadStates, Ends
  <2>2. d \in Range(thr[t].retire)
    BY <2>1, HeadTailProperties DEF Range
  <2> QED
    BY <1>2, <1>3, <2>2 DEF LeaseInv, RetiredUnrecorded, RetiredOnce
<1>5. CASE LeavingChannel(thr[t])
  BY <1>2, <1>3, <1>5 DEF LeaseInv, LeavesAlone, Alone, References, Ends
<1> QED
  BY <1>2, <1>4, <1>5

\* What nothing touches but a failure stays attended.
LEMMA AttendedKept ==
    ASSUME NEW c, NEW q, Attended(c, q),
           chan[c].failed => chan'[c].failed, chan[c].shutdown => chan'[c].shutdown,
           proc'[c].alive => proc[c].alive, proc[c].hung => proc'[c].hung \/ ~proc'[c].alive,
           toWorker'[c] = toWorker[c], toClient'[c] = toClient[c],
           chan'[c].responses = chan[c].responses
    PROVE  Attended(c, q)'
BY DEF Attended, Down

\* What a thread's step does to the channels, and what it shows of itself, for
\* the threads that wait.
ReadersRemain(t) ==
    \A d \in Channels :
        /\ Healthy(d)' => chan'[d].reader = "running"
        /\ chan'[d].fd => chan'[d].reader # "none"
        /\ chan'[d].fd => chan[d].fd \/ (chan[d].reader = "none" /\ d = thr[t].chan /\ thr[t].pc \in TransactionLabels)
        /\ HasReader(d) => chan'[d].reader # "none" \/ Ends(t, d)

OwnWaits(t, next) ==
    /\ next.pc \in {"join", "terminate"} => chan'[next.chan].shutdown
    /\ next.pc = "join" => ~chan'[next.chan].fd
    /\ next.pc = "wait" => Begun(next.chan)' /\ Attended(next.chan, next.req)'
    /\ \A d \in Range(next.retire) : Ends(t, d) => next.pc = "terminate" /\ next.chan = d
    /\ (next.spawned # NoChannel /\ (next.pc = "wait" \/ (next.pc = "handshaken" /\ next.resp.kind = "Health")))
         => chan'[next.spawned].reader # "none"

LEMMA WaitsKept ==
    ASSUME LeaseInv, WaitInv, LeaseInv', NEW t \in Threads, NEW next, thr'[t] = next,
           Turn(t), ReadersRemain(t), OwnWaits(t, next),
           \A u \in Threads \ {t}, c \in Channels : \A q :
               (thr[u].pc = "wait" /\ c = thr[u].chan /\ q = thr[u].req) => Attended(c, q)'
    PROVE  WaitInv'
<1>1. /\ thr' \in [Threads -> ThreadStates] /\ thr \in [Threads -> ThreadStates]
      /\ \A u \in Threads \ {t} : thr'[u] = thr[u]
      /\ next \in ThreadStates /\ workers \subseteq Records /\ workers' \subseteq Records
      /\ RefersSoundly(t, next)
  <2>1. PICK n \in ThreadStates : n = next /\ TakesTurn(t, n) /\ RefersSoundly(t, n)
    BY DEF Turn
  <2>2. Types /\ Types'
    BY DEF LeaseInv
  <2> QED
    BY <2>1, <2>2, TurnFacts DEF Types, TakesTurn
<1>2. \A u \in Threads : thr[u].pc = "handshaken" /\ thr[u].resp.kind = "Health" /\ thr[u].spawned # NoChannel
         => HasReader(thr[u].spawned)
  BY DEF WaitInv, ReadersStay
\* The other threads: their channels only fade.
<1>3. ASSUME NEW u \in Threads \ {t}, NEW d \in Channels, d \in References(u)
      PROVE  Fades(d)
  BY <1>3 DEF Turn, ChannelsFade
<1>4. ASSUME NEW u \in Threads \ {t}, thr[u].pc \in TransactionLabels \cup TeardownLabels, NEW d \in Channels, d = thr[u].chan
      PROVE  d \in References(u) /\ Fades(d)
  BY <1>3, <1>4, OutlineFacts
<1>5. ReadersServe'
  BY DEF ReadersRemain, ReadersServe, HasReader
<1>6. TeardownsClose'
  <2> SUFFICES ASSUME NEW u \in Threads
               PROVE  /\ thr'[u].pc \in {"join", "terminate"} => chan'[thr'[u].chan].shutdown
                      /\ thr'[u].pc = "join" => ~chan'[thr'[u].chan].fd
    BY DEF TeardownsClose
  <2>1. CASE u = t
    BY <2>1 DEF OwnWaits
  <2>2. ASSUME u # t, thr[u].pc \in {"join", "terminate"}
        PROVE  chan'[thr[u].chan].shutdown /\ (thr[u].pc = "join" => ~chan'[thr[u].chan].fd)
    <3>1. thr[u].pc \in TeardownLabels
      BY <2>2 DEF TeardownLabels
    <3>2. PICK d \in Channels : d = thr[u].chan
      BY <3>1, OutlineFacts
    <3>3. chan'[d].shutdown
      BY <1>4, <2>2, <3>1, <3>2 DEF Fades, WaitInv, TeardownsClose
    <3>4. thr[u].pc = "join" => ~chan[d].fd
      BY <3>2 DEF WaitInv, TeardownsClose
    <3>5. ASSUME thr[u].pc = "join", chan'[d].fd PROVE FALSE
      <4>1. chan[d].reader = "none" /\ d = thr[t].chan /\ thr[t].pc \in TransactionLabels
        BY <3>4, <3>5 DEF ReadersRemain
      <4>2. d \in References(t)
        BY <4>1, OutlineFacts
      <4>3. RetiringWorkers(u, thr[u])
        BY <2>2, <3>1, <3>2, <4>2, OutlineFacts DEF LeaseInv, LeavesAlone, Alone
      <4>4. d \in Range(thr[u].retire)
        <5>1. thr[u].retire \in Seq(Channels) /\ thr[u].retire # << >> /\ d = Head(thr[u].retire)
          BY <1>1, <3>2, <4>3 DEF RetiringWorkers, ThreadStates
        <5> QED
          BY <5>1, HeadTailProperties DEF Range
      <4> QED
        BY <3>5, <4>1, <4>4 DEF WaitInv, ReadersStay, HasReader
    <3> QED
      BY <3>2, <3>3, <3>5
  <2> QED
    BY <1>1, <2>1, <2>2
<1>7. ASSUME NEW u \in Threads, thr'[u].pc = "wait", NEW d, d = thr'[u].chan, NEW q, q = thr'[u].req
      PROVE  Begun(d)' /\ Attended(d, q)'
  <2>1. CASE u = t
    BY <1>7, <2>1 DEF OwnWaits
  <2>2. CASE u # t
    <3>1. thr[u].pc = "wait" /\ d = thr[u].chan /\ q = thr[u].req /\ thr[u].pc \in TransactionLabels
      BY <1>1, <1>7, <2>2 DEF TransactionLabels
    <3>2. d \in Channels
      BY <3>1, OutlineFacts
    <3>3. Begun(d)
      BY <3>1 DEF WaitInv, WaitsBegun
    <3> QED
      BY <1>4, <2>2, <3>1, <3>2, <3>3 DEF Fades
  <2> QED
    BY <2>1, <2>2
<1>8. WaitsBegun'
  BY <1>7 DEF WaitsBegun, Begun, WorkerStarted
<1>9. Heard'
  BY <1>7 DEF Heard, Attended, Down
\* The readers: no channel of a record or of another thread is joined.
<1>10. ASSUME NEW d \in Channels, HasReader(d), ~Ends(t, d) PROVE chan'[d].reader # "none"
  BY <1>10 DEF ReadersRemain
<1>11. ASSUME NEW r \in workers' PROVE chan'[r.chan].reader # "none"
  <2>1. r.chan \in Channels
    BY <1>1 DEF Records
  <2>2. CASE \E s \in workers : s.chan = r.chan
    <3>1. HasReader(r.chan) /\ RecordOf(r.chan) # {}
      BY <2>2 DEF WaitInv, ReadersStay, RecordOf
    <3> QED
      BY <1>10, <2>1, <3>1, EndsAlone
  <2>3. CASE r.chan = thr[t].spawned /\ r.chan # NoChannel /\ Handshaken(t)
    <3>1. HasReader(r.chan) /\ ~Ends(t, r.chan)
      BY <1>2, <2>3 DEF Handshaken, Ends
    <3> QED
      BY <1>10, <2>1, <3>1
  <2> QED
    BY <2>2, <2>3 DEF Turn, RecordsFollow
<1>12. ASSUME NEW d \in Range(next.retire)
       PROVE  chan'[d].reader # "none" \/ (next.pc = "terminate" /\ next.chan = d)
  <2>1. d \in Channels
    BY <1>1 DEF ThreadStates, Range
  <2>2. \/ d \in Range(thr[t].retire) \/ RecordOf(d) # {}
        \/ d = thr[t].spawned /\ Handshaken(t)
    BY <1>1 DEF RefersSoundly
  <2>3. HasReader(d) \/ Ends(t, d)
    <3>1. RecordOf(d) # {} => HasReader(d)
      BY DEF WaitInv, ReadersStay, RecordOf
    <3>2. d \in Range(thr[t].retire) => HasReader(d) \/ (thr[t].pc = "terminate" /\ thr[t].chan = d)
      BY DEF WaitInv, ReadersStay
    <3>3. d # NoChannel
      BY <2>1, ControlAssumption DEF NoChannel
    <3> QED
      BY <1>2, <2>2, <3>1, <3>2, <3>3 DEF Handshaken, Ends
  <2> QED
    BY <1>10, <2>1, <2>3 DEF OwnWaits
<1>13. ASSUME NEW u \in Threads \ {t}
       PROVE  /\ \A d \in Range(thr[u].retire) :
                   chan'[d].reader # "none" \/ (thr[u].pc = "terminate" /\ thr[u].chan = d)
              /\ (thr[u].spawned # NoChannel
                    /\ (thr[u].pc = "wait" \/ (thr[u].pc = "handshaken" /\ thr[u].resp.kind = "Health")))
                   => chan'[thr[u].spawned].reader # "none"
  <2>1. ASSUME NEW d \in Range(thr[u].retire)
        PROVE  chan'[d].reader # "none" \/ (thr[u].pc = "terminate" /\ thr[u].chan = d)
    <3>1. d \in Channels
      BY <1>1 DEF ThreadStates, Range
    <3>2. ~Ends(t, d)
      BY <3>1, EndsAlone
    <3> QED
      BY <1>10, <3>1, <3>2 DEF WaitInv, ReadersStay
  <2>2. ASSUME thr[u].spawned # NoChannel,
               thr[u].pc = "wait" \/ (thr[u].pc = "handshaken" /\ thr[u].resp.kind = "Health")
        PROVE  chan'[thr[u].spawned].reader # "none"
    <3>1. thr[u].spawned \in Channels
      BY <1>1, <2>2 DEF ThreadStates
    <3>2. ~Ends(t, thr[u].spawned)
      BY <3>1, EndsAlone
    <3> QED
      BY <1>10, <2>2, <3>1, <3>2 DEF WaitInv, ReadersStay
  <2> QED
    BY <2>1, <2>2
<1>14. ReadersStay'
  <2>1. ASSUME NEW u \in Threads
        PROVE  /\ \A d \in Range(thr'[u].retire) :
                    chan'[d].reader # "none" \/ (thr'[u].pc = "terminate" /\ thr'[u].chan = d)
               /\ (thr'[u].spawned # NoChannel
                     /\ (thr'[u].pc = "wait" \/ (thr'[u].pc = "handshaken" /\ thr'[u].resp.kind = "Health")))
                    => chan'[thr'[u].spawned].reader # "none"
    <3>1. CASE u = t
      BY <1>12, <3>1 DEF OwnWaits
    <3>2. CASE u # t
      BY <1>1, <1>13, <3>2
    <3> QED
      BY <3>1, <3>2
  <2> QED
    BY <1>11, <2>1 DEF ReadersStay, HasReader
<1> QED
  BY <1>5, <1>6, <1>8, <1>9, <1>14 DEF WaitInv

LEMMA WaiterFacts ==
    ASSUME LeaseInv, WaitInv, NEW u \in Threads, thr[u].pc = "wait"
    PROVE  /\ thr[u].chan \in Channels /\ thr[u].chan \in References(u)
           /\ Begun(thr[u].chan) /\ Attended(thr[u].chan, thr[u].req)
<1>1. thr[u].pc \in TransactionLabels
  BY DEF TransactionLabels
<1> QED
  BY <1>1, OutlineFacts DEF WaitInv, WaitsBegun, Heard

\* The steps of the clients themselves.
LEMMA ClientWaits ==
    ASSUME LeaseInv, WaitInv, LeaseInv', NEW t \in Threads, ClientTurn(t), thr[t].pc \notin {"join", "terminate"}
    PROVE  WaitInv'
<1>1. PICK next : next = thr'[t]
  OBVIOUS
<1>2. Turn(t) /\ UNCHANGED <<toWorker, toClient, proc>> /\ next.pc \notin {"wait", "join", "terminate", "handshaken"}
  BY <1>1 DEF ClientTurn
<1>3. ASSUME NEW d \in Channels
      PROVE  /\ chan'[d].fd = chan[d].fd /\ chan'[d].pid = chan[d].pid /\ chan'[d].reader = chan[d].reader
             /\ \/ LeftAlone(t, d) /\ ~chan'[d].fd
                \/ /\ chan'[d].failed = chan[d].failed /\ chan'[d].shutdown = chan[d].shutdown
                   /\ chan'[d].responses = chan[d].responses
  BY DEF ClientTurn
<1>4. ReadersRemain(t)
  <2> SUFFICES ASSUME NEW d \in Channels
               PROVE  /\ Healthy(d)' => chan'[d].reader = "running"
                      /\ chan'[d].fd => chan'[d].reader # "none"
                      /\ chan'[d].fd => chan[d].fd
                      /\ HasReader(d) => chan'[d].reader # "none"
    BY DEF ReadersRemain
  <2>1. (Healthy(d) => chan[d].reader = "running") /\ (chan[d].fd => chan[d].reader # "none")
    BY DEF WaitInv, ReadersServe, HasReader
  <2> QED
    BY <1>3, <2>1 DEF Healthy, HasReader
<1>5. OwnWaits(t, next)
  BY <1>2 DEF OwnWaits, Ends
<1>6. ASSUME NEW u \in Threads \ {t}, NEW c \in Channels, NEW q,
             thr[u].pc = "wait", c = thr[u].chan, q = thr[u].req
      PROVE  Attended(c, q)'
  <2>1. c \in References(u) /\ Attended(c, q)
    BY <1>6, WaiterFacts
  <2>2. ~LeftAlone(t, c)
    BY <2>1 DEF LeftAlone
  <2> QED
    BY <1>2, <1>3, <2>1, <2>2, AttendedKept
<1> QED
  BY <1>1, <1>2, <1>4, <1>5, <1>6, WaitsKept

\* A leg of a transaction that ends without an answer, or goes on to "start".
LEMMA FailureWaits ==
    ASSUME LeaseInv, WaitInv, LeaseInv', NEW t \in Threads, Turn(t), NEW next, next = thr'[t],
           thr[t].pc \in TransactionLabels, UNCHANGED <<toWorker, toClient, proc>>,
           NEW c \in Channels, c = thr[t].chan,
           chan' = chan \/ chan' = [chan EXCEPT ![c] = MarkedFailed(chan[c])],
           next.pc \notin {"wait", "join", "terminate"}, next.pc = "handshaken" => next.resp = Failed
    PROVE  WaitInv'
<1>1. ASSUME NEW d \in Channels
      PROVE  /\ chan'[d].fd = chan[d].fd /\ chan'[d].pid = chan[d].pid /\ chan'[d].reader = chan[d].reader
             /\ chan'[d].shutdown = chan[d].shutdown /\ chan'[d].responses = chan[d].responses
             /\ chan[d].failed => chan'[d].failed
  <2>1. chan \in [Channels -> ChannelStates]
    BY DEF LeaseInv, Types
  <2> QED
    BY <2>1 DEF MarkedFailed, ChannelStates
<1>2. ReadersRemain(t)
  <2> SUFFICES ASSUME NEW d \in Channels
               PROVE  /\ Healthy(d)' => chan'[d].reader = "running"
                      /\ chan'[d].fd => chan'[d].reader # "none"
                      /\ chan'[d].fd => chan[d].fd
                      /\ HasReader(d) => chan'[d].reader # "none"
    BY DEF ReadersRemain
  <2>1. (Healthy(d) => chan[d].reader = "running") /\ (chan[d].fd => chan[d].reader # "none")
    BY DEF WaitInv, ReadersServe, HasReader
  <2> QED
    BY <1>1, <2>1 DEF Healthy, HasReader
<1>3. OwnWaits(t, next)
  <2>1. next.pc = "handshaken" => next.resp.kind # "Health"
    BY DEF Failed, NoEvent
  <2> QED
    BY <2>1 DEF OwnWaits, Ends, TransactionLabels
<1>4. ASSUME NEW u \in Threads \ {t}, NEW d \in Channels, NEW q,
             thr[u].pc = "wait", d = thr[u].chan, q = thr[u].req
      PROVE  Attended(d, q)'
  BY <1>1, <1>4, WaiterFacts, AttendedKept
<1> QED
  BY <1>2, <1>3, <1>4, WaitsKept

\* The place a transaction ends in, with its answer.
LEMMA ReturnFacts ==
    ASSUME LeaseInv, NEW t \in Threads, thr[t].pc \in TransactionLabels, NEW ev \in Events, Return(t, ev)
    PROVE  /\ thr'[t].pc = thr[t].ret /\ thr'[t].resp = ev /\ SameLocals(thr'[t], thr[t])
           /\ thr'[t].pc \notin TransactionLabels \cup {"join", "terminate"}
<1>1. Types /\ thr[t] \in ThreadStates /\ thr[t].ret \in Returns
  BY OutlineFacts DEF LeaseInv
<1>2. thr' = [thr EXCEPT ![t] = Answered(thr[t], ev)] /\ thr'[t] = Answered(thr[t], ev)
  BY <1>1, ThreadMoves DEF Types
<1>3. thr[t].ret \notin TransactionLabels \cup {"join", "terminate"}
  BY <1>1 DEF Returns, LeaseLabels, TransactionLabels
<1> QED
  BY <1>1, <1>2, <1>3, AnsweredTyped

LEMMA EnsureWaits ==
    ASSUME LeaseInv, WaitInv, LeaseInv', NEW t \in Threads, Turn(t), EnsureChecked(t)
    PROVE  WaitInv'
<1>1. thr[t].pc = "ensure" /\ thr[t].pc \in TransactionLabels /\ UNCHANGED <<chan, toWorker, toClient, proc>>
  BY DEF EnsureChecked, TransactionLabels
<1>2. PICK c \in Channels : c = thr[t].chan
  BY <1>1, OutlineFacts
<1>3. PICK next : next = thr'[t]
  OBVIOUS
<1>4. CASE Return(t, Failed)
  BY <1>1, <1>2, <1>3, <1>4, ReturnFacts, FailureWaits, NewThreadTyped DEF TransactionLabels
<1>5. CASE thr' = [thr EXCEPT ![t].pc = "start"]
  <2>1. thr \in [Threads -> ThreadStates]
    BY DEF LeaseInv, Types
  <2>2. next.pc = "start"
    BY <1>3, <1>5, <2>1 DEF ThreadStates
  <2> QED
    BY <1>1, <1>2, <1>3, <2>2, FailureWaits
<1> QED
  BY <1>4, <1>5 DEF EnsureChecked

\* A request on its way: the thread's own channel is read.
LEMMA RequestWaits ==
    ASSUME LeaseInv, WaitInv, LeaseInv', NEW t \in Threads, Turn(t), thr[t].pc = "start",
           thr' = [thr EXCEPT ![t].pc = "wait"],
           NEW c \in Channels, c = thr[t].chan, ReadersRemain(t), Begun(c)', chan'[c].reader # "none",
           thr[t].req \in Range(toWorker'[c]),
           \A u \in Threads \ {t}, d \in Channels : \A q :
               (thr[u].pc = "wait" /\ d = thr[u].chan /\ q = thr[u].req) => Attended(d, q)'
    PROVE  WaitInv'
<1>1. PICK next : next = thr'[t]
  OBVIOUS
<1>2. thr[t].pc \in TransactionLabels /\ thr[t] \in ThreadStates
  BY DEF TransactionLabels, LeaseInv, Types
<1>3. next.pc = "wait" /\ next.req = thr[t].req /\ SameLocals(next, thr[t])
  <2>1. thr \in [Threads -> ThreadStates]
    BY DEF LeaseInv, Types
  <2> QED
    BY <1>1, <2>1 DEF SameLocals, ThreadStates
<1>4. PICK q : q = next.req
  OBVIOUS
<1>5. Attended(c, q)'
  <2>1. q \in Range(toWorker'[c])
    BY <1>3, <1>4
  <2> QED
    BY <2>1 DEF Attended
<1>6. next.spawned # NoChannel => next.spawned = c
  <2>1. Handshaking(thr[t]) \/ OnLease(thr[t]) \/ RetiringWorkers(t, thr[t])
    BY <1>2, OutlineFacts
  <2> QED
    BY <1>2, <1>3, <2>1 DEF Handshaking, OnLease, RetiringWorkers, HoldsOnly, SameLocals, Transacting
<1>7. next.chan = c
  BY <1>3 DEF SameLocals
<1>8. OwnWaits(t, next)
  <2>1. \A d : ~Ends(t, d)
    BY DEF Ends
  <2> QED
    BY <1>3, <1>4, <1>5, <1>6, <1>7, <2>1 DEF OwnWaits
<1> QED
  BY <1>1, <1>8, WaitsKept

LEMMA SendWaits ==
    ASSUME LeaseInv, WaitInv, LeaseInv', NEW t \in Threads, Turn(t), Send(t)
    PROVE  WaitInv'
<1>1. /\ thr[t].pc = "start" /\ thr[t].pc \in TransactionLabels /\ UNCHANGED <<toClient, proc>>
      /\ WorkerStarted(thr[t].chan)
  BY DEF Send, TransactionLabels
<1>2. PICK c \in Channels : c = thr[t].chan
  BY <1>1, OutlineFacts
<1>3. PICK next : next = thr'[t]
  OBVIOUS
<1>4. CASE ~proc[c].alive
  <2>1. Return(t, Failed) /\ chan' = [chan EXCEPT ![c] = MarkedFailed(chan[c])] /\ UNCHANGED toWorker
    BY <1>2, <1>4 DEF Send
  <2>2. next.pc \notin TransactionLabels \cup {"join", "terminate"} /\ next.resp = Failed
    BY <1>1, <1>3, <2>1, ReturnFacts, NewThreadTyped
  <2> QED
    BY <1>1, <1>2, <1>3, <2>1, <2>2, FailureWaits DEF TransactionLabels
<1>5. CASE proc[c].alive
  <2>1. /\ toWorker' = [toWorker EXCEPT ![c] = Append(toWorker[c], thr[t].req)] /\ chan' = chan
        /\ thr' = [thr EXCEPT ![t].pc = "wait"]
    BY <1>2, <1>5 DEF Send
  <2>2. toWorker \in [Channels -> Seq(Requests)] /\ thr[t].req \in Requests /\ toWorker[c] \in Seq(Requests)
    BY <1>1 DEF LeaseInv, Types, RequestsDiffer, Asks, Transacting
  <2>3. Range(toWorker[c]) \subseteq Range(Append(toWorker[c], thr[t].req)) /\ thr[t].req \in Range(Append(toWorker[c], thr[t].req))
    <3>1. /\ \A i \in DOMAIN toWorker[c] : i \in DOMAIN Append(toWorker[c], thr[t].req)
                                           /\ Append(toWorker[c], thr[t].req)[i] = toWorker[c][i]
          /\ Len(toWorker[c]) + 1 \in DOMAIN Append(toWorker[c], thr[t].req)
          /\ Append(toWorker[c], thr[t].req)[Len(toWorker[c]) + 1] = thr[t].req
      BY <2>2
    <3> QED
      BY <3>1 DEF Range
  <2>4. /\ \A d \in Channels : Range(toWorker[d]) \subseteq Range(toWorker'[d])
        /\ thr[t].req \in Range(toWorker'[c])
    BY <2>1, <2>2, <2>3
  <2>5. ASSUME NEW u \in Threads \ {t}, NEW d \in Channels, NEW q,
               thr[u].pc = "wait", d = thr[u].chan, q = thr[u].req
        PROVE  Attended(d, q)'
    BY <1>1, <2>1, <2>4, <2>5, WaiterFacts DEF Attended, Down
  <2>6. ReadersRemain(t)
    <3>1. \A d \in Channels : (Healthy(d) => chan[d].reader = "running") /\ (chan[d].fd => chan[d].reader # "none")
      BY DEF WaitInv, ReadersServe, HasReader
    <3> QED
      BY <2>1, <3>1 DEF ReadersRemain, Healthy, HasReader
  <2>7. Begun(c)' /\ chan'[c].reader # "none"
    BY <1>1, <1>2, <2>1 DEF Begun, WorkerStarted, WaitInv, ReadersServe, HasReader
  <2> QED
    BY <1>1, <1>2, <2>1, <2>4, <2>5, <2>6, <2>7, RequestWaits
<1> QED
  BY <1>4, <1>5

\* The first request starts the worker and its reader; whoever waits on the
\* channel already waits for nothing but its failure.
LEMMA StartWorkerWaits ==
    ASSUME LeaseInv, WaitInv, LeaseInv', NEW t \in Threads, StartWorkerAndSend(t), UNCHANGED workers,
           chan[thr[t].chan].reader = "none" => Turn(t)
    PROVE  WaitInv'
<1>1. thr[t].pc = "start" /\ thr[t].pc \in TransactionLabels /\ ~WorkerStarted(thr[t].chan)
  BY DEF StartWorkerAndSend, TransactionLabels
<1>2. PICK c \in Channels : c = thr[t].chan
  BY <1>1, OutlineFacts
<1>3. CASE chan[c].reader # "none"
  <2>1. UNCHANGED <<chan, toWorker, toClient, proc, thr, workers>>
    BY <1>2, <1>3 DEF StartWorkerAndSend
  <2> QED
    BY <2>1 DEF WaitInv, ReadersServe, TeardownsClose, ReadersStay, WaitsBegun, Heard, Attended, Down, Begun,
      WorkerStarted, Healthy, HasReader
<1>4. CASE chan[c].reader = "none"
  <2>1. /\ chan' = [chan EXCEPT ![c].fd = TRUE, ![c].pid = TRUE, ![c].reader = "running"]
        /\ proc' = [proc EXCEPT ![c] = NewWorker]
        /\ toWorker' = [toWorker EXCEPT ![c] = <<thr[t].req>>]
        /\ toClient' = [toClient EXCEPT ![c] = << >>]
        /\ thr' = [thr EXCEPT ![t].pc = "wait"]
    BY <1>2, <1>4 DEF StartWorkerAndSend
  <2>2. /\ chan \in [Channels -> ChannelStates] /\ proc \in [Channels -> WorkerStates]
        /\ toWorker \in [Channels -> Seq(Requests)] /\ toClient \in [Channels -> Seq(Events)]
    BY DEF LeaseInv, Types
  <2>3. /\ chan'[c].fd /\ chan'[c].pid /\ chan'[c].reader = "running"
        /\ chan'[c].failed = chan[c].failed /\ chan'[c].shutdown = chan[c].shutdown
        /\ \A d \in Channels \ {c} : chan'[d] = chan[d]
    BY <2>1, <2>2 DEF ChannelStates
  <2>4. toWorker'[c] = <<thr[t].req>>
    BY <2>1, <2>2
  <2>5. thr[t].req \in Range(toWorker'[c])
    <3>1. 1 \in DOMAIN <<thr[t].req>> /\ <<thr[t].req>>[1] = thr[t].req
      OBVIOUS
    <3> QED
      BY <2>4, <3>1 DEF Range
  <2>6. \A d \in Channels \ {c} : proc'[d] = proc[d] /\ toWorker'[d] = toWorker[d] /\ toClient'[d] = toClient[d]
    BY <2>1, <2>2
  <2>7. ASSUME NEW u \in Threads \ {t}, NEW d \in Channels, NEW q,
               thr[u].pc = "wait", d = thr[u].chan, q = thr[u].req
        PROVE  Attended(d, q)'
    <3>1. Begun(d) /\ Attended(d, q)
      BY <2>7, WaiterFacts
    <3>2. CASE d = c
      BY <1>1, <1>2, <2>3, <3>1, <3>2 DEF Begun, Attended, Down
    <3>3. CASE d # c
      BY <2>3, <2>6, <3>1, <3>3, AttendedKept
    <3> QED
      BY <3>2, <3>3
  <2>8. ReadersRemain(t)
    <3>1. \A d \in Channels : (Healthy(d) => chan[d].reader = "running") /\ (chan[d].fd => chan[d].reader # "none")
      BY DEF WaitInv, ReadersServe, HasReader
    <3> SUFFICES ASSUME NEW d \in Channels
                 PROVE  /\ Healthy(d)' => chan'[d].reader = "running"
                        /\ chan'[d].fd => chan'[d].reader # "none"
                        /\ chan'[d].fd => chan[d].fd \/ d = c
                        /\ HasReader(d) => chan'[d].reader # "none"
      BY <1>1, <1>2, <1>4 DEF ReadersRemain
    <3>2. CASE d = c
      BY <2>3, <3>2
    <3>3. CASE d # c
      BY <2>3, <3>1, <3>3 DEF Healthy, HasReader
    <3> QED
      BY <3>2, <3>3
  <2>9. Begun(c)' /\ chan'[c].reader # "none"
    BY <2>3 DEF Begun, WorkerStarted
  <2> QED
    BY <1>1, <1>2, <1>4, <2>1, <2>5, <2>7, <2>8, <2>9, RequestWaits
<1> QED
  BY <1>3, <1>4

\* An answer may be taken only by a request with its id: the other one that
\* has it is a Shutdown, which is still to end the worker.
LEMMA AnswerShared ==
    ASSUME LeaseInv, WaitInv, NEW t \in Threads, NEW u \in Threads \ {t}, thr[t].pc = "wait", thr[u].pc = "wait",
           thr[t].chan = thr[u].chan, thr[t].req.id = thr[u].req.id, thr[u].req.kind # "Shutdown"
    PROVE  thr[t].req.kind = "Shutdown"
<1>1. Transacting(thr[t]) /\ Transacting(thr[u]) /\ "wait" \in TransactionLabels
  BY DEF Transacting, TransactionLabels
<1>2. Asks(t, thr[t]) /\ Asks(u, thr[u])
  BY DEF LeaseInv, RequestsDiffer
<1>3. thr[t].req.by # thr[u].req.by
  BY <1>1, <1>2 DEF Asks
<1>4. /\ thr[t].chan \in References(t) /\ thr[u].chan \in References(u)
      /\ thr[t].ret \in Returns /\ thr[u].ret \in Returns /\ thr[t].chan \in Channels
  BY <1>1, OutlineFacts
<1>5. thr[t].ret # "handshaken" /\ thr[u].ret # "handshaken"
  <2>1. ASSUME NEW v \in Threads, NEW w \in Threads \ {v}, thr[v].pc = "wait", thr[v].ret = "handshaken",
               thr[v].chan = thr[w].chan, thr[w].chan \in References(w), thr[v].chan \in Channels
        PROVE  FALSE
    <3>1. thr[v].spawned = thr[v].chan
      BY <1>1, <2>1, HandshakeChannel
    <3> QED
      BY <2>1, <3>1, ControlAssumption DEF LeaseInv, SpawnedAlone, NoChannel
  <2> QED
    BY <1>4, <2>1
<1>6. thr[u].ret # "close" /\ thr[u].ret \in LeaseLabels
  BY <1>1, <1>2, <1>4, <1>5 DEF Asks, Returns
<1>7. thr[t].ret = "close"
  BY <1>1, <1>2, <1>3, <1>4, <1>5, <1>6 DEF Asks, Returns
<1> QED
  BY <1>1, <1>2, <1>7 DEF Asks

LEMMA WaitEndsWaits ==
    ASSUME LeaseInv, WaitInv, LeaseInv', NEW t \in Threads, Turn(t),
           WaitEnds(t) \/ WaitTimesOut(t) \/ StartWorkerFails(t)
    PROVE  WaitInv'
<1>1. /\ thr[t].pc \in {"start", "wait"} /\ thr[t].pc \in TransactionLabels
      /\ UNCHANGED <<toWorker, toClient, proc>>
  BY DEF WaitEnds, WaitTimesOut, StartWorkerFails, TransactionLabels
<1>2. PICK c \in Channels : c = thr[t].chan
  BY <1>1, OutlineFacts
<1>3. PICK next : next = thr'[t]
  OBVIOUS
<1>4. CASE Return(t, Failed) /\ (chan' = chan \/ chan' = [chan EXCEPT ![c] = MarkedFailed(@)])
  <2>1. next.pc \notin TransactionLabels \cup {"join", "terminate"} /\ next.resp = Failed
    BY <1>1, <1>3, <1>4, ReturnFacts, NewThreadTyped
  <2> QED
    BY <1>1, <1>2, <1>3, <1>4, <2>1, FailureWaits DEF TransactionLabels
<1>5. ASSUME NEW ev \in ResponsesFor(t), Return(t, ev), thr[t].pc = "wait",
             chan' = [chan EXCEPT ![c].responses = @ \ {ev}]
      PROVE  WaitInv'
  <2>1. chan \in [Channels -> ChannelStates] /\ chan[c] \in ChannelStates
    BY DEF LeaseInv, Types
  <2>2. ev \in Events /\ ev \in chan[c].responses /\ ev.id = thr[t].req.id
    BY <1>2, <1>5, <2>1 DEF ResponsesFor, ChannelStates
  <2>3. /\ chan'[c].responses = chan[c].responses \ {ev}
        /\ \A d \in Channels \ {c} : chan'[d].responses = chan[d].responses
        /\ \A d \in Channels : /\ chan'[d].fd = chan[d].fd /\ chan'[d].pid = chan[d].pid
                               /\ chan'[d].reader = chan[d].reader
                               /\ chan'[d].failed = chan[d].failed /\ chan'[d].shutdown = chan[d].shutdown
    BY <1>5, <2>1 DEF ChannelStates
  <2>4. /\ next.pc = thr[t].ret /\ SameLocals(next, thr[t])
        /\ next.pc \notin TransactionLabels \cup {"join", "terminate"}
    BY <1>1, <1>3, <1>5, <2>2, ReturnFacts
  <2>5. ReadersRemain(t)
    <3>1. \A d \in Channels : (Healthy(d) => chan[d].reader = "running") /\ (chan[d].fd => chan[d].reader # "none")
      BY DEF WaitInv, ReadersServe, HasReader
    <3> QED
      BY <2>3, <3>1 DEF ReadersRemain, Healthy, HasReader
  <2>6. OwnWaits(t, next)
    <3>1. next.pc = "handshaken" => next.spawned = c /\ thr[t].spawned = c /\ c # NoChannel
      BY <1>1, <1>2, <2>4, HandshakeChannel, ControlAssumption DEF SameLocals, NoChannel
    <3>2. next.pc = "handshaken" => chan'[next.spawned].reader # "none"
      BY <1>5, <2>3, <3>1 DEF WaitInv, ReadersStay, HasReader
    <3> QED
      BY <1>5, <2>4, <3>2 DEF OwnWaits, Ends, TransactionLabels
  <2>7. ASSUME NEW u \in Threads \ {t}, NEW d \in Channels, NEW q,
               thr[u].pc = "wait", d = thr[u].chan, q = thr[u].req
        PROVE  Attended(d, q)'
    <3>1. Attended(d, q) /\ Attended(c, thr[t].req)
      BY <1>2, <1>5, <2>7, WaiterFacts
    <3>2. CASE d # c
      BY <1>1, <2>3, <3>1, <3>2, AttendedKept
    <3>3. CASE d = c /\ (q.id # ev.id \/ q.kind = "Shutdown")
      BY <1>1, <2>3, <3>1, <3>3 DEF Attended, Down
    <3>4. CASE d = c /\ q.id = ev.id /\ q.kind # "Shutdown"
      <4>1. thr[t].req.kind = "Shutdown" /\ thr[t].req.id = q.id
        BY <1>2, <1>5, <2>2, <2>7, <3>4, AnswerShared
      <4> QED
        BY <1>1, <2>3, <3>1, <3>4, <4>1 DEF Attended, Down
    <3> QED
      BY <3>2, <3>3, <3>4
  <2> QED
    BY <1>3, <2>5, <2>6, <2>7, WaitsKept
<1> QED
  BY <1>2, <1>4, <1>5 DEF WaitEnds, WaitTimesOut, StartWorkerFails

LEMMA TeardownLegWaits ==
    ASSUME LeaseInv, WaitInv, LeaseInv', NEW t \in Threads, Turn(t), CloseSocket(t) \/ JoinReader(t)
    PROVE  WaitInv'
<1>1. thr[t].pc \in {"close", "join"} /\ thr[t].pc \in TeardownLabels /\ UNCHANGED <<toWorker, toClient, proc>>
  BY DEF CloseSocket, JoinReader, TeardownLabels
<1>2. PICK c \in Channels : c = thr[t].chan
  BY <1>1, OutlineFacts
<1>3. PICK next : next = thr'[t]
  OBVIOUS
<1>4. chan \in [Channels -> ChannelStates] /\ chan[c] \in ChannelStates /\ thr \in [Threads -> ThreadStates]
  BY DEF LeaseInv, Types
<1>5. /\ chan'[c].responses = chan[c].responses /\ chan'[c].failed = chan[c].failed /\ chan'[c].shutdown /\ ~chan'[c].fd
      /\ \A d \in Channels \ {c} : chan'[d] = chan[d]
      /\ chan[c].reader # "none" => chan'[c].reader # "none" \/ Ends(t, c)
      /\ SameLocals(next, thr[t])
      /\ next.pc = IF thr[t].pc = "close" THEN "join" ELSE "terminate"
  <2>1. CASE CloseSocket(t)
    <3>1. chan' = [chan EXCEPT ![c].shutdown = TRUE, ![c].fd = FALSE] /\ thr' = [thr EXCEPT ![t].pc = "join"]
          /\ thr[t].pc = "close"
      BY <1>2, <2>1 DEF CloseSocket
    <3> QED
      BY <1>3, <1>4, <3>1 DEF ChannelStates, ThreadStates, SameLocals
  <2>2. CASE JoinReader(t)
    <3>1. chan' = [chan EXCEPT ![c].reader = "none"] /\ thr' = [thr EXCEPT ![t].pc = "terminate"] /\ thr[t].pc = "join"
      BY <1>2, <2>2 DEF JoinReader
    <3>2. chan[c].shutdown /\ ~chan[c].fd /\ Ends(t, c)
      BY <1>2, <3>1 DEF WaitInv, TeardownsClose, Ends
    <3> QED
      BY <1>3, <1>4, <3>1, <3>2 DEF ChannelStates, ThreadStates, SameLocals
  <2> QED
    BY <2>1, <2>2
<1>6. ReadersRemain(t)
  <2> SUFFICES ASSUME NEW d \in Channels
               PROVE  /\ Healthy(d)' => chan'[d].reader = "running"
                      /\ chan'[d].fd => chan'[d].reader # "none"
                      /\ chan'[d].fd => chan[d].fd
                      /\ HasReader(d) => chan'[d].reader # "none" \/ Ends(t, d)
    BY DEF ReadersRemain
  <2>1. CASE d = c
    BY <1>5, <2>1 DEF Healthy, HasReader
  <2>2. CASE d # c
    BY <1>5, <2>2 DEF Healthy, HasReader, WaitInv, ReadersServe
  <2> QED
    BY <2>1, <2>2
<1>7. OwnWaits(t, next)
  BY <1>1, <1>2, <1>5 DEF OwnWaits, Ends, SameLocals
<1>8. ASSUME NEW u \in Threads \ {t}, NEW d \in Channels, NEW q,
             thr[u].pc = "wait", d = thr[u].chan, q = thr[u].req
      PROVE  Attended(d, q)'
  <2>1. Attended(d, q)
    BY <1>8, WaiterFacts
  <2>2. chan'[d].responses = chan[d].responses /\ chan'[d].failed = chan[d].failed /\ (chan[d].shutdown => chan'[d].shutdown)
    BY <1>5
  <2> QED
    BY <1>1, <2>1, <2>2, AttendedKept
<1> QED
  BY <1>3, <1>6, <1>7, <1>8, WaitsKept

LEMMA CloseEndsWaits ==
    ASSUME LeaseInv, WaitInv, LeaseInv', NEW t \in Threads, Turn(t), CloseEnds(t),
           thr[t].chan \notin Range(thr'[t].retire), thr'[t].pc \in {"ensure", "idle", "done"}
    PROVE  WaitInv'
<1>1. thr[t].pc = "terminate" /\ thr[t].pc \in TeardownLabels
  BY DEF CloseEnds, TerminateProcess, TeardownLabels
<1>2. PICK c \in Channels : c = thr[t].chan
  BY <1>1, OutlineFacts
<1>3. PICK next : next = thr'[t]
  OBVIOUS
<1>4. /\ chan \in [Channels -> ChannelStates] /\ chan[c] \in ChannelStates /\ proc \in [Channels -> WorkerStates]
      /\ toWorker \in [Channels -> Seq(Requests)] /\ toClient \in [Channels -> Seq(Events)]
  BY DEF LeaseInv, Types
<1>5. PICK after \in {Terminated(chan[c]), NewChannel} :
        /\ proc' = [proc EXCEPT ![c] = NoWorker] /\ toWorker' = [toWorker EXCEPT ![c] = << >>]
        /\ toClient' = [toClient EXCEPT ![c] = << >>] /\ chan' = [chan EXCEPT ![c] = after]
  BY <1>2 DEF CloseEnds, TerminateProcess
<1>6. ~proc'[c].alive /\ ~Healthy(c)' /\ (chan'[c].fd => chan[c].fd /\ chan'[c].reader = chan[c].reader)
  <2>1. ~NoWorker.alive /\ ~NewChannel.pid /\ ~NewChannel.fd
    BY DEF NoWorker, NewChannel
  <2>2. Terminated(chan[c]).failed /\ Terminated(chan[c]).fd = chan[c].fd /\ Terminated(chan[c]).reader = chan[c].reader
    BY <1>4 DEF Terminated, ChannelStates
  <2>3. chan'[c] = after /\ proc'[c] = NoWorker
    BY <1>4, <1>5
  <2> QED
    BY <2>1, <2>2, <2>3 DEF Healthy
<1>7. \A d \in Channels \ {c} : /\ chan'[d] = chan[d] /\ proc'[d] = proc[d]
                                /\ toWorker'[d] = toWorker[d] /\ toClient'[d] = toClient[d]
  BY <1>4, <1>5
<1>8. ReadersRemain(t)
  <2> SUFFICES ASSUME NEW d \in Channels
               PROVE  /\ Healthy(d)' => chan'[d].reader = "running"
                      /\ chan'[d].fd => chan'[d].reader # "none"
                      /\ chan'[d].fd => chan[d].fd
                      /\ HasReader(d) => chan'[d].reader # "none" \/ Ends(t, d)
    BY DEF ReadersRemain
  <2>1. (Healthy(d) => chan[d].reader = "running") /\ (chan[d].fd => chan[d].reader # "none")
    BY DEF WaitInv, ReadersServe, HasReader
  <2>2. CASE d = c
    BY <1>1, <1>2, <1>6, <2>1, <2>2 DEF Ends
  <2>3. CASE d # c
    BY <1>7, <2>1, <2>3 DEF Healthy, HasReader
  <2> QED
    BY <2>2, <2>3
<1>9. OwnWaits(t, next)
  BY <1>2, <1>3 DEF OwnWaits, Ends
<1>10. ASSUME NEW u \in Threads \ {t}, NEW d \in Channels, NEW q,
              thr[u].pc = "wait", d = thr[u].chan, q = thr[u].req
       PROVE  Attended(d, q)'
  <2>1. CASE d = c
    BY <1>6, <2>1 DEF Attended
  <2>2. CASE d # c
    BY <1>7, <1>10, <2>2, WaiterFacts, AttendedKept
  <2> QED
    BY <2>1, <2>2
<1> QED
  BY <1>3, <1>8, <1>9, <1>10, WaitsKept

\* An answer carries the id of its request; after a Shutdown the worker ends.
LEMMA HandleAnswers ==
    ASSUME NEW w \in WorkerStates, NEW r \in Requests, NEW o \in Handle(w, r)
    PROVE  o.ev.id = r.id /\ (r.kind = "Shutdown" => o.w.shutdown)
<1>1. ASSUME NEW u, NEW e PROVE MakeError(u, r, e).ev.id = r.id
  BY DEF MakeError, Outcome, Answer
<1>2. ASSUME NEW u PROVE RuntimeFailed(u, r).ev.id = r.id
  BY DEF RuntimeFailed, Outcome, Answer
<1>3. ASSUME NEW u, NEW x \in GraphCreated(u, r) PROVE x.ev.id = r.id
  BY <1>3 DEF GraphCreated, Outcome, Answer
<1>4. ASSUME NEW u, NEW k PROVE Outcome(u, Answer(r, k, r.graph, "ok"), FALSE).ev.id = r.id
  BY DEF Outcome, Answer
<1>5. r.kind \in RequestKinds
  BY DEF Requests
<1>6. CASE r.kind = "ConfigHandshake"
  BY <1>1, <1>2, <1>6 DEF Handle, HandleConfigHandshake, Outcome, Answer
<1>7. CASE r.kind = "StartSessions"
  BY <1>1, <1>2, <1>3, <1>7 DEF Handle, HandleStartSessions
<1>8. CASE r.kind = "StopSessions"
  <2>1. PICK u, v : o \in {MakeError(u, r, v.health), Outcome(u, Answer(r, "Stopped", r.graph, "ok"), FALSE)}
    BY <1>8 DEF Handle, HandleStopSessions
  <2> QED
    BY <1>1, <1>4, <1>8, <2>1
<1>9. CASE r.kind = "Stats"
  BY <1>1, <1>9 DEF Handle, HandleStats, Outcome, Answer
<1>10. CASE r.kind = "HealthCheck"
  BY <1>10 DEF Handle, HandleHealthCheck, Outcome, Answer
<1>11. CASE r.kind = "Shutdown"
  <2> DEFINE ended == [w EXCEPT !.graphs = {}, !.sick = {}, !.runtime = NoRuntime, !.shutdown = TRUE]
  <2>1. PICK g : o = Outcome(ended, Answer(r, "Stopped", g, "ok"), FALSE)
    BY <1>11 DEF Handle, HandleShutdown
  <2>2. ended.shutdown
    BY DEF WorkerStates
  <2> HIDE DEF ended
  <2> QED
    BY <2>1, <2>2 DEF Outcome, Answer
<1> QED
  BY <1>5, <1>6, <1>7, <1>8, <1>9, <1>10, <1>11 DEF RequestKinds

\* The steps of the readers and the worker processes.
LEMMA ChannelWaits ==
    ASSUME LeaseInv, WaitInv, UNCHANGED <<thr, workers>>,
           \A d \in Channels :
               /\ chan'[d].fd = chan[d].fd /\ chan'[d].pid = chan[d].pid /\ chan'[d].shutdown = chan[d].shutdown
               /\ chan[d].failed => chan'[d].failed
               /\ chan[d].reader # "none" => chan'[d].reader # "none"
               /\ chan'[d].reader = chan[d].reader \/ chan'[d].failed \/ chan'[d].shutdown,
           \A d \in Channels : \A q : Attended(d, q) => Attended(d, q)'
    PROVE  WaitInv'
<1>1. ReadersServe'
  <2> SUFFICES ASSUME NEW d \in Channels
               PROVE  (Healthy(d)' => chan'[d].reader = "running") /\ (chan'[d].fd => chan'[d].reader # "none")
    BY DEF ReadersServe, HasReader
  <2>1. (Healthy(d) => chan[d].reader = "running") /\ (chan[d].fd => chan[d].reader # "none")
    BY DEF WaitInv, ReadersServe, HasReader
  <2> QED
    BY <2>1 DEF Healthy
<1>2. TeardownsClose'
  <2> SUFFICES ASSUME NEW t \in Threads, thr[t].pc \in {"join", "terminate"}
               PROVE  chan'[thr[t].chan].shutdown /\ (thr[t].pc = "join" => ~chan'[thr[t].chan].fd)
    BY DEF TeardownsClose
  <2>1. thr[t].chan \in Channels
    BY OutlineFacts DEF TeardownLabels
  <2> QED
    BY <2>1 DEF WaitInv, TeardownsClose
<1>3. ReadersStay'
  <2>1. workers \subseteq Records /\ thr \in [Threads -> ThreadStates]
    BY DEF LeaseInv, Types
  <2>2. \A r \in workers : chan'[r.chan].reader # "none"
    BY <2>1 DEF WaitInv, ReadersStay, HasReader, Records
  <2>3. ASSUME NEW t \in Threads, NEW d \in Range(thr[t].retire)
        PROVE  chan'[d].reader # "none" \/ (thr[t].pc = "terminate" /\ thr[t].chan = d)
    <3>1. d \in Channels
      BY <2>1 DEF ThreadStates, Range
    <3> QED
      BY <3>1 DEF WaitInv, ReadersStay, HasReader
  <2>4. ASSUME NEW t \in Threads, thr[t].spawned # NoChannel,
               thr[t].pc = "wait" \/ (thr[t].pc = "handshaken" /\ thr[t].resp.kind = "Health")
        PROVE  chan'[thr[t].spawned].reader # "none"
    <3>1. thr[t].spawned \in Channels
      BY <2>1, <2>4 DEF ThreadStates
    <3> QED
      BY <2>4, <3>1 DEF WaitInv, ReadersStay, HasReader
  <2> QED
    BY <2>2, <2>3, <2>4 DEF ReadersStay, HasReader
<1>4. ASSUME NEW t \in Threads, thr[t].pc = "wait", NEW d, d = thr[t].chan, NEW q, q = thr[t].req
      PROVE  Begun(d)' /\ Attended(d, q)'
  <2>1. d \in Channels /\ Begun(d) /\ Attended(d, q)
    BY <1>4, WaiterFacts
  <2> QED
    BY <2>1 DEF Begun, WorkerStarted
<1>5. WaitsBegun' /\ Heard'
  BY <1>4 DEF WaitsBegun, Heard, Begun, WorkerStarted, Attended, Down
<1> QED
  BY <1>1, <1>2, <1>3, <1>5 DEF WaitInv

LEMMA ReaderWaits ==
    ASSUME LeaseInv, WaitInv, NEW c \in Channels, ReaderFiles(c) \/ ReaderFails(c), UNCHANGED workers
    PROVE  WaitInv'
<1>1. /\ chan \in [Channels -> ChannelStates] /\ chan[c] \in ChannelStates
      /\ toClient \in [Channels -> Seq(Events)] /\ toClient[c] \in Seq(Events)
  BY DEF LeaseInv, Types
<1>2. UNCHANGED <<toWorker, proc, thr, workers>> /\ chan[c].reader = "running"
  BY DEF ReaderFiles, ReaderFails
<1>3. CASE ReaderFails(c)
  <2>1. chan' = [chan EXCEPT ![c] = [MarkedFailed(chan[c]) EXCEPT !.reader = "ended"]]
    BY <1>3 DEF ReaderFails
  <2>2. /\ chan'[c].failed /\ chan'[c].reader = "ended" /\ chan'[c].fd = chan[c].fd /\ chan'[c].pid = chan[c].pid
        /\ chan'[c].shutdown = chan[c].shutdown /\ chan'[c].responses = chan[c].responses
        /\ \A d \in Channels \ {c} : chan'[d] = chan[d]
    BY <1>1, <2>1 DEF MarkedFailed, ChannelStates
  <2>3. toClient' = toClient
    BY <1>3 DEF ReaderFails
  <2>4. ASSUME NEW d \in Channels, NEW q, Attended(d, q) PROVE Attended(d, q)'
    BY <1>2, <2>2, <2>3, <2>4, AttendedKept
  <2> QED
    BY <1>2, <2>2, <2>4, ChannelWaits
<1>4. CASE ReaderFiles(c)
  <2> DEFINE ev == Head(toClient[c])
  <2> DEFINE R == {e \in chan[c].responses : e.id # ev.id} \cup {ev}
  <2>1. /\ toClient' = [toClient EXCEPT ![c] = Tail(toClient[c])] /\ toClient[c] # << >>
        /\ chan' = [chan EXCEPT ![c] = IF chan[c].shutdown \/ chan[c].failed
                                      THEN [chan[c] EXCEPT !.reader = "ended"]
                                      ELSE [chan[c] EXCEPT !.responses = R]]
    BY <1>4 DEF ReaderFiles
  <2> HIDE DEF R
  <2>2. /\ chan'[c].fd = chan[c].fd /\ chan'[c].pid = chan[c].pid /\ chan'[c].shutdown = chan[c].shutdown
        /\ chan'[c].failed = chan[c].failed /\ chan'[c].reader # "none"
        /\ chan'[c].reader = chan[c].reader \/ chan'[c].failed \/ chan'[c].shutdown
        /\ Down(c) \/ chan'[c].responses = R
        /\ \A d \in Channels \ {c} : chan'[d] = chan[d] /\ toClient'[d] = toClient[d]
    BY <1>1, <1>2, <2>1 DEF Down, ChannelStates
  <2>3. \A e \in Range(toClient[c]) : e = ev \/ e \in Range(toClient'[c])
    <3>1. toClient'[c] = Tail(toClient[c])
      BY <1>1, <2>1
    <3> QED
      BY <1>1, <2>1, <3>1, TailHeld
  <2>4. ASSUME NEW d \in Channels, NEW q, Attended(d, q) PROVE Attended(d, q)'
    <3>1. CASE d # c
      BY <1>2, <2>2, <2>4, <3>1, AttendedKept
    <3>2. CASE d = c /\ q.kind # "Shutdown" /\ \E e \in Range(toClient[c]) \cup chan[c].responses : e.id = q.id
      <4>1. Down(c) \/ \E e \in Range(toClient'[c]) \cup chan'[c].responses : e.id = q.id
        BY <2>2, <2>3, <3>2 DEF R
      <4> QED
        BY <2>2, <3>2, <4>1 DEF Attended, Down
    <3>3. CASE d = c /\ ~(q.kind # "Shutdown" /\ \E e \in Range(toClient[c]) \cup chan[c].responses : e.id = q.id)
      BY <1>2, <2>2, <2>4, <3>3 DEF Attended, Down
    <3> QED
      BY <3>1, <3>2, <3>3
  <2> QED
    BY <1>2, <2>2, <2>4, ChannelWaits
<1> QED
  BY <1>3, <1>4

LEMMA WorkerWaits ==
    ASSUME LeaseInv, WaitInv, NEW c \in Channels, UNCHANGED workers,
           \/ WorkerHandles(c) \/ WorkerReadsEof(c) \/ WorkerCrashes(c) \/ WorkerHangs(c)
           \/ \E g \in Graphs : SessionFails(c, g)
    PROVE  WaitInv'
<1>1. /\ proc \in [Channels -> WorkerStates] /\ proc[c] \in WorkerStates
      /\ toWorker \in [Channels -> Seq(Requests)] /\ toWorker[c] \in Seq(Requests)
      /\ toClient \in [Channels -> Seq(Events)] /\ toClient[c] \in Seq(Events)
  BY DEF LeaseInv, Types
<1>2. UNCHANGED <<chan, thr, workers>> /\ proc[c].alive /\ ~NoWorker.alive
  BY DEF WorkerHandles, WorkerReadsEof, WorkerCrashes, WorkerHangs, SessionFails, NoWorker
<1>3. \A d \in Channels \ {c} : proc'[d] = proc[d] /\ toWorker'[d] = toWorker[d] /\ toClient'[d] = toClient[d]
  BY <1>1 DEF WorkerHandles, WorkerReadsEof, WorkerCrashes, WorkerHangs, SessionFails
<1>4. ASSUME NEW q, Attended(c, q) PROVE Attended(c, q)'
  <2>1. CASE WorkerHandles(c)
    <3> DEFINE r == Head(toWorker[c])
    <3>1. /\ r \in Requests
          /\ \A x \in Range(toWorker[c]) : x = r \/ x \in Range(Tail(toWorker[c]))
      BY <1>1, <2>1, TailHeld DEF WorkerHandles
    <3>2. PICK o \in Handle(proc[c], r) :
            /\ proc' = [proc EXCEPT ![c] = IF chan[c].fd /\ ~o.w.shutdown THEN o.w ELSE NoWorker]
            /\ toClient' = [toClient EXCEPT ![c] = IF chan[c].fd THEN Append(@, o.ev) ELSE @]
      BY <2>1 DEF WorkerHandles
    <3>3. o.ev \in Events /\ o.ev.id = r.id /\ (r.kind = "Shutdown" => o.w.shutdown)
      BY <1>1, <3>1, HandleTyped, HandleAnswers
    <3>4. toWorker'[c] = Tail(toWorker[c]) /\ proc[c].alive /\ ~proc[c].hung
      BY <1>1, <2>1 DEF WorkerHandles
    <3> HIDE DEF r
    <3>5. ~chan[c].fd \/ o.w.shutdown => ~proc'[c].alive
      BY <1>1, <1>2, <3>2
    <3>6. ASSUME chan[c].fd
          PROVE  Range(toClient[c]) \subseteq Range(toClient'[c]) /\ o.ev \in Range(toClient'[c])
      <4>1. toClient'[c] = Append(toClient[c], o.ev)
        BY <1>1, <3>2, <3>6
      <4>2. /\ \A i \in DOMAIN toClient[c] : i \in DOMAIN Append(toClient[c], o.ev)
                                             /\ Append(toClient[c], o.ev)[i] = toClient[c][i]
            /\ Len(toClient[c]) + 1 \in DOMAIN Append(toClient[c], o.ev)
            /\ Append(toClient[c], o.ev)[Len(toClient[c]) + 1] = o.ev
        BY <1>1, <3>3
      <4> QED
        BY <4>1, <4>2 DEF Range
    <3>7. CASE ~chan[c].fd \/ o.w.shutdown
      BY <3>5, <3>7 DEF Attended
    <3>8. CASE chan[c].fd /\ ~o.w.shutdown
      <4>1. CASE Down(c)
        BY <1>2, <4>1 DEF Attended, Down
      <4>2. CASE \E x \in Range(toWorker[c]) : x.id = q.id /\ (q.kind = "Shutdown" => x.kind = "Shutdown")
        <5>1. PICK x \in Range(toWorker[c]) : x.id = q.id /\ (q.kind = "Shutdown" => x.kind = "Shutdown")
          BY <4>2
        <5>2. CASE x = r
          BY <3>3, <3>6, <3>8, <5>1, <5>2 DEF Attended
        <5>3. CASE x \in Range(toWorker'[c])
          BY <5>1, <5>3 DEF Attended
        <5> QED
          BY <3>1, <3>4, <5>2, <5>3
      <4>3. CASE q.kind # "Shutdown" /\ \E e \in Range(toClient[c]) \cup chan[c].responses : e.id = q.id
        BY <1>2, <3>6, <3>8, <4>3 DEF Attended
      <4> QED
        BY <1>4, <3>4, <4>1, <4>2, <4>3 DEF Attended
    <3> QED
      BY <3>7, <3>8
  <2>2. CASE WorkerReadsEof(c) \/ WorkerCrashes(c)
    <3>1. proc' = [proc EXCEPT ![c] = NoWorker]
      BY <2>2 DEF WorkerReadsEof, WorkerCrashes
    <3>2. ~proc'[c].alive
      BY <1>1, <1>2, <3>1
    <3> QED
      BY <3>2 DEF Attended
  <2>3. CASE WorkerHangs(c)
    <3>1. proc'[c].hung
      BY <1>1, <2>3 DEF WorkerHangs, WorkerStates
    <3> QED
      BY <3>1 DEF Attended
  <2>4. CASE \E g \in Graphs : SessionFails(c, g)
    <3>1. /\ proc'[c].alive = proc[c].alive /\ proc'[c].hung = proc[c].hung
          /\ toWorker' = toWorker /\ toClient' = toClient
      BY <1>1, <2>4 DEF SessionFails, WorkerStates
    <3> QED
      BY <1>2, <1>4, <3>1, AttendedKept
  <2> QED
    BY <2>1, <2>2, <2>3, <2>4
<1>5. ASSUME NEW d \in Channels, NEW q, Attended(d, q) PROVE Attended(d, q)'
  BY <1>2, <1>3, <1>4, <1>5, AttendedKept
<1> QED
  BY <1>2, <1>5, ChannelWaits

LEMMA InitWaits == Init => WaitInv
<1> SUFFICES ASSUME Init PROVE WaitInv
  OBVIOUS
<1>1. /\ chan = [c \in Channels |-> NewChannel] /\ workers = {} /\ thr = [t \in Threads |-> NewThread]
  BY DEF Init, ChannelInit
<1>2. /\ ~NewChannel.fd /\ NewThread.pc = "idle" /\ NewThread.spawned = NoChannel /\ NewThread.retire = << >>
      /\ Range(<< >>) = {}
  BY DEF NewChannel, NewThread, Range
<1>3. ReadersServe
  BY <1>1, <1>2 DEF ReadersServe, Healthy, HasReader
<1>4. TeardownsClose /\ WaitsBegun /\ Heard
  BY <1>1, <1>2 DEF TeardownsClose, WaitsBegun, Heard
<1>5. ReadersStay
  BY <1>1, <1>2 DEF ReadersStay
<1> QED
  BY <1>3, <1>4, <1>5 DEF WaitInv

LEMMA NextWaits == LeaseInv /\ LeaseInv' /\ WaitInv /\ [Next]_vars => WaitInv'
<1> SUFFICES ASSUME LeaseInv, LeaseInv', WaitInv, [Next]_vars
             PROVE  WaitInv'
  OBVIOUS
<1>1. ASSUME NEW t \in Threads, ThreadStep(t) PROVE WaitInv'
  <2>1. CASE EnsureChecked(t) /\ UNCHANGED workers
    BY <2>1, EnsureKeeps, EnsureWaits
  <2>2. CASE StartWorkerAndSend(t) /\ UNCHANGED workers
    BY <2>2, StartWorkerKeeps, StartWorkerWaits
  <2>3. CASE Send(t) /\ UNCHANGED workers
    BY <2>3, SendKeeps, SendWaits
  <2>4. CASE (WaitEnds(t) \/ WaitTimesOut(t) \/ StartWorkerFails(t)) /\ UNCHANGED workers
    BY <2>4, WaitKeeps, WaitEndsWaits
  <2>5. CASE (CloseSocket(t) \/ JoinReader(t)) /\ UNCHANGED workers
    BY <2>5, TeardownLegKeeps, TeardownLegWaits
  <2>6. CASE CloseEnds(t)
    BY <2>6, CloseEndsKeeps, CloseEndsWaits
  <2> QED
    BY <1>1, <2>1, <2>2, <2>3, <2>4, <2>5, <2>6 DEF ThreadStep
<1>2. ASSUME NEW g \in Graphs, ClientStep(g) \/ ClientCall(g) PROVE WaitInv'
  <2>1. thr[g].pc \notin {"join", "terminate"} /\ g \in Threads
    BY <1>2 DEF ClientStep, ClientCall, AcquireFails, Acquire, HandshakeFails, Register, PrepareFails, Prepare,
      StartAnswered, StopAnswered, StatsHealthAnswered, StatsAnswered, StartCall, StatsCall, StopCall, Threads
  <2> QED
    BY <1>2, <2>1, ClientStepKeeps, ClientCallKeeps, ClientWaits
<1>3. ASSUME NEW c \in Channels, ReaderStep(c) \/ WorkerStep(c) \/ WorkerFault(c) PROVE WaitInv'
  BY <1>3, ReaderWaits, WorkerWaits DEF ReaderStep, WorkerStep, WorkerFault
<1>4. CASE ShutdownAll(Exit)
  <2>1. thr[Exit].pc = "idle" /\ Exit \in Threads
    BY <1>4 DEF ShutdownAll, Threads
  <2> QED
    BY <1>4, <2>1, ShutdownAllKeeps, ClientWaits
<1>5. CASE UNCHANGED vars
  BY <1>5 DEF vars, WaitInv, ReadersServe, TeardownsClose, ReadersStay, WaitsBegun, Heard, Attended, Down, Begun,
    WorkerStarted, Healthy, HasReader
<1> QED
  BY <1>1, <1>2, <1>3, <1>4, <1>5 DEF Next

\* Every thread that waits for an answer has it, has it coming, or has the
\* failure coming that ends the wait, unless the worker hangs; a thread that
\* joins a reader has closed the socket it reads; no process is left behind.
THEOREM NothingIsEverForgotten == Spec => []NothingIsForgotten
<1>1. Spec => [](LeaseInv /\ WaitInv)
  <2>1. Init => LeaseInv /\ WaitInv
    BY InitKeeps, InitWaits
  <2>2. (LeaseInv /\ WaitInv) /\ [Next]_vars => (LeaseInv /\ WaitInv)'
    BY NextKeeps, NextWaits
  <2> QED
    BY <2>1, <2>2, PTL DEF Spec
<1>2. LeaseInv /\ WaitInv => WaitsEnd
  <2> SUFFICES ASSUME LeaseInv, WaitInv, NEW t \in Threads
               PROVE  /\ thr[t].pc = "wait" =>
                           \/ ResponsesFor(t) # {} \/ chan[thr[t].chan].failed \/ chan[thr[t].chan].shutdown
                           \/ proc[thr[t].chan].hung
                           \/ (\E r \in Range(toWorker[thr[t].chan]) : r.id = thr[t].req.id) /\ proc[thr[t].chan].alive
                           \/ /\ chan[thr[t].chan].reader = "running"
                              /\ \/ \E e \in Range(toClient[thr[t].chan]) : e.id = thr[t].req.id
                                 \/ ~proc[thr[t].chan].alive
                      /\ (thr[t].pc = "join" /\ chan[thr[t].chan].reader = "running") => ~chan[thr[t].chan].fd
    BY DEF WaitsEnd
  <2>1. thr[t].pc = "join" => ~chan[thr[t].chan].fd
    BY DEF WaitInv, TeardownsClose
  <2>2. ASSUME thr[t].pc = "wait", ~Down(thr[t].chan)
        PROVE  chan[thr[t].chan].reader = "running" /\ Attended(thr[t].chan, thr[t].req)
    <3>1. /\ thr[t].chan \in Channels /\ Begun(thr[t].chan) /\ Attended(thr[t].chan, thr[t].req)
      BY <2>2, WaiterFacts
    <3>2. Healthy(thr[t].chan)
      BY <2>2, <3>1 DEF Begun, WorkerStarted, Healthy, Down
    <3> QED
      BY <3>1, <3>2 DEF WaitInv, ReadersServe
  <2> QED
    BY <2>1, <2>2 DEF Attended, Down, ResponsesFor
<1> QED
  BY <1>1, <1>2, NoWorkerIsLeftBehind, PTL DEF NothingIsForgotten

-----------------------------------------------------------------------------
(* The graphs in the workers.                                              *)

\* What the step of thread t does to a channel: nothing that matters to the
\* others but perhaps a request sent, or the channel is given up, or the
\* thread's new worker is recorded.
Sent(t, c) ==
    /\ thr[t].pc = "start" /\ thr[t].chan = c
    /\ toWorker'[c] = Append(toWorker[c], thr[t].req)

Continues(t, c) ==
    /\ toWorker'[c] = toWorker[c] \/ Sent(t, c)
    /\ toClient'[c] = toClient[c] /\ proc'[c] = proc[c]
    /\ chan'[c].responses \subseteq chan[c].responses
    /\ chan[c].handlers \ {t} \subseteq chan'[c].handlers
    /\ Healthy(c)' => Healthy(c)
    /\ Recorded(c)' => Recorded(c)

GivenUp(c) == ~Recorded(c)' /\ (~Healthy(c)' \/ \A u \in Threads : thr'[u].lease # c)

Opened(t, c) ==
    /\ c = thr[t].spawned /\ c # NoChannel
    /\ toWorker'[c] = <<>> /\ toClient'[c] = <<>> /\ chan'[c].responses = {} /\ proc'[c].graphs = {}

ChannelsServe(t) == \A c \in Channels : Continues(t, c) \/ GivenUp(c) \/ Opened(t, c)

Untouched(t) ==
    \A c \in Channels : c \notin References(t) =>
        /\ chan'[c] = chan[c] /\ proc'[c] = proc[c]
        /\ toWorker'[c] = toWorker[c] /\ toClient'[c] = toClient[c]

\* What the step shows of thread t itself.
OwnLease(t, next) ==
    /\ LeaseBegun(t, next)'
    /\ next.lease # NoChannel =>
         /\ next.lease = thr[t].lease \/ Recorded(next.lease)'
         /\ Stands(t, next, next.lease)'

OwnTraces(t, next) ==
    \A c \in Channels :
        /\ InUse(c)' => \A r \in Range(toWorker'[c]) :
                           (r.kind \in SessionKinds /\ r.graph = t) => t \in Graphs /\ Owns(next, c, r)'
        /\ (Recorded(c)' /\ t \in Graphs /\ t \in proc'[c].graphs) => next.lease = c

OwnServes(t, next) ==
    /\ AsksAbout(t, next) /\ OwnId(next)' /\ OwnLease(t, next) /\ OwnTraces(t, next)
    /\ next.spawned # NoChannel => HandshakeOf(next, next.spawned)'

Serves(t, next) ==
    /\ thr'[t] = next /\ \A u \in Threads \ {t} : thr'[u] = thr[u]
    /\ Turn(t) /\ ChannelsServe(t) /\ Untouched(t) /\ OwnServes(t, next)

\* A channel in use was in use before, or is that of the new worker.
LEMMA UseKept ==
    ASSUME LeaseInv, NEW t \in Threads, NEW next, Serves(t, next), NEW c \in Channels, InUse(c)'
    PROVE  (InUse(c) /\ Continues(t, c)) \/ Opened(t, c)
<1>1. Continues(t, c) \/ Opened(t, c)
  BY DEF Serves, ChannelsServe, GivenUp, InUse, Serving, Leased, Threads
<1>2. ASSUME Continues(t, c) PROVE InUse(c)
  <2>1. CASE Recorded(c)'
    BY <1>2, <2>1 DEF Continues, InUse
  <2>2. CASE Serving(c)' /\ Leased(c)'
    <3>1. Serving(c)
      BY <1>2, <2>2 DEF Continues, Serving
    <3>2. PICK g \in Graphs : thr'[g].lease = c
      BY <2>2 DEF Leased
    <3>3. c # NoChannel /\ g \in Threads
      BY ControlAssumption DEF NoChannel, Threads
    <3>4. thr[g].lease = c \/ Recorded(c)'
      BY <3>2, <3>3 DEF Serves, OwnServes, OwnLease
    <3> QED
      BY <2>1, <3>1, <3>4 DEF InUse, Leased
  <2> QED
    BY <2>1, <2>2 DEF InUse
<1> QED
  BY <1>1, <1>2

LEMMA AppendRange ==
    ASSUME NEW S, NEW s \in Seq(S), NEW x \in S
    PROVE  /\ Range(Append(s, x)) = Range(s) \cup {x}
           /\ Len(Append(s, x)) = Len(s) + 1 /\ Append(s, x)[Len(s) + 1] = x
           /\ \A i \in DOMAIN s : i \in DOMAIN Append(s, x) /\ Append(s, x)[i] = s[i]
           /\ \A i \in DOMAIN Append(s, x) : i \in DOMAIN s \/ i = Len(s) + 1
<1>1. /\ Len(Append(s, x)) = Len(s) + 1 /\ Append(s, x)[Len(s) + 1] = x
      /\ \A i \in DOMAIN s : i \in DOMAIN Append(s, x) /\ Append(s, x)[i] = s[i]
      /\ \A i \in DOMAIN Append(s, x) : i \in DOMAIN s \/ i = Len(s) + 1
      /\ Len(s) + 1 \in DOMAIN Append(s, x)
  OBVIOUS
<1> QED
  BY <1>1 DEF Range

\* Who sends: a client on its lease, or the manager on a channel that no
\* client will ever use (a handshake) or that has left the records.
LEMMA SenderFacts ==
    ASSUME LeaseInv, AsksFor, LeasesBegun, NEW t \in Threads, thr[t].pc \in TransactionLabels
    PROVE  /\ thr[t].chan \in Channels /\ thr[t].req \in Requests /\ thr[t].chan \in References(t)
           /\ thr[t].req.by = "manager" \/ thr[t].req.by = "client"
           /\ thr[t].req.kind = "Shutdown" => thr[t].req.by = "manager"
           /\ thr[t].req.by = "client" =>
                 thr[t].ret \in LeaseLabels /\ thr[t].lease = thr[t].chan /\ thr[t].spawned = NoChannel /\ t \in Graphs
           /\ thr[t].req.kind = "ConfigHandshake" =>
                 thr[t].spawned = thr[t].chan /\ ~InUse(thr[t].chan) /\ \A g \in Threads : thr[g].lease # thr[t].chan
           /\ thr[t].req.by = "manager" => ~Recorded(thr[t].chan)
           /\ thr[t].req.by = "manager" => thr[t].req.kind \in {"Shutdown", "ConfigHandshake"}
           /\ thr[t].req.kind \in SessionKinds => thr[t].req.by = "client" /\ thr[t].req.graph = t
<1>1. /\ thr[t] \in ThreadStates /\ thr[t].chan \in Channels /\ thr[t].chan \in References(t)
      /\ thr[t].ret \in Returns /\ Transacting(thr[t]) /\ Place(thr[t]) = thr[t].ret
      /\ Handshaking(thr[t]) \/ OnLease(thr[t]) \/ RetiringWorkers(t, thr[t])
  BY OutlineFacts DEF Transacting, Place
<1>2. /\ thr[t].req \in Requests
      /\ thr[t].req.by = IF thr[t].ret \in LeaseLabels THEN "client" ELSE "manager"
      /\ thr[t].ret = "close" <=> thr[t].req.kind = "Shutdown"
  BY <1>1 DEF LeaseInv, RequestsDiffer, Asks
<1>3. AsksAbout(t, thr[t])
  BY DEF AsksFor
<1>4. "close" \notin LeaseLabels /\ "handshaken" \notin LeaseLabels /\ {"startAnswered", "stopAnswered"} \subseteq LeaseLabels
      /\ LeaseLabels \cap TeardownLabels = {}
  BY DEF LeaseLabels, TeardownLabels
<1>5. CASE thr[t].ret = "handshaken"
  <2>1. Handshaking(thr[t])
    BY <1>1, <1>4, <1>5 DEF OnLease, RetiringWorkers, TeardownLabels
  <2>2. thr[t].spawned = thr[t].chan /\ thr[t].spawned # NoChannel /\ thr[t].lease = NoChannel
    BY <1>1, <2>1 DEF Handshaking, HoldsOnly
  <2>3. RecordOf(thr[t].chan) = {} /\ \A u \in Threads \ {t} : thr[t].chan \notin References(u)
    BY <2>2 DEF LeaseInv, SpawnedAlone
  <2>4. \A g \in Threads : thr[g].lease # thr[t].chan
    BY <2>2, <2>3 DEF References
  <2>5. ~InUse(thr[t].chan) /\ ~Recorded(thr[t].chan)
    BY <2>3, <2>4 DEF InUse, Recorded, Leased, Threads
  <2> QED
    BY <1>1, <1>2, <1>3, <1>4, <1>5, <2>2, <2>4, <2>5 DEF AsksAbout, SessionKinds
<1>6. CASE thr[t].ret = "close"
  <2>1. RetiringWorkers(t, thr[t])
    BY <1>1, <1>4, <1>6 DEF OnLease, Handshaking, TeardownLabels
  <2>2. thr[t].retire \in Seq(Channels) /\ thr[t].retire # << >> /\ thr[t].chan = Head(thr[t].retire)
    BY <1>1, <2>1 DEF RetiringWorkers, ThreadStates
  <2>3. thr[t].chan \in Range(thr[t].retire)
    BY <2>2, HeadTailProperties DEF Range
  <2>4. ~Recorded(thr[t].chan)
    BY <2>3 DEF LeaseInv, RetiredUnrecorded, Recorded
  <2> QED
    BY <1>1, <1>2, <1>3, <1>4, <1>6, <2>4 DEF AsksAbout, SessionKinds
<1>7. CASE thr[t].ret \in LeaseLabels
  <2>1. OnLease(thr[t])
    BY <1>1, <1>4, <1>7 DEF Handshaking, RetiringWorkers, TeardownLabels
  <2>2. thr[t].lease = thr[t].chan /\ thr[t].spawned = NoChannel /\ thr[t].lease # NoChannel
    BY <1>1, <2>1 DEF OnLease, HoldsOnly
  <2>3. t \in Graphs
    BY <2>2 DEF LeasesBegun, LeaseBegun
  <2> QED
    BY <1>1, <1>2, <1>3, <1>4, <1>7, <2>2, <2>3 DEF AsksAbout, SessionKinds
<1> QED
  BY <1>1, <1>5, <1>6, <1>7 DEF Returns

LEMMA RequestsArrive ==
    ASSUME LeaseInv, AsksFor, LeasesBegun, NEW t \in Threads, NEW c \in Channels, Continues(t, c)
    PROVE  \A r \in Range(toWorker'[c]) : r \in Range(toWorker[c]) \/ (r = thr[t].req /\ Sent(t, c))
<1>1. CASE toWorker'[c] = toWorker[c]
  BY <1>1
<1>2. CASE Sent(t, c)
  <2>1. thr[t].req \in Requests /\ toWorker[c] \in Seq(Requests)
    BY <1>2, SenderFacts DEF Sent, TransactionLabels, LeaseInv, Types
  <2> QED
    BY <1>2, <2>1, AppendRange DEF Sent
<1> QED
  BY <1>1, <1>2 DEF Continues

\* The channels that the other threads refer to.
LEMMA OthersHold ==
    ASSUME LeaseInv, NEW t \in Threads, NEW next, Serves(t, next), NEW u \in Threads \ {t},
           NEW c \in Channels, c \in References(u)
    PROVE  Fades(c) /\ (Continues(t, c) \/ GivenUp(c)) /\ ~Opened(t, c)
<1>1. ~Opened(t, c)
  BY DEF Opened, LeaseInv, SpawnedAlone
<1>2. Fades(c)
  BY DEF Serves, Turn, ChannelsFade
<1> QED
  BY <1>1, <1>2 DEF Serves, ChannelsServe

LEMMA LeasesKept ==
    ASSUME LeaseInv, AsksFor, LeasesBegun, HandshakesEmpty, NEW t \in Threads, NEW next, Serves(t, next)
    PROVE  AsksFor' /\ LeasesBegun' /\ HandshakesEmpty'
<1>1. /\ thr'[t] = next /\ \A u \in Threads \ {t} : thr'[u] = thr[u]
      /\ thr \in [Threads -> ThreadStates]
  BY DEF Serves, LeaseInv, Types
<1>2. AsksFor'
  BY <1>1 DEF AsksFor, Serves, OwnServes, AsksAbout, Transacting
<1>3. LeasesBegun'
  <2> SUFFICES ASSUME NEW u \in Threads, NEW th, th = thr'[u] PROVE LeaseBegun(u, th)'
    BY DEF LeasesBegun
  <2>1. CASE u = t
    BY <1>1, <2>1 DEF Serves, OwnServes, OwnLease
  <2>2. CASE u # t /\ th.lease # NoChannel
    <3>1. th = thr[u] /\ th.lease \in Channels /\ th.lease \in References(u)
      BY <1>1, <2>2 DEF ThreadStates, References
    <3>2. LeaseBegun(u, th)
      BY <3>1 DEF LeasesBegun
    <3>3. Fades(th.lease)
      BY <2>2, <3>1, OthersHold
    <3> QED
      BY <2>2, <3>2, <3>3 DEF Fades, LeaseBegun
  <2> QED
    BY <2>1, <2>2 DEF LeaseBegun
<1>4. HandshakesEmpty'
  <2> SUFFICES ASSUME NEW u \in Threads, NEW th, th = thr'[u], NEW c, c = thr'[u].spawned, c # NoChannel
               PROVE  HandshakeOf(th, c)'
    BY DEF HandshakesEmpty
  <2>1. CASE u = t
    BY <1>1, <2>1 DEF Serves, OwnServes
  <2>2. CASE u # t
    <3>1. th = thr[u] /\ c = thr[u].spawned /\ c \in Channels
      BY <1>1, <2>2 DEF ThreadStates
    <3>2. HandshakeOf(th, c) /\ c \notin References(t)
      BY <2>2, <3>1 DEF HandshakesEmpty, LeaseInv, SpawnedAlone
    <3>3. chan'[c] = chan[c] /\ proc'[c] = proc[c] /\ toWorker'[c] = toWorker[c] /\ toClient'[c] = toClient[c]
      BY <3>1, <3>2 DEF Serves, Untouched
    <3> QED
      BY <3>2, <3>3 DEF HandshakeOf, Open, Answers
  <2> QED
    BY <2>1, <2>2
<1> QED
  BY <1>2, <1>3, <1>4

LEMMA ManagerKept ==
    ASSUME LeaseInv, ServeInv, NEW t \in Threads, NEW next, Serves(t, next)
    PROVE  ManagerSilent'
<1> SUFFICES ASSUME NEW c \in Channels, InUse(c)'
             PROVE  /\ \A r \in Range(toWorker'[c]) : r.by = "manager" => r.kind = "Shutdown" /\ ~Recorded(c)'
                    /\ \A r \in Range(toWorker'[c]) : r.kind = "Shutdown" => r.by = "manager"
                    /\ \A e \in Answers(c)' : e.by = "client"
  BY DEF ManagerSilent
<1>1. CASE Opened(t, c)
  BY <1>1 DEF Opened, Answers, Range
<1>2. CASE InUse(c) /\ Continues(t, c)
  <2>1. Answers(c)' \subseteq Answers(c)
    BY <1>2 DEF Continues, Answers
  <2>2. ASSUME NEW r \in Range(toWorker'[c])
        PROVE  /\ r.by = "manager" => r.kind = "Shutdown" /\ ~Recorded(c)'
               /\ r.kind = "Shutdown" => r.by = "manager"
    <3>1. CASE r \in Range(toWorker[c])
      BY <1>2, <3>1 DEF ServeInv, ManagerSilent, Continues
    <3>2. CASE r = thr[t].req /\ Sent(t, c)
      <4>1. thr[t].pc \in TransactionLabels /\ thr[t].chan = c
        BY <3>2 DEF Sent, TransactionLabels
      <4> QED
        BY <1>2, <3>2, <4>1, SenderFacts DEF ServeInv, Continues
    <3> QED
      BY <1>2, <3>1, <3>2, RequestsArrive DEF ServeInv
  <2> QED
    BY <1>2, <2>1, <2>2 DEF ServeInv, ManagerSilent
<1> QED
  BY <1>1, <1>2, UseKept

LEMMA IdsKept ==
    ASSUME LeaseInv, ServeInv, NEW t \in Threads, NEW next, Serves(t, next)
    PROVE  IdsOnce'
<1>1. /\ thr'[t] = next /\ \A u \in Threads \ {t} : thr'[u] = thr[u]
      /\ thr \in [Threads -> ThreadStates] /\ toWorker \in [Channels -> Seq(Requests)]
  BY DEF Serves, LeaseInv, Types
\* What is sent on a channel in use has an id of its own.
<1>2. ASSUME NEW c \in Channels, InUse(c), Sent(t, c), thr[t].req.by = "client"
      PROVE  \A x \in Range(toWorker[c]) \cup Answers(c) : x.by = "client" => x.id # thr[t].req.id
  BY <1>2 DEF ServeInv, IdsOnce, OwnId, Sent, Transacting, TransactionLabels
<1>3. ASSUME NEW c \in Channels, InUse(c)'
      PROVE  /\ \A i, j \in DOMAIN toWorker'[c] :
                  (toWorker'[c][i].by = "client" /\ toWorker'[c][j].by = "client"
                     /\ toWorker'[c][i].id = toWorker'[c][j].id) => i = j
             /\ \A r \in Range(toWorker'[c]), e \in Answers(c)' : r.by = "client" => r.id # e.id
  <2>1. CASE Opened(t, c)
    BY <2>1 DEF Opened, Answers, Range
  <2>2. CASE InUse(c) /\ Continues(t, c)
    <3>1. \A i, j \in DOMAIN toWorker[c] :
              (toWorker[c][i].by = "client" /\ toWorker[c][j].by = "client"
                 /\ toWorker[c][i].id = toWorker[c][j].id) => i = j
      BY <2>2 DEF ServeInv, IdsOnce
    <3>2. \A r \in Range(toWorker[c]), e \in Answers(c) : r.by = "client" => r.id # e.id
      BY <2>2 DEF ServeInv, IdsOnce
    <3>3. Answers(c)' \subseteq Answers(c) /\ \A e \in Answers(c) : e.by = "client"
      BY <2>2 DEF Continues, Answers, ServeInv, ManagerSilent
    <3>4. CASE toWorker'[c] = toWorker[c]
      BY <3>1, <3>2, <3>3, <3>4
    <3>5. CASE Sent(t, c)
      <4> DEFINE q == thr[t].req
      <4> DEFINE s == toWorker[c]
      <4>1. q \in Requests /\ s \in Seq(Requests) /\ toWorker'[c] = Append(s, q)
        BY <1>1, <3>5, SenderFacts DEF Sent, TransactionLabels, ServeInv
      <4>2. /\ Range(Append(s, q)) = Range(s) \cup {q}
            /\ Append(s, q)[Len(s) + 1] = q
            /\ \A i \in DOMAIN s : Append(s, q)[i] = s[i]
            /\ \A i \in DOMAIN Append(s, q) : i \in DOMAIN s \/ i = Len(s) + 1
        BY <4>1, AppendRange
      <4>3. \A i \in DOMAIN s : s[i] \in Range(s)
        BY DEF Range
      <4>4. q.by = "client" => \A x \in Range(s) \cup Answers(c) : x.by = "client" => x.id # q.id
        BY <1>2, <2>2, <3>5
      <4> HIDE DEF q, s
      <4>5. ASSUME NEW i \in DOMAIN toWorker'[c], NEW j \in DOMAIN toWorker'[c],
                   toWorker'[c][i].by = "client", toWorker'[c][j].by = "client", toWorker'[c][i].id = toWorker'[c][j].id
            PROVE  i = j
        <5>1. CASE i \in DOMAIN s /\ j \in DOMAIN s
          BY <3>1, <4>1, <4>2, <4>5, <5>1 DEF s
        <5>2. CASE i = Len(s) + 1 /\ j \in DOMAIN s
          BY <4>1, <4>2, <4>3, <4>4, <4>5, <5>2
        <5>3. CASE i \in DOMAIN s /\ j = Len(s) + 1
          BY <4>1, <4>2, <4>3, <4>4, <4>5, <5>3
        <5> QED
          BY <4>1, <4>2, <5>1, <5>2, <5>3
      <4>6. ASSUME NEW r \in Range(toWorker'[c]), NEW e \in Answers(c)', r.by = "client" PROVE r.id # e.id
        <5>1. CASE r \in Range(s)
          BY <3>2, <3>3, <4>6, <5>1 DEF s
        <5>2. CASE r = q
          BY <3>3, <4>4, <4>6, <5>2
        <5> QED
          BY <4>1, <4>2, <5>1, <5>2
      <4> QED
        BY <4>5, <4>6
    <3> QED
      BY <2>2, <3>4, <3>5 DEF Continues
  <2> QED
    BY <1>3, <2>1, <2>2, UseKept
<1>4. ASSUME NEW u \in Threads, NEW th, th = thr'[u] PROVE OwnId(th)'
  <2>1. CASE u = t
    BY <1>1, <1>4, <2>1 DEF Serves, OwnServes
  <2>2. CASE u # t
    <3> SUFFICES ASSUME Transacting(th), th.req.by = "client", NEW c, c = th.chan, InUse(c)'
                 PROVE  /\ \A r \in Range(toWorker'[c]) :
                             (r.by = "client" /\ r.id = th.req.id) => th.pc = "wait" /\ r = th.req
                        /\ th.pc # "wait" => \A e \in Answers(c)' : e.id # th.req.id
      BY DEF OwnId, Transacting
    <3>1. th = thr[u] /\ thr[u].pc \in TransactionLabels
      BY <1>1, <1>4, <2>2 DEF Transacting
    <3>2. c \in Channels /\ c \in References(u)
      BY <3>1, OutlineFacts
    <3>3. InUse(c) /\ Continues(t, c)
      BY <2>2, <3>2, UseKept, OthersHold
    <3>4. OwnId(th)
      BY <3>1 DEF ServeInv, IdsOnce
    <3>5. Answers(c)' \subseteq Answers(c)
      BY <3>3 DEF Continues, Answers
    <3>6. thr[t].req.by = "client" /\ Sent(t, c) => thr[t].req.id # th.req.id
      BY <2>2, <3>1 DEF LeaseInv, RequestsDiffer, Asks, Sent, TransactionLabels, Transacting
    <3>7. \A r \in Range(toWorker'[c]) : r \in Range(toWorker[c]) \/ (r = thr[t].req /\ Sent(t, c))
      BY <3>2, <3>3, RequestsArrive DEF ServeInv
    <3> QED
      BY <3>3, <3>4, <3>5, <3>6, <3>7 DEF OwnId
  <2> QED
    BY <2>1, <2>2
<1> QED
  BY <1>3, <1>4 DEF IdsOnce

LEMMA OwnsKept ==
    ASSUME LeaseInv, LeaseInv', ServeInv, NEW t \in Threads, NEW next, Serves(t, next)
    PROVE  OwnRequests' /\ NoOrphans'
<1>1. thr'[t] = next /\ \A u \in Threads \ {t} : thr'[u] = thr[u]
  BY DEF Serves
<1>2. Graphs \subseteq Threads /\ \A c \in Channels : c # NoChannel
  BY ControlAssumption DEF Threads, NoChannel
<1>3. OwnRequests'
  <2> SUFFICES ASSUME NEW c \in Channels, InUse(c)', NEW r \in Range(toWorker'[c]), r.kind \in SessionKinds
               PROVE  r.graph \in Graphs /\ Owns(thr[r.graph], c, r)'
    BY DEF OwnRequests
  <2>1. CASE Opened(t, c)
    BY <2>1 DEF Opened, Range
  <2>2. CASE InUse(c) /\ Continues(t, c)
    <3>1. r \in Range(toWorker[c]) => r.graph \in Graphs /\ Owns(thr[r.graph], c, r)
      BY <2>2 DEF ServeInv, OwnRequests
    <3>2. r = thr[t].req /\ Sent(t, c) => r.graph = t
      BY SenderFacts DEF Sent, TransactionLabels, ServeInv
    <3>3. CASE r.graph = t
      <4>1. t \in Graphs /\ Owns(next, c, r)'
        BY <3>3 DEF Serves, OwnServes, OwnTraces
      <4> QED
        BY <1>1, <3>3, <4>1 DEF Owns, Down
    <3>4. CASE r.graph # t
      <4>1. r.graph \in Graphs /\ Owns(thr[r.graph], c, r)
        BY <2>2, <3>1, <3>2, <3>4, RequestsArrive DEF ServeInv
      <4>2. c \in References(r.graph) /\ r.graph \in Threads \ {t} /\ thr'[r.graph] = thr[r.graph]
        BY <1>1, <1>2, <3>4, <4>1 DEF Owns, References
      <4>3. Fades(c)
        BY <4>2, OthersHold
      <4>4. Down(c) => Down(c)'
        BY <4>3 DEF Down, Fades
      <4> QED
        BY <4>1, <4>2, <4>4 DEF Owns
    <3> QED
      BY <3>3, <3>4
  <2> QED
    BY <2>1, <2>2, UseKept
<1>4. NoOrphans'
  <2> SUFFICES ASSUME NEW c \in Channels, Recorded(c)', NEW g \in Graphs, g \in proc'[c].graphs
               PROVE  thr'[g].lease = c
    BY DEF LeaseInv, Types, WorkerStates, NoOrphans
  <2>1. CASE g = t
    BY <1>1, <2>1 DEF Serves, OwnServes, OwnTraces
  <2>2. CASE g # t
    <3>1. InUse(c)'
      BY DEF InUse
    <3>2. CASE Opened(t, c)
      BY <3>2 DEF Opened
    <3>3. CASE Continues(t, c)
      BY <1>1, <1>2, <2>2, <3>3 DEF Continues, ServeInv, NoOrphans
    <3> QED
      BY <3>1, <3>2, <3>3, UseKept
  <2> QED
    BY <2>1, <2>2
<1> QED
  BY <1>3, <1>4

\* What a client counts on does not change under it.
LEMMA StandsOn ==
    ASSUME NEW g, NEW th, NEW c, Stands(g, th, c),
           Clean(g, c) => Clean(g, c)', Served(g, c) => Served(g, c)', Registered(g, c) => Registered(g, c)',
           Place(th) \in {"startAnswered", "stopAnswered"} =>
               /\ Answers(c)' \subseteq Answers(c)
               /\ (th.pc = "wait" /\ Place(th) = "startAnswered" /\ th.req \in Range(toWorker'[c]))
                    => th.req \in Range(toWorker[c])
    PROVE  Stands(g, th, c)'
<1>1. CASE Place(th) = "startAnswered"
  BY <1>1 DEF Stands, Starting, StartTells, Place, Transacting
<1>2. CASE Place(th) = "stopAnswered"
  BY <1>2 DEF Stands, Stopping, StopTells, Place, Transacting
<1>3. CASE Place(th) \notin {"startAnswered", "stopAnswered"}
  BY <1>3 DEF Stands, Place, Transacting
<1> QED
  BY <1>1, <1>2, <1>3

LEMMA StandsKept ==
    ASSUME LeaseInv, ServeInv, NEW t \in Threads, NEW next, Serves(t, next)
    PROVE  ClientsStand'
<1> SUFFICES ASSUME NEW g \in Graphs, NEW th, th = thr'[g], NEW c, c = th.lease, c # NoChannel
             PROVE  Stands(g, th, c)'
  BY DEF ClientsStand
<1>1. /\ thr'[t] = next /\ \A u \in Threads \ {t} : thr'[u] = thr[u]
      /\ thr \in [Threads -> ThreadStates] /\ g \in Threads
  BY DEF Serves, LeaseInv, Types, Threads
<1>2. CASE g = t
  BY <1>1, <1>2 DEF Serves, OwnServes, OwnLease
<1>3. CASE g # t
  <2>1. th = thr[g] /\ c \in Channels /\ c \in References(g)
    BY <1>1, <1>3 DEF ThreadStates, References
  <2>2. Stands(g, th, c)
    BY <2>1 DEF ServeInv, ClientsStand
  <2>3. CASE GivenUp(c)
    <3>1. ~Recorded(c)' /\ ~Healthy(c)'
      BY <1>1, <2>3 DEF GivenUp
    <3> QED
      BY <3>1 DEF Stands, Starting, Stopping, StartTells, StopTells, Clean, Served, Serving, Registered
  <2>4. CASE Continues(t, c)
    <3>1. /\ Clean(g, c) => Clean(g, c)'
          /\ Served(g, c) => Served(g, c)'
          /\ Registered(g, c) => Registered(g, c)'
      BY <1>3, <2>4 DEF Continues, Clean, Served, Serving, Registered
    <3>2. Answers(c)' \subseteq Answers(c)
      BY <2>4 DEF Continues, Answers
    <3>3. ASSUME th.pc = "wait", Place(th) = "startAnswered", th.req \in Range(toWorker'[c])
          PROVE  th.req \in Range(toWorker[c])
      <4>1. thr[g].req.kind \in SessionKinds /\ thr[g].req.graph = g
        BY <1>1, <2>1, <3>3 DEF ServeInv, AsksFor, AsksAbout, Transacting, TransactionLabels, Place, SessionKinds
      <4>2. thr[t].req = th.req /\ Sent(t, c) => thr[t].req.graph = t
        BY <2>1, <4>1, SenderFacts DEF Sent, TransactionLabels, ServeInv
      <4> QED
        BY <1>3, <2>1, <2>4, <3>3, <4>1, <4>2, RequestsArrive DEF ServeInv
    <3> QED
      BY <2>2, <3>1, <3>2, <3>3, StandsOn
  <2> QED
    BY <1>1, <1>3, <2>1, <2>3, <2>4, OthersHold
<1> QED
  BY <1>2, <1>3

LEMMA ServeKept ==
    ASSUME LeaseInv, LeaseInv', ServeInv, NEW t \in Threads, NEW next, Serves(t, next), AnswersRead'
    PROVE  ServeInv'
BY LeasesKept, ManagerKept, IdsKept, OwnsKept, StandsKept DEF ServeInv

\* The legs of a transaction or a teardown.
LEMMA LegServes ==
    ASSUME LeaseInv, ServeInv, NEW t \in Threads, NEW next, next = thr'[t], Turn(t), UNCHANGED workers,
           thr[t].pc \in TransactionLabels \cup TeardownLabels, SameLocals(next, thr[t]),
           NEW c \in Channels, c = thr[t].chan,
           \A d \in Channels \ {c} : /\ chan'[d] = chan[d] /\ proc'[d] = proc[d]
                                     /\ toWorker'[d] = toWorker[d] /\ toClient'[d] = toClient[d],
           Continues(t, c) \/ GivenUp(c),
           AsksAbout(t, next), OwnId(next)',
           next.lease # NoChannel => Begun(next.lease)' /\ Stands(t, next, next.lease)',
           \A r \in Range(toWorker'[c]) :
               (InUse(c)' /\ r.kind \in SessionKinds /\ r.graph = t) => t \in Graphs /\ Owns(next, c, r)',
           next.spawned # NoChannel => HandshakeOf(next, next.spawned)'
    PROVE  Serves(t, next)
<1>1. \A u \in Threads \ {t} : thr'[u] = thr[u]
  BY TurnFacts DEF Turn
<1>2. c \in References(t)
  BY OutlineFacts
<1>3. Untouched(t)
  BY <1>2 DEF Untouched
<1>4. \A d \in Channels \ {c} : Continues(t, d)
  BY DEF Continues, Healthy, Recorded, RecordOf
<1>5. ChannelsServe(t)
  BY <1>4 DEF ChannelsServe
<1>6. OwnLease(t, next)
  <2>1. next.lease = thr[t].lease /\ next.retire = thr[t].retire /\ next.after = thr[t].after
    BY DEF SameLocals
  <2>2. LeaseBegun(t, thr[t])
    BY DEF ServeInv, LeasesBegun
  <2> QED
    BY <2>1, <2>2 DEF OwnLease, LeaseBegun
<1>7. OwnTraces(t, next)
  <2> SUFFICES ASSUME NEW d \in Channels
               PROVE  /\ InUse(d)' => \A r \in Range(toWorker'[d]) :
                                    (r.kind \in SessionKinds /\ r.graph = t) => t \in Graphs /\ Owns(next, d, r)'
                      /\ (Recorded(d)' /\ t \in Graphs /\ t \in proc'[d].graphs) => next.lease = d
    BY DEF OwnTraces
  <2>1. ASSUME Recorded(d)', t \in Graphs, t \in proc'[d].graphs PROVE next.lease = d
    <3>1. Continues(t, d)
      BY <1>4, <2>1 DEF GivenUp
    <3> QED
      BY <2>1, <3>1 DEF Continues, ServeInv, NoOrphans, SameLocals
  <2>2. ASSUME d # c, InUse(d)', NEW r \in Range(toWorker'[d]), r.kind \in SessionKinds, r.graph = t PROVE FALSE
    <3>1. InUse(d)
      <4>1. \A g \in Graphs : thr'[g].lease = thr[g].lease
        BY <1>1 DEF SameLocals, Threads
      <4> QED
        BY <2>2, <4>1 DEF InUse, Recorded, RecordOf, Serving, Healthy, Leased
    <3>2. Owns(thr[t], d, r)
      BY <2>2, <3>1 DEF ServeInv, OwnRequests
    <3>3. thr[t].pc \notin {"startAnswered", "stopAnswered"}
      BY DEF TransactionLabels, TeardownLabels
    <3>4. thr[t].pc = "wait" /\ thr[t].req = r /\ thr[t].lease = d
      BY <3>2, <3>3 DEF Owns
    <3>5. thr[t].lease = thr[t].chan
      <4>1. thr[t].pc \in TransactionLabels /\ thr[t].req.by = "client"
        BY <2>2, <3>4, SenderFacts DEF TransactionLabels, ServeInv
      <4> QED
        BY <4>1, SenderFacts DEF ServeInv
    <3> QED
      BY <2>2, <3>4, <3>5
  <2> QED
    BY <2>1, <2>2
<1> QED
  BY <1>1, <1>3, <1>5, <1>6, <1>7 DEF Serves, OwnServes

\* The place of a transaction is the one it returns to.
LEMMA PlaceKept ==
    ASSUME LeaseInv, NEW t \in Threads, thr[t].pc \in TransactionLabels, NEW next, SameLocals(next, thr[t]),
           next.pc = thr[t].ret \/ (next.pc \in TransactionLabels /\ next.ret = thr[t].ret)
    PROVE  Place(next) = Place(thr[t]) /\ Place(thr[t]) = thr[t].ret /\ (thr[t].ret \notin TransactionLabels)
<1>1. thr[t].ret \in Returns
  BY OutlineFacts
<1>2. \A l \in Returns : l \notin TransactionLabels
  BY DEF Returns, LeaseLabels, TransactionLabels
<1> QED
  BY <1>1, <1>2 DEF Place, Transacting

\* A channel that goes on.
LEMMA GoesOn ==
    ASSUME NEW t, NEW g, NEW c, Continues(t, c), g # t \/ chan[c].handlers \subseteq chan'[c].handlers
    PROVE  /\ Clean(g, c) => Clean(g, c)'
           /\ Served(g, c) => Served(g, c)'
           /\ Registered(g, c) => Registered(g, c)'
           /\ Answers(c)' \subseteq Answers(c)
           /\ \A ev : StartTells(g, c, ev) => StartTells(g, c, ev)'
           /\ \A ev : StopTells(g, c, ev) => StopTells(g, c, ev)'
<1>1. /\ Clean(g, c) => Clean(g, c)'
      /\ Served(g, c) => Served(g, c)'
      /\ Registered(g, c) => Registered(g, c)'
      /\ Answers(c)' \subseteq Answers(c)
  BY DEF Continues, Clean, Served, Serving, Registered, Answers
<1>2. /\ \A ev : StartTells(g, c, ev) => StartTells(g, c, ev)'
      /\ \A ev : StopTells(g, c, ev) => StopTells(g, c, ev)'
  BY <1>1 DEF StartTells, StopTells
<1> QED
  BY <1>1, <1>2

LEMMA FailureServes ==
    ASSUME LeaseInv, ServeInv, NEW t \in Threads, NEW next, next = thr'[t], Turn(t), UNCHANGED workers,
           thr[t].pc \in TransactionLabels, Return(t, Failed), UNCHANGED <<toWorker, toClient, proc>>,
           NEW c \in Channels, c = thr[t].chan,
           chan' = chan \/ chan' = [chan EXCEPT ![c] = MarkedFailed(chan[c])],
           thr[t].ret \in LeaseLabels => Down(c)'
    PROVE  Serves(t, next) /\ AnswersRead'
<1>1. /\ next.pc = thr[t].ret /\ next.resp = Failed /\ SameLocals(next, thr[t])
      /\ next.pc \notin TransactionLabels \cup {"join", "terminate"}
  BY ReturnFacts, NewThreadTyped
<1>2. chan \in [Channels -> ChannelStates] /\ \A u \in Threads \ {t} : thr'[u] = thr[u]
  BY TurnFacts DEF LeaseInv, Types, Turn
<1>3. \A d \in Channels \ {c} : /\ chan'[d] = chan[d] /\ proc'[d] = proc[d]
                                /\ toWorker'[d] = toWorker[d] /\ toClient'[d] = toClient[d]
  BY <1>2
<1>4. /\ chan'[c].responses = chan[c].responses /\ chan'[c].handlers = chan[c].handlers
      /\ chan'[c].reader = chan[c].reader /\ chan'[c].fd = chan[c].fd /\ chan'[c].pid = chan[c].pid
      /\ chan'[c].shutdown = chan[c].shutdown /\ (chan[c].failed => chan'[c].failed)
  BY <1>2 DEF MarkedFailed, ChannelStates
<1>5. \A d \in Channels : Continues(t, d) /\ chan[d].handlers \subseteq chan'[d].handlers
  BY <1>3, <1>4 DEF Continues, Healthy, Recorded, RecordOf
<1>6. AsksAbout(t, next) /\ OwnId(next)'
  BY <1>1 DEF AsksAbout, OwnId, Transacting
<1>7. ASSUME next.lease # NoChannel PROVE Begun(next.lease)' /\ Stands(t, next, next.lease)'
  <2>1. PICK d \in Channels : d = next.lease /\ d = thr[t].lease
    <3>1. thr[t] \in ThreadStates
      BY DEF LeaseInv, Types
    <3> QED
      BY <1>1, <1>7, <3>1 DEF SameLocals, ThreadStates
  <2>2. Begun(d) /\ Stands(t, thr[t], d)
    BY <1>7, <2>1 DEF ServeInv, LeasesBegun, LeaseBegun, ClientsStand
  <2>3. Begun(d)'
    BY <1>3, <1>4, <2>2 DEF Begun, WorkerStarted
  <2>4. /\ Clean(t, d) => Clean(t, d)'
        /\ Served(t, d) => Served(t, d)'
        /\ Registered(t, d) => Registered(t, d)'
    BY <1>5, GoesOn
  <2>5. Place(next) = Place(thr[t]) /\ Place(next) = next.pc /\ next.running = thr[t].running
    BY <1>1, PlaceKept DEF SameLocals
  <2>6. Failed.kind \notin {"Started", "Error", "Stopped"}
    BY DEF Failed, NoEvent
  <2>7. Stands(t, next, d)'
    <3>1. CASE next.pc = "startAnswered"
      <4>1. Registered(t, d)'
        BY <2>2, <2>4, <2>5, <3>1 DEF Stands, Starting
      <4>2. Starting(t, next, d)'
        BY <1>1, <2>6, <3>1, <4>1 DEF Starting, StartTells
      <4> QED
        BY <2>5, <3>1, <4>2 DEF Stands, Place, Transacting
    <3>2. CASE next.pc = "stopAnswered"
      <4>1. Stopping(t, next, d)'
        BY <1>1, <2>6, <3>2 DEF Stopping, StopTells
      <4> QED
        BY <2>5, <3>2, <4>1 DEF Stands, Place, Transacting
    <3>3. CASE next.pc \notin {"startAnswered", "stopAnswered"}
      <4>1. IF next.running THEN Served(t, d) /\ Registered(t, d) ELSE Clean(t, d)
        BY <2>2, <2>5, <3>3 DEF Stands
      <4>2. IF next.running THEN Served(t, d)' /\ Registered(t, d)' ELSE Clean(t, d)'
        BY <2>4, <4>1
      <4> HIDE DEF Served, Registered, Clean
      <4> QED
        BY <2>5, <3>3, <4>2 DEF Stands
    <3> QED
      BY <3>1, <3>2, <3>3
  <2> QED
    BY <2>1, <2>3, <2>7
<1>8. ASSUME NEW r \in Range(toWorker'[c]), InUse(c)', r.kind \in SessionKinds, r.graph = t
      PROVE  t \in Graphs /\ Owns(next, c, r)'
  <2>1. InUse(c)
    <3>1. \A g \in Graphs : thr'[g].lease = thr[g].lease
      BY <1>1, <1>2 DEF SameLocals, Threads
    <3> QED
      BY <1>5, <1>8, <3>1 DEF InUse, Continues, Serving, Leased
  <2>2. t \in Graphs /\ Owns(thr[t], c, r)
    BY <1>8, <2>1 DEF ServeInv, OwnRequests
  <2>3. thr[t].pc \notin {"startAnswered", "stopAnswered"}
    BY DEF TransactionLabels
  <2>4. thr[t].req = r /\ thr[t].lease = c
    BY <2>2, <2>3 DEF Owns
  <2>5. thr[t].ret \in {"startAnswered", "stopAnswered"}
    BY <1>8, <2>4 DEF ServeInv, AsksFor, AsksAbout, Transacting, SessionKinds
  <2>6. Down(c)'
    BY <2>5 DEF LeaseLabels
  <2> QED
    BY <1>1, <2>2, <2>4, <2>5, <2>6 DEF Owns, SameLocals
<1>9. next.spawned # NoChannel => HandshakeOf(next, next.spawned)'
  <2>1. next.pc \notin {"ensure", "start", "wait"} /\ next.resp.kind # "Health"
    BY <1>1 DEF TransactionLabels, Failed, NoEvent
  <2> QED
    BY <2>1 DEF HandshakeOf
<1>10. Serves(t, next)
  BY <1>1, <1>3, <1>5, <1>6, <1>7, <1>8, <1>9, LegServes
<1>11. AnswersRead'
  <2> SUFFICES ASSUME NEW d \in Channels
               PROVE  \/ chan'[d].reader # "none" \/ chan'[d].responses = {}
                      \/ \E u \in Threads : thr'[u].pc = "terminate" /\ thr'[u].chan = d
    BY DEF AnswersRead, HasReader
  <2>1. \/ chan[d].reader # "none" \/ chan[d].responses = {}
        \/ \E u \in Threads : thr[u].pc = "terminate" /\ thr[u].chan = d
    BY DEF ServeInv, AnswersRead, HasReader
  <2>2. thr[t].pc # "terminate"
    BY DEF TransactionLabels
  <2> QED
    BY <1>2, <1>3, <1>4, <2>1, <2>2
<1> QED
  BY <1>10, <1>11

\* Answers stay where they are read, or are about to be cleared.
LEMMA AnswersStay ==
    ASSUME ServeInv, NEW t \in Threads, \A u \in Threads \ {t} : thr'[u] = thr[u],
           \A d \in Channels : /\ chan'[d].responses \subseteq chan[d].responses
                               /\ HasReader(d) => chan'[d].reader # "none" \/ (thr'[t].pc = "terminate" /\ thr'[t].chan = d)
                               /\ (thr[t].pc = "terminate" /\ thr[t].chan = d) => chan'[d].responses = {}
    PROVE  AnswersRead'
<1> SUFFICES ASSUME NEW d \in Channels
             PROVE  \/ chan'[d].reader # "none" \/ chan'[d].responses = {}
                    \/ \E u \in Threads : thr'[u].pc = "terminate" /\ thr'[u].chan = d
  BY DEF AnswersRead, HasReader
<1>1. \/ HasReader(d) \/ chan[d].responses = {}
      \/ \E u \in Threads : thr[u].pc = "terminate" /\ thr[u].chan = d
  BY DEF ServeInv, AnswersRead
<1> QED
  BY <1>1

\* What a thread in a transaction has about its graph in the sockets.
LEMMA OwnOnTheWay ==
    ASSUME LeaseInv, ServeInv, NEW t \in Threads, thr[t].pc \in TransactionLabels \cup TeardownLabels,
           NEW c \in Channels, InUse(c), NEW r \in Range(toWorker[c]), r.kind \in SessionKinds, r.graph = t
    PROVE  t \in Graphs /\ thr[t].pc = "wait" /\ thr[t].req = r /\ thr[t].lease = c
<1>1. t \in Graphs /\ Owns(thr[t], c, r)
  BY DEF ServeInv, OwnRequests
<1>2. thr[t].pc \notin {"startAnswered", "stopAnswered"}
  BY DEF TransactionLabels, TeardownLabels
<1> QED
  BY <1>1, <1>2 DEF Owns

LEMMA InUseSame ==
    ASSUME NEW c \in Channels, InUse(c)', UNCHANGED workers, Healthy(c)' => Healthy(c), proc'[c].alive => proc[c].alive,
           \A g \in Graphs : thr'[g].lease = thr[g].lease
    PROVE  InUse(c)
BY DEF InUse, Recorded, RecordOf, Serving, Leased

LEMMA EnsureServes ==
    ASSUME LeaseInv, ServeInv, NEW t \in Threads, NEW next, next = thr'[t], Turn(t), UNCHANGED workers, EnsureChecked(t)
    PROVE  Serves(t, next) /\ AnswersRead'
<1>1. thr[t].pc = "ensure" /\ thr[t].pc \in TransactionLabels /\ UNCHANGED <<chan, toWorker, toClient, proc>>
  BY DEF EnsureChecked, TransactionLabels
<1>2. PICK c \in Channels : c = thr[t].chan
  BY <1>1, OutlineFacts
<1>3. CASE Return(t, Failed) /\ Down(c)
  <2>1. Down(c)'
    BY <1>1, <1>3 DEF Down
  <2> QED
    BY <1>1, <1>2, <1>3, <2>1, FailureServes
<1>4. CASE thr' = [thr EXCEPT ![t].pc = "start"]
  <2>1. thr \in [Threads -> ThreadStates]
    BY DEF LeaseInv, Types
  <2>2. /\ next.pc = "start" /\ next.req = thr[t].req /\ next.ret = thr[t].ret /\ SameLocals(next, thr[t])
        /\ \A u \in Threads \ {t} : thr'[u] = thr[u]
    BY <1>4, <2>1 DEF ThreadStates, SameLocals
  <2>3. Transacting(next) /\ Transacting(thr[t]) /\ next.chan = thr[t].chan /\ next.lease = thr[t].lease
        /\ next.spawned = thr[t].spawned /\ next.running = thr[t].running
    BY <1>1, <2>2 DEF Transacting, TransactionLabels, SameLocals
  <2>4. Continues(t, c)
    BY <1>1 DEF Continues, Healthy, Recorded, RecordOf
  <2>5. AsksAbout(t, next)
    BY <2>2, <2>3 DEF ServeInv, AsksFor, AsksAbout
  <2>6. \A d \in Channels : InUse(d)' => InUse(d)
    <3>1. \A g \in Graphs : thr'[g].lease = thr[g].lease
      BY <2>2, <2>3 DEF Threads
    <3> QED
      BY <1>1, <3>1, InUseSame DEF Healthy
  <2>7. OwnId(next)'
    <3>1. OwnId(thr[t])
      BY DEF ServeInv, IdsOnce
    <3> QED
      BY <1>1, <1>2, <2>2, <2>3, <2>6, <3>1 DEF OwnId, Answers
  <2>8. next.lease # NoChannel => Begun(next.lease)' /\ Stands(t, next, next.lease)'
    <3>1. thr[t].lease # NoChannel => Begun(thr[t].lease) /\ Stands(t, thr[t], thr[t].lease)
      BY DEF ServeInv, LeasesBegun, LeaseBegun, ClientsStand
    <3>2. Place(next) = Place(thr[t])
      BY <2>2, <2>3 DEF Place
    <3>3. ASSUME NEW d, Stands(t, thr[t], d) PROVE Stands(t, next, d)'
      <4>1. Stands(t, next, d)
        BY <1>1, <2>2, <2>3, <3>2, <3>3 DEF Stands, Starting, Stopping
      <4> QED
        BY <1>1, <4>1 DEF Stands, Starting, Stopping, StartTells, StopTells, Clean, Served, Serving, Registered,
           Answers, Healthy, Recorded, RecordOf, Place, Transacting
    <3>4. \A d : Begun(d) => Begun(d)'
      BY <1>1 DEF Begun, WorkerStarted
    <3> QED
      BY <2>3, <3>1, <3>3, <3>4
  <2>9. ASSUME NEW r \in Range(toWorker'[c]), InUse(c)', r.kind \in SessionKinds, r.graph = t PROVE FALSE
    BY <1>1, <2>6, <2>9, OwnOnTheWay
  <2>10. next.spawned # NoChannel => HandshakeOf(next, next.spawned)'
    <3>1. next.spawned # NoChannel => HandshakeOf(thr[t], next.spawned)
      BY <2>3 DEF ServeInv, HandshakesEmpty
    <3> QED
      BY <1>1, <2>2, <3>1 DEF HandshakeOf, Open
  <2>11. Serves(t, next)
    BY <1>1, <1>2, <2>2, <2>4, <2>5, <2>7, <2>8, <2>9, <2>10, LegServes
  <2>12. AnswersRead'
    BY <1>1, <2>2, AnswersStay DEF HasReader
  <2> QED
    BY <2>11, <2>12
<1> QED
  BY <1>2, <1>3, <1>4 DEF EnsureChecked, Down

\* What a transaction's thread holds, by what it is about.
LEMMA LegHolds ==
    ASSUME LeaseInv, ServeInv, NEW t \in Threads, thr[t].pc \in TransactionLabels
    PROVE  /\ thr[t].spawned # NoChannel => thr[t].spawned = thr[t].chan /\ thr[t].lease = NoChannel
           /\ Place(thr[t]) \in {"startAnswered", "stopAnswered"} => thr[t].lease = thr[t].chan
           /\ thr[t].ret = "handshaken" => thr[t].spawned = thr[t].chan
<1>1. /\ Handshaking(thr[t]) \/ OnLease(thr[t]) \/ RetiringWorkers(t, thr[t])
      /\ Transacting(thr[t])
  BY OutlineFacts DEF Transacting
<1>2. /\ "startAnswered" \notin TeardownLabels \cup {"handshaken"}
      /\ "stopAnswered" \notin TeardownLabels \cup {"handshaken"}
      /\ "handshaken" \notin LeaseLabels \cup TeardownLabels
  BY DEF TeardownLabels, LeaseLabels
<1> QED
  BY <1>1, <1>2 DEF Handshaking, OnLease, RetiringWorkers, HoldsOnly, Place, Transacting

LEMMA SendServes ==
    ASSUME LeaseInv, ServeInv, NEW t \in Threads, NEW next, next = thr'[t], Turn(t), UNCHANGED workers, Send(t)
    PROVE  Serves(t, next) /\ AnswersRead'
<1>1. /\ thr[t].pc = "start" /\ thr[t].pc \in TransactionLabels /\ UNCHANGED <<toClient, proc>>
      /\ WorkerStarted(thr[t].chan)
  BY DEF Send, TransactionLabels
<1>2. PICK c \in Channels : c = thr[t].chan
  BY <1>1, OutlineFacts
<1>3. CASE ~proc[c].alive
  <2>1. Return(t, Failed) /\ chan' = [chan EXCEPT ![c] = MarkedFailed(chan[c])] /\ UNCHANGED toWorker
    BY <1>2, <1>3 DEF Send
  <2>2. Down(c)'
    <3>1. chan \in [Channels -> ChannelStates]
      BY DEF LeaseInv, Types
    <3> QED
      BY <2>1, <3>1 DEF Down, MarkedFailed, ChannelStates
  <2> QED
    BY <1>1, <1>2, <2>1, <2>2, FailureServes
<1>4. CASE proc[c].alive
  <2>1. /\ toWorker' = [toWorker EXCEPT ![c] = Append(toWorker[c], thr[t].req)] /\ chan' = chan
        /\ thr' = [thr EXCEPT ![t].pc = "wait"]
    BY <1>2, <1>4 DEF Send
  <2>2. /\ toWorker \in [Channels -> Seq(Requests)] /\ thr[t].req \in Requests /\ toWorker[c] \in Seq(Requests)
        /\ thr \in [Threads -> ThreadStates]
    BY <1>1 DEF LeaseInv, Types, RequestsDiffer, Asks, Transacting
  <2>3. /\ toWorker'[c] = Append(toWorker[c], thr[t].req)
        /\ Range(toWorker'[c]) = Range(toWorker[c]) \cup {thr[t].req}
        /\ \A d \in Channels \ {c} : toWorker'[d] = toWorker[d]
    BY <2>1, <2>2, AppendRange
  <2>4. /\ next.pc = "wait" /\ next.req = thr[t].req /\ next.ret = thr[t].ret /\ SameLocals(next, thr[t])
        /\ \A u \in Threads \ {t} : thr'[u] = thr[u]
    BY <2>1, <2>2 DEF ThreadStates, SameLocals
  <2>5. Transacting(next) /\ Transacting(thr[t]) /\ next.chan = thr[t].chan /\ next.lease = thr[t].lease
        /\ next.spawned = thr[t].spawned /\ next.running = thr[t].running
    BY <1>1, <2>4 DEF Transacting, TransactionLabels, SameLocals
  <2>6. Continues(t, c)
    BY <1>1, <1>2, <2>1, <2>3 DEF Continues, Sent, Healthy, Recorded, RecordOf
  <2>7. AsksAbout(t, next)
    BY <2>4, <2>5 DEF ServeInv, AsksFor, AsksAbout
  <2>8. \A d \in Channels : InUse(d)' => InUse(d)
    <3>1. \A g \in Graphs : thr'[g].lease = thr[g].lease
      BY <2>4, <2>5 DEF Threads
    <3> QED
      BY <1>1, <2>1, <3>1, InUseSame DEF Healthy
  <2>9. OwnId(next)'
    <3>1. OwnId(thr[t])
      BY DEF ServeInv, IdsOnce
    <3> QED
      BY <1>1, <1>2, <2>3, <2>4, <2>5, <2>8, <3>1 DEF OwnId
  <2>10. ASSUME next.lease # NoChannel PROVE Begun(next.lease)' /\ Stands(t, next, next.lease)'
    <3>1. PICK d : d = next.lease /\ d = thr[t].lease
      BY <2>5
    <3>2. Begun(d) /\ Stands(t, thr[t], d) /\ t \in Graphs
      BY <2>10, <3>1 DEF ServeInv, LeasesBegun, LeaseBegun, ClientsStand
    <3>3. Begun(d)'
      BY <2>1, <3>2 DEF Begun, WorkerStarted
    <3>4. Place(next) = Place(thr[t])
      BY <2>4, <2>5 DEF Place
    <3>5. /\ Clean(t, d) => Clean(t, d)'
          /\ Served(t, d) => Served(t, d)'
          /\ Registered(t, d) => Registered(t, d)'
          /\ Answers(d)' = Answers(d)
      BY <1>1, <2>1 DEF Clean, Served, Registered, Serving, Healthy, Recorded, RecordOf, Answers
    <3>6. CASE Place(thr[t]) \in {"startAnswered", "stopAnswered"}
      <4>1. d = c
        BY <1>1, <1>2, <3>1, <3>6, LegHolds
      <4>2. thr[t].req.by = "client"
        <5>1. thr[t].ret = Place(thr[t])
          BY <2>5 DEF Place
        <5>2. thr[t].req.kind \in SessionKinds
          BY <2>5, <3>6, <5>1 DEF ServeInv, AsksFor, AsksAbout, SessionKinds
        <5> QED
          BY <1>1, <5>2, SenderFacts DEF ServeInv
      <4>3. \A e \in Answers(c) : e.id = thr[t].req.id => StartTells(t, c, e)' /\ StopTells(t, c, e)'
        <5>1. CASE InUse(c)
          BY <1>1, <1>2, <2>5, <4>2, <5>1 DEF ServeInv, IdsOnce, OwnId
        <5>2. CASE ~InUse(c)
          <6>1. ~Recorded(c) /\ ~Serving(c)
            BY <3>1, <3>2, <4>1, <5>2 DEF InUse, Leased
          <6>2. ~Recorded(c)' /\ ~Serving(c)'
            BY <1>1, <2>1, <6>1 DEF Recorded, RecordOf, Serving, Healthy
          <6> QED
            BY <6>2 DEF StartTells, StopTells, Served, Clean
        <5> QED
          BY <5>1, <5>2
      <4>4. CASE Place(thr[t]) = "startAnswered"
        <5>1. Registered(t, d) /\ Clean(t, d)
          BY <1>1, <3>2, <4>4 DEF Stands, Starting
        <5>2. Starting(t, next, d)'
          BY <2>4, <3>5, <4>1, <4>3, <5>1 DEF Starting
        <5> QED
          BY <3>1, <3>3, <3>4, <4>4, <5>2 DEF Stands, Place, Transacting
      <4>5. CASE Place(thr[t]) = "stopAnswered"
        <5>1. Stopping(t, next, d)'
          BY <2>4, <3>5, <4>1, <4>3 DEF Stopping
        <5> QED
          BY <3>1, <3>3, <3>4, <4>5, <5>1 DEF Stands, Place, Transacting
      <4> QED
        BY <3>6, <4>4, <4>5
    <3>7. CASE Place(thr[t]) \notin {"startAnswered", "stopAnswered"}
      <4>1. IF next.running THEN Served(t, d)' /\ Registered(t, d)' ELSE Clean(t, d)'
        BY <2>5, <3>2, <3>5, <3>7 DEF Stands
      <4>2. Stands(t, next, d)'
        BY <3>4, <3>7, <4>1 DEF Stands
      <4> QED
        BY <3>1, <3>3, <4>2
    <3> QED
      BY <3>6, <3>7
  <2>11. ASSUME NEW r \in Range(toWorker'[c]), InUse(c)', r.kind \in SessionKinds, r.graph = t
         PROVE  t \in Graphs /\ Owns(next, c, r)'
    <3>1. r = thr[t].req
      BY <1>1, <2>3, <2>8, <2>11, OwnOnTheWay
    <3>2. thr[t].lease = c /\ t \in Graphs
      BY <1>1, <1>2, <2>11, <3>1, SenderFacts DEF ServeInv
    <3> QED
      BY <2>4, <2>5, <3>1, <3>2 DEF Owns
  <2>12. next.spawned = NoChannel
    <3>1. ASSUME thr[t].spawned # NoChannel PROVE FALSE
      <4>1. HandshakeOf(thr[t], c)
        BY <1>1, <1>2, <3>1, LegHolds DEF ServeInv, HandshakesEmpty
      <4> QED
        BY <1>1, <1>2, <4>1 DEF HandshakeOf, Open, WorkerStarted
    <3> QED
      BY <2>5, <3>1
  <2>13. Serves(t, next)
    BY <1>1, <1>2, <2>1, <2>3, <2>4, <2>6, <2>7, <2>9, <2>10, <2>11, <2>12, LegServes
  <2>14. AnswersRead'
    BY <1>1, <2>1, <2>4, AnswersStay DEF HasReader
  <2> QED
    BY <2>13, <2>14
<1> QED
  BY <1>3, <1>4

\* The worker is started only for a handshake, or on a channel that is lost.
LEMMA StartWorkerServes ==
    ASSUME LeaseInv, WaitInv, ServeInv, NEW t \in Threads, NEW next, next = thr'[t], Turn(t), UNCHANGED workers,
           StartWorkerAndSend(t), chan[thr[t].chan].reader = "none"
    PROVE  Serves(t, next) /\ AnswersRead'
<1>1. thr[t].pc = "start" /\ thr[t].pc \in TransactionLabels /\ ~WorkerStarted(thr[t].chan)
  BY DEF StartWorkerAndSend, TransactionLabels
<1>2. PICK c \in Channels : c = thr[t].chan
  BY <1>1, OutlineFacts
<1>3. /\ chan' = [chan EXCEPT ![c].fd = TRUE, ![c].pid = TRUE, ![c].reader = "running"]
      /\ proc' = [proc EXCEPT ![c] = NewWorker]
      /\ toWorker' = [toWorker EXCEPT ![c] = <<thr[t].req>>]
      /\ toClient' = [toClient EXCEPT ![c] = << >>]
      /\ thr' = [thr EXCEPT ![t].pc = "wait"]
  BY <1>2 DEF StartWorkerAndSend
<1>4. /\ chan \in [Channels -> ChannelStates] /\ proc \in [Channels -> WorkerStates]
      /\ toWorker \in [Channels -> Seq(Requests)] /\ toClient \in [Channels -> Seq(Events)]
      /\ thr \in [Threads -> ThreadStates]
  BY DEF LeaseInv, Types
<1>5. /\ chan'[c].reader = "running" /\ chan'[c].responses = chan[c].responses
      /\ chan'[c].failed = chan[c].failed /\ chan'[c].shutdown = chan[c].shutdown
      /\ proc'[c] = NewWorker /\ toWorker'[c] = <<thr[t].req>> /\ toClient'[c] = << >>
      /\ \A d \in Channels \ {c} : /\ chan'[d] = chan[d] /\ proc'[d] = proc[d]
                                   /\ toWorker'[d] = toWorker[d] /\ toClient'[d] = toClient[d]
  BY <1>3, <1>4 DEF ChannelStates
<1>6. /\ next.pc = "wait" /\ next.req = thr[t].req /\ next.ret = thr[t].ret /\ SameLocals(next, thr[t])
      /\ \A u \in Threads \ {t} : thr'[u] = thr[u]
  BY <1>3, <1>4 DEF ThreadStates, SameLocals
<1>7. Transacting(next) /\ Transacting(thr[t]) /\ next.chan = thr[t].chan /\ next.lease = thr[t].lease
      /\ next.spawned = thr[t].spawned /\ next.running = thr[t].running
  BY <1>1, <1>6 DEF Transacting, TransactionLabels, SameLocals
<1>8. \A u \in Threads : thr'[u].lease = thr[u].lease
  BY <1>6, <1>7
<1>9. ~Recorded(c) /\ ~Recorded(c)' /\ ~HasReader(c)
  <2>1. \A r \in workers : HasReader(r.chan)
    BY DEF WaitInv, ReadersStay
  <2>2. ~HasReader(c)
    BY <1>2 DEF HasReader
  <2> QED
    BY <2>1, <2>2 DEF Recorded, RecordOf
\* A client's channel was started once, so that it is lost by now.
<1>10. ASSUME thr[t].lease = c PROVE Down(c) /\ ~Healthy(c)'
  <2>1. Begun(c)
    BY <1>2, <1>10, ControlAssumption DEF ServeInv, LeasesBegun, LeaseBegun, NoChannel
  <2> QED
    BY <1>1, <1>2, <1>5, <2>1 DEF Begun, Down, Healthy
<1>11. GivenUp(c)
  <2>1. CASE thr[t].req.by = "client"
    BY <1>1, <1>2, <1>9, <1>10, <2>1, SenderFacts DEF GivenUp, ServeInv
  <2>2. CASE thr[t].req.kind = "ConfigHandshake"
    BY <1>1, <1>2, <1>8, <1>9, <2>2, SenderFacts DEF GivenUp, ServeInv
  <2>3. CASE thr[t].req.kind = "Shutdown"
    <3>1. thr[t].ret = "close"
      BY <1>7, <2>3 DEF LeaseInv, RequestsDiffer, Asks
    <3>2. RetiringWorkers(t, thr[t]) /\ thr[t] \in ThreadStates
      BY <1>1, <1>7, <3>1, OutlineFacts DEF Handshaking, OnLease, Place, LeaseLabels
    <3>3. thr[t].retire \in Seq(Channels) /\ thr[t].retire # << >> /\ c = Head(thr[t].retire)
      BY <1>2, <3>2 DEF RetiringWorkers, ThreadStates
    <3>4. c \in Range(thr[t].retire)
      BY <3>3, HeadTailProperties DEF Range
    <3> QED
      BY <1>1, <1>9, <3>4 DEF WaitInv, ReadersStay
  <2> QED
    BY <1>1, <2>1, <2>2, <2>3, SenderFacts DEF ServeInv
<1>12. ~InUse(c)'
  <2>1. ~Recorded(c)' /\ (~Healthy(c)' \/ \A u \in Threads : thr'[u].lease # c)
    BY <1>11 DEF GivenUp
  <2> QED
    BY <2>1 DEF InUse, Serving, Leased, Threads
<1>13. AsksAbout(t, next)
  BY <1>6, <1>7 DEF ServeInv, AsksFor, AsksAbout
<1>14. OwnId(next)'
  BY <1>2, <1>7, <1>12 DEF OwnId
<1>15. ASSUME next.lease # NoChannel PROVE Begun(next.lease)' /\ Stands(t, next, next.lease)'
  <2>1. PICK d \in Channels : d = next.lease /\ d = thr[t].lease
    BY <1>4, <1>7, <1>15 DEF ThreadStates
  <2>2. Begun(d) /\ Stands(t, thr[t], d)
    BY <1>15, <2>1 DEF ServeInv, LeasesBegun, LeaseBegun, ClientsStand
  <2>3. Begun(d)'
    BY <1>5, <1>10, <2>1, <2>2 DEF Begun, WorkerStarted, Down
  <2>4. Place(next) = Place(thr[t])
    BY <1>6, <1>7 DEF Place
  <2>5. CASE d = c
    <3>1. ~Recorded(d)' /\ ~Healthy(d)'
      BY <1>9, <1>10, <2>1, <2>5
    <3>2. Stands(t, next, d)'
      BY <3>1 DEF Stands, Starting, Stopping, StartTells, StopTells, Clean, Served, Serving, Registered
    <3> QED
      BY <2>1, <2>3, <3>2
  <2>6. CASE d # c
    <3>1. Place(thr[t]) \notin {"startAnswered", "stopAnswered"}
      BY <1>1, <1>2, <2>1, <2>6, LegHolds
    <3>2. IF thr[t].running THEN Served(t, d) /\ Registered(t, d) ELSE Clean(t, d)
      BY <2>2, <3>1 DEF Stands
    <3>3. IF next.running THEN Served(t, d)' /\ Registered(t, d)' ELSE Clean(t, d)'
      BY <1>5, <1>7, <2>6, <3>2 DEF Served, Registered, Clean, Serving, Healthy, Recorded, RecordOf
    <3>4. Stands(t, next, d)'
      BY <2>4, <3>1, <3>3 DEF Stands
    <3> QED
      BY <2>1, <2>3, <3>4
  <2> QED
    BY <2>5, <2>6
<1>16. next.spawned # NoChannel => HandshakeOf(next, next.spawned)'
  <2>1. ASSUME thr[t].spawned # NoChannel PROVE HandshakeOf(next, c)'
    <3>1. HandshakeOf(thr[t], c)
      BY <1>1, <1>2, <2>1, LegHolds DEF ServeInv, HandshakesEmpty
    <3>2. chan'[c].responses = {} /\ proc'[c].graphs = {}
      BY <1>1, <1>5, <3>1 DEF HandshakeOf, NewWorker, NoWorker
    <3> QED
      BY <1>5, <1>6, <3>2 DEF HandshakeOf
  <2> QED
    BY <1>1, <1>2, <1>7, <2>1, LegHolds
<1>17. Serves(t, next)
  BY <1>1, <1>2, <1>5, <1>6, <1>11, <1>12, <1>13, <1>14, <1>15, <1>16, LegServes
<1>18. AnswersRead'
  <2>1. \A d \in Channels : /\ chan'[d].responses \subseteq chan[d].responses
                            /\ HasReader(d) => chan'[d].reader # "none"
    BY <1>5 DEF HasReader
  <2> QED
    BY <1>1, <1>6, <2>1, AnswersStay
<1> QED
  BY <1>17, <1>18

LEMMA WaitServes ==
    ASSUME LeaseInv, ServeInv, NEW t \in Threads, NEW next, next = thr'[t], Turn(t), UNCHANGED workers,
           WaitEnds(t) \/ WaitTimesOut(t) \/ StartWorkerFails(t)
    PROVE  Serves(t, next) /\ AnswersRead'
<1>1. /\ thr[t].pc \in {"start", "wait"} /\ thr[t].pc \in TransactionLabels
      /\ UNCHANGED <<toWorker, toClient, proc>>
  BY DEF WaitEnds, WaitTimesOut, StartWorkerFails, TransactionLabels
<1>2. PICK c \in Channels : c = thr[t].chan
  BY <1>1, OutlineFacts
<1>3. /\ chan \in [Channels -> ChannelStates] /\ thr \in [Threads -> ThreadStates] /\ chan[c] \in ChannelStates
      /\ toClient \in [Channels -> Seq(Events)]
  BY DEF LeaseInv, Types
<1>4. CASE StartWorkerFails(t)
  <2>1. Return(t, Failed) /\ chan' = chan /\ ~WorkerStarted(c)
    BY <1>2, <1>4 DEF StartWorkerFails
  <2>2. thr[t].ret \in LeaseLabels => Down(c)'
    <3>1. ASSUME thr[t].ret \in LeaseLabels PROVE thr[t].lease = c
      <4>1. thr[t].req.by = "client"
        BY <1>1, <3>1 DEF LeaseInv, RequestsDiffer, Asks, Transacting
      <4> QED
        BY <1>1, <1>2, <4>1, SenderFacts DEF ServeInv
    <3>2. thr[t].lease = c => Begun(c)
      BY ControlAssumption DEF ServeInv, LeasesBegun, LeaseBegun, NoChannel
    <3> QED
      BY <2>1, <3>1, <3>2 DEF Begun, Down
  <2> QED
    BY <1>1, <1>2, <2>1, <2>2, FailureServes
<1>5. CASE Return(t, Failed) /\ chan' = [chan EXCEPT ![c] = MarkedFailed(chan[c])]
  <2>1. Down(c)'
    BY <1>3, <1>5 DEF Down, MarkedFailed, ChannelStates
  <2> QED
    BY <1>1, <1>2, <1>5, <2>1, FailureServes
<1>6. CASE Return(t, Failed) /\ chan' = chan /\ Down(c)
  <2>1. Down(c)'
    BY <1>6 DEF Down
  <2> QED
    BY <1>1, <1>2, <1>6, <2>1, FailureServes
<1>7. ASSUME NEW ev \in ResponsesFor(t), Return(t, ev), thr[t].pc = "wait",
             chan' = [chan EXCEPT ![c].responses = @ \ {ev}]
      PROVE  Serves(t, next) /\ AnswersRead'
  <2>1. ev \in Events /\ ev \in chan[c].responses /\ ev.id = thr[t].req.id /\ ev \in Answers(c)
    BY <1>2, <1>3, <1>7 DEF ResponsesFor, ChannelStates, Answers
  <2>2. /\ chan'[c].responses = chan[c].responses \ {ev}
        /\ \A d \in Channels \ {c} : chan'[d] = chan[d]
        /\ \A d \in Channels : /\ chan'[d].fd = chan[d].fd /\ chan'[d].pid = chan[d].pid
                               /\ chan'[d].reader = chan[d].reader /\ chan'[d].handlers = chan[d].handlers
                               /\ chan'[d].failed = chan[d].failed /\ chan'[d].shutdown = chan[d].shutdown
    BY <1>3, <1>7 DEF ChannelStates
  <2>3. /\ next.pc = thr[t].ret /\ next.resp = ev /\ SameLocals(next, thr[t])
        /\ next.pc \notin TransactionLabels \cup {"join", "terminate"}
    BY <1>1, <1>7, <2>1, ReturnFacts
  <2>4. /\ next.chan = thr[t].chan /\ next.lease = thr[t].lease
        /\ next.spawned = thr[t].spawned /\ next.running = thr[t].running
        /\ \A u \in Threads \ {t} : thr'[u] = thr[u]
    BY <2>3, TurnFacts DEF SameLocals, Turn
  <2>5. \A d \in Channels : Continues(t, d) /\ chan[d].handlers \subseteq chan'[d].handlers
    <3>1. \A d \in Channels : chan'[d].responses \subseteq chan[d].responses
      BY <2>2
    <3> QED
      BY <1>1, <2>2, <3>1 DEF Continues, Healthy, Recorded, RecordOf
  <2>6. AsksAbout(t, next) /\ OwnId(next)'
    BY <2>3 DEF AsksAbout, OwnId, Transacting
  <2>7. ASSUME next.lease # NoChannel PROVE Begun(next.lease)' /\ Stands(t, next, next.lease)'
    <3>1. PICK d \in Channels : d = next.lease /\ d = thr[t].lease
      BY <1>3, <2>4, <2>7 DEF ThreadStates
    <3>2. Begun(d) /\ Stands(t, thr[t], d)
      BY <2>7, <3>1 DEF ServeInv, LeasesBegun, LeaseBegun, ClientsStand
    <3>3. Begun(d)'
      BY <2>2, <3>2 DEF Begun, WorkerStarted
    <3>4. Place(next) = Place(thr[t]) /\ Place(next) = next.pc
      BY <1>1, <2>3, PlaceKept
    <3>5. /\ Clean(t, d) => Clean(t, d)'
          /\ Served(t, d) => Served(t, d)'
          /\ Registered(t, d) => Registered(t, d)'
          /\ \A e : StartTells(t, d, e) => StartTells(t, d, e)'
          /\ \A e : StopTells(t, d, e) => StopTells(t, d, e)'
      BY <2>5, GoesOn
    <3>6. CASE next.pc = "startAnswered"
      <4>1. Starting(t, thr[t], d) /\ d = c
        BY <1>1, <1>2, <3>1, <3>2, <3>4, <3>6, LegHolds DEF Stands
      <4>2. Registered(t, d) /\ StartTells(t, d, ev)
        BY <1>7, <2>1, <4>1 DEF Starting
      <4>3. Starting(t, next, d)'
        BY <2>3, <3>5, <3>6, <4>2 DEF Starting
      <4> QED
        BY <3>1, <3>3, <3>4, <3>6, <4>3 DEF Stands
    <3>7. CASE next.pc = "stopAnswered"
      <4>1. Stopping(t, thr[t], d) /\ d = c
        BY <1>1, <1>2, <3>1, <3>2, <3>4, <3>7, LegHolds DEF Stands
      <4>2. StopTells(t, d, ev)
        BY <1>7, <2>1, <4>1 DEF Stopping
      <4>3. Stopping(t, next, d)'
        BY <2>3, <3>5, <3>7, <4>2 DEF Stopping
      <4> QED
        BY <3>1, <3>3, <3>4, <3>7, <4>3 DEF Stands
    <3>8. CASE next.pc \notin {"startAnswered", "stopAnswered"}
      <4>1. IF next.running THEN Served(t, d) /\ Registered(t, d) ELSE Clean(t, d)
        BY <2>4, <3>2, <3>4, <3>8 DEF Stands
      <4>2. IF next.running THEN Served(t, d)' /\ Registered(t, d)' ELSE Clean(t, d)'
        BY <3>5, <4>1
      <4> QED
        BY <3>1, <3>3, <3>4, <3>8, <4>2 DEF Stands
    <3> QED
      BY <3>6, <3>7, <3>8
  \* The answer to a request that is still under way cannot be there.
  <2>8. ASSUME NEW r \in Range(toWorker'[c]), InUse(c)', r.kind \in SessionKinds, r.graph = t PROVE FALSE
    <3>1. InUse(c)
      <4>1. \A g \in Graphs : thr'[g].lease = thr[g].lease
        BY <2>4 DEF Threads
      <4> QED
        BY <1>1, <2>2, <2>8, <4>1, InUseSame DEF Healthy
    <3>2. thr[t].req = r /\ r \in Range(toWorker[c])
      BY <1>1, <2>8, <3>1, OwnOnTheWay
    <3>3. r.by = "client"
      BY <1>1, <2>8, <3>2, SenderFacts DEF ServeInv
    <3> QED
      BY <2>1, <3>1, <3>2, <3>3 DEF ServeInv, IdsOnce
  <2>9. ASSUME next.spawned # NoChannel PROVE HandshakeOf(next, next.spawned)'
    <3>1. next.spawned = c /\ HandshakeOf(thr[t], c)
      BY <1>1, <1>2, <2>4, <2>9, LegHolds DEF ServeInv, HandshakesEmpty
    <3>2. proc[c].graphs = {} /\ chan[c].responses # {}
      BY <1>7, <2>1, <3>1 DEF HandshakeOf
    <3>3. toWorker[c] = << >> /\ toClient[c] = << >> /\ \A e, f \in chan[c].responses : e = f
      BY <1>7, <3>1, <3>2 DEF HandshakeOf
    <3>4. chan'[c].responses = {}
      BY <2>1, <2>2, <3>3
    <3>5. Answers(c)' = {}
      BY <1>1, <3>3, <3>4 DEF Answers, Range
    <3> QED
      BY <1>1, <2>3, <3>1, <3>2, <3>3, <3>5 DEF HandshakeOf, TransactionLabels
  <2>10. Serves(t, next)
    BY <1>1, <1>2, <2>2, <2>3, <2>5, <2>6, <2>7, <2>8, <2>9, LegServes
  <2>11. AnswersRead'
    <3>1. \A d \in Channels : chan'[d].responses \subseteq chan[d].responses
      BY <2>2
    <3> QED
      BY <1>1, <2>2, <2>4, <3>1, AnswersStay DEF HasReader
  <2> QED
    BY <2>10, <2>11
<1> QED
  BY <1>2, <1>4, <1>5, <1>6, <1>7 DEF WaitEnds, WaitTimesOut, Down

LEMMA TeardownLegServes ==
    ASSUME LeaseInv, WaitInv, ServeInv, NEW t \in Threads, NEW next, next = thr'[t], Turn(t), UNCHANGED workers,
           CloseSocket(t) \/ JoinReader(t)
    PROVE  Serves(t, next) /\ AnswersRead'
<1>1. thr[t].pc \in {"close", "join"} /\ thr[t].pc \in TeardownLabels /\ UNCHANGED <<toWorker, toClient, proc>>
  BY DEF CloseSocket, JoinReader, TeardownLabels
<1>2. PICK c \in Channels : c = thr[t].chan
  BY <1>1, OutlineFacts
<1>3. chan \in [Channels -> ChannelStates] /\ chan[c] \in ChannelStates /\ thr \in [Threads -> ThreadStates]
  BY DEF LeaseInv, Types
<1>4. /\ chan'[c].responses = chan[c].responses /\ chan'[c].handlers = chan[c].handlers
      /\ chan'[c].failed = chan[c].failed /\ chan'[c].shutdown
      /\ \A d \in Channels \ {c} : chan'[d] = chan[d]
      /\ HasReader(c) => chan'[c].reader # "none" \/ next.pc = "terminate"
      /\ SameLocals(next, thr[t])
      /\ next.pc \in {"join", "terminate"}
      /\ \A u \in Threads \ {t} : thr'[u] = thr[u]
  <2>1. CASE CloseSocket(t)
    <3>1. chan' = [chan EXCEPT ![c].shutdown = TRUE, ![c].fd = FALSE] /\ thr' = [thr EXCEPT ![t].pc = "join"]
          /\ thr[t].pc = "close"
      BY <1>2, <2>1 DEF CloseSocket
    <3> QED
      BY <1>3, <3>1 DEF ChannelStates, ThreadStates, SameLocals, HasReader
  <2>2. CASE JoinReader(t)
    <3>1. chan' = [chan EXCEPT ![c].reader = "none"] /\ thr' = [thr EXCEPT ![t].pc = "terminate"] /\ thr[t].pc = "join"
      BY <1>2, <2>2 DEF JoinReader
    <3>2. chan[c].shutdown
      BY <1>2, <3>1 DEF WaitInv, TeardownsClose
    <3> QED
      BY <1>3, <3>1, <3>2 DEF ChannelStates, ThreadStates, SameLocals
  <2> QED
    BY <2>1, <2>2
<1>5. /\ next.chan = thr[t].chan /\ next.lease = thr[t].lease
      /\ next.spawned = thr[t].spawned /\ next.running = thr[t].running
  BY <1>4 DEF SameLocals
<1>6. ~thr[t].running /\ thr[t].spawned = NoChannel
  BY <1>1, OutlineFacts DEF RetiringWorkers, LeavingChannel, HoldsOnly
<1>7. ~Transacting(next) /\ Place(next) = next.pc /\ ~Transacting(thr[t]) /\ Place(thr[t]) = thr[t].pc
  BY <1>1, <1>4 DEF Transacting, TransactionLabels, Place
<1>8. Continues(t, c)
  BY <1>1, <1>4 DEF Continues, Healthy, Recorded, RecordOf
<1>9. AsksAbout(t, next) /\ OwnId(next)'
  BY <1>7 DEF AsksAbout, OwnId, Transacting
<1>10. ASSUME next.lease # NoChannel PROVE Begun(next.lease)' /\ Stands(t, next, next.lease)'
  <2>1. PICK d \in Channels : d = next.lease /\ d = thr[t].lease
    BY <1>3, <1>5, <1>10 DEF ThreadStates
  <2>2. Begun(d) /\ Stands(t, thr[t], d)
    BY <1>10, <2>1 DEF ServeInv, LeasesBegun, LeaseBegun, ClientsStand
  <2>3. Begun(d)'
    BY <1>4, <2>2 DEF Begun, WorkerStarted
  <2>4. Clean(t, d)
    BY <1>1, <1>6, <1>7, <2>2 DEF Stands
  <2>5. Clean(t, d)'
    BY <1>1, <2>4 DEF Clean, Recorded, RecordOf
  <2>6. Stands(t, next, d)'
    BY <1>4, <1>5, <1>6, <1>7, <2>5 DEF Stands
  <2> QED
    BY <2>1, <2>3, <2>6
<1>11. ASSUME NEW r \in Range(toWorker'[c]), InUse(c)', r.kind \in SessionKinds, r.graph = t PROVE FALSE
  <2>1. InUse(c)
    <3>1. \A g \in Graphs : thr'[g].lease = thr[g].lease
      BY <1>4, <1>5 DEF Threads
    <3>2. Healthy(c)' => Healthy(c)
      BY <1>4 DEF Healthy
    <3> QED
      BY <1>1, <1>11, <3>1, <3>2, InUseSame
  <2> QED
    BY <1>1, <1>11, <2>1, OwnOnTheWay
<1>12. Serves(t, next)
  BY <1>1, <1>2, <1>4, <1>5, <1>6, <1>8, <1>9, <1>10, <1>11, LegServes
<1>13. AnswersRead'
  <2>1. \A d \in Channels : /\ chan'[d].responses \subseteq chan[d].responses
                            /\ HasReader(d) => chan'[d].reader # "none" \/ (next.pc = "terminate" /\ next.chan = d)
    BY <1>2, <1>4, <1>5 DEF HasReader
  <2> QED
    BY <1>1, <1>4, <2>1, AnswersStay
<1> QED
  BY <1>12, <1>13

\* A thread that has just called, if it is in a transaction: no trace of its
\* request's id is left, and a new worker's channel is a free one.
Speaks(t, next) ==
    /\ AsksAbout(t, next)
    /\ Transacting(next) =>
         /\ next.pc = "ensure"
         /\ \A c \in Channels : \A x \in Range(toWorker[c]) \cup Answers(c) :
              x.by = next.req.by => x.id # next.req.id
    /\ next.spawned # NoChannel => next.pc = "ensure" /\ next.spawned \in Channels /\ Free(next.spawned)

\* What a label's transaction asks for.
AskedAt(kind, ret) ==
    /\ kind = "StartSessions" <=> ret = "startAnswered"
    /\ kind = "StopSessions" <=> ret = "stopAnswered"
    /\ kind = "ConfigHandshake" <=> ret = "handshaken"

LEMMA CallSpeaks ==
    ASSUME NEW t \in Threads, NEW th \in ThreadStates, NEW c \in Channels, NEW kind \in RequestKinds,
           NEW by \in {"client", "manager"}, NEW ret \in Returns, AskedAt(kind, ret), th.spawned # NoChannel => th.spawned \in Channels /\ Free(th.spawned),
           NEW next \in Calls(t, th, c, kind, by, ret)
    PROVE  /\ Speaks(t, next) /\ next.pc = "ensure" /\ next.ret = ret /\ Transacting(next) /\ Place(next) = ret
           /\ next.chan = c /\ next.lease = th.lease /\ next.retire = th.retire /\ next.after = th.after
           /\ next.running = th.running /\ next.spawned = th.spawned
<1>1. PICK id \in NextIds(by, c) :
        next = Calling([th EXCEPT !.resp = NoEvent], c, Request(t, th, kind, by, id), ret)
  BY DEF Calls
<1> DEFINE r == Request(t, th, kind, by, id)
<1>2. r.by = by /\ r.kind = kind /\ r.id = id /\ (kind \in SessionKinds => r.graph = t)
  BY DEF Request, SessionKinds
<1> HIDE DEF r
<1>3. next = [th EXCEPT !.resp = NoEvent, !.pc = "ensure", !.chan = c, !.req = r, !.ret = ret]
  <2>1. next = Calling([th EXCEPT !.resp = NoEvent], c, r, ret)
    BY <1>1 DEF r
  <2> QED
    BY <2>1 DEF Calling
<1>4. /\ next.pc = "ensure" /\ next.chan = c /\ next.req = r /\ next.ret = ret
      /\ next.lease = th.lease /\ next.retire = th.retire /\ next.after = th.after
      /\ next.running = th.running /\ next.spawned = th.spawned
  BY <1>3 DEF ThreadStates
<1>5. Transacting(next) /\ Place(next) = ret
  BY <1>4 DEF Transacting, TransactionLabels, Place
<1>6. \A d \in Channels : \A x \in Range(toWorker[d]) \cup Answers(d) : x.by = by => x.id # id
  <2> SUFFICES ASSUME NEW d \in Channels, NEW x \in Range(toWorker[d]) \cup Answers(d), x.by = by
               PROVE  x.id # id
    OBVIOUS
  <2>1. x.id \in IdsInUse(by, Channels)
    BY DEF IdsInUse, Answers
  <2> QED
    BY <1>1, <2>1 DEF NextIds
<1>7. AsksAbout(t, next)
  BY <1>2, <1>4 DEF AsksAbout, AskedAt
<1> QED
  BY <1>2, <1>4, <1>5, <1>6, <1>7 DEF Speaks

\* What a thread asks for that retires workers, and after it.
ContinueAsks(t, th, next) ==
    /\ Speaks(t, next)
    /\ next.lease # NoChannel => Place(next) \in {"close", "healthChecked"}
    /\ next.retire # << >> => next.after = th.after
    /\ Transacting(next) => (next.chan = next.lease \/ next.ret \in {"close", "handshaken"})

LEMMA ContinueSpeaks ==
    ASSUME LeaseInv, NEW t \in Threads, NEW th, MayContinue(t, th), NEW next \in Continue(t, th)
    PROVE  ContinueAsks(t, th, next)
<1>1. /\ th.retire \in Seq(Channels) /\ th.lease \in Channels \cup {NoChannel}
      /\ th.spawned = NoChannel /\ ~th.running /\ th \in ThreadStates
  BY DEF MayContinue, ThreadStates
<1>2. /\ AskedAt("Shutdown", "close") /\ AskedAt("HealthCheck", "healthChecked")
      /\ AskedAt("ConfigHandshake", "handshaken")
      /\ {"Shutdown", "HealthCheck", "ConfigHandshake"} \subseteq RequestKinds
      /\ {"close", "healthChecked", "handshaken"} \subseteq Returns
  BY DEF AskedAt, RequestKinds, Returns, LeaseLabels
<1>3. CASE th.retire # << >>
  <2> DEFINE w == [th EXCEPT !.cret = "retired"]
  <2>1. w \in ThreadStates /\ w.spawned = NoChannel /\ w.after = th.after
    BY <1>1 DEF ThreadStates
  <2>2. Head(th.retire) \in Channels
    BY <1>1, <1>3, HeadTailProperties
  <2>3. next \in Calls(t, w, Head(th.retire), "Shutdown", "manager", "close")
    BY <1>3 DEF Continue
  <2> HIDE DEF w
  <2>4. Speaks(t, next) /\ Place(next) = "close" /\ next.after = w.after /\ next.ret = "close"
    BY <1>2, <2>1, <2>2, <2>3, CallSpeaks
  <2> QED
    BY <2>1, <2>4 DEF ContinueAsks
<1>4. CASE th.retire = << >> /\ th.after = "acquired" /\ th.lease # NoChannel
  <2>1. next \in Calls(t, th, th.lease, "HealthCheck", "client", "healthChecked")
    BY <1>4 DEF Continue
  <2>2. Speaks(t, next) /\ Place(next) = "healthChecked" /\ next.retire = th.retire /\ next.chan = th.lease /\ next.lease = th.lease
    BY <1>1, <1>2, <1>4, <2>1, CallSpeaks
  <2> QED
    BY <1>4, <2>2 DEF ContinueAsks
<1>5. CASE th.retire = << >> /\ th.after = "acquired" /\ th.lease = NoChannel
  <2>1. next \in Spawns(t, th)
    BY <1>5 DEF Continue
  <2>2. PICK c \in Channels :
          Free(c) /\ next \in Calls(t, [th EXCEPT !.spawned = c], c, "ConfigHandshake", "manager", "handshaken")
    BY <2>1 DEF Spawns
  <2> DEFINE w == [th EXCEPT !.spawned = c]
  <2>3. w \in ThreadStates /\ w.spawned = c /\ w.lease = NoChannel /\ w.retire = << >>
    BY <1>1, <1>5 DEF ThreadStates
  <2>4. next \in Calls(t, w, c, "ConfigHandshake", "manager", "handshaken")
    BY <2>2
  <2> HIDE DEF w
  <2>5. Speaks(t, next) /\ next.lease = w.lease /\ next.retire = w.retire /\ next.ret = "handshaken"
    BY <1>2, <2>2, <2>3, <2>4, CallSpeaks
  <2> QED
    BY <2>3, <2>5 DEF ContinueAsks
<1>6. CASE th.retire = << >> /\ th.after = "invalidated"
  <2>1. next = NewThread
    BY <1>6 DEF Continue
  <2> QED
    BY <2>1 DEF ContinueAsks, Speaks, AsksAbout, Transacting, TransactionLabels, NewThread
<1>7. CASE th.retire = << >> /\ th.after = "done"
  <2>1. next = [NewThread EXCEPT !.pc = "done"]
    BY <1>7 DEF Continue
  <2> QED
    BY <2>1 DEF ContinueAsks, Speaks, AsksAbout, Transacting, TransactionLabels, NewThread
<1> QED
  BY <1>3, <1>4, <1>5, <1>6, <1>7 DEF MayContinue

LEMMA RetiringSpeaks ==
    ASSUME LeaseInv, NEW t \in Threads, NEW th \in ThreadStates, th.spawned = NoChannel, ~th.running,
           NEW cs \in Seq(Channels), NEW after \in {"acquired", "invalidated", "done"},
           after = "acquired" => th.rt \in Runtimes,
           after = "invalidated" => cs = <<th.lease>>,
           after = "done" => th.lease = NoChannel /\ t = Exit,
           NEW next \in Retiring(t, th, cs, after)
    PROVE  \E w : w.after = after /\ ContinueAsks(t, w, next) /\ ~next.running
<1>0. PICK w : w = [th EXCEPT !.retire = cs, !.after = after, !.resp = NoEvent]
  OBVIOUS
<1>1. /\ w \in ThreadStates /\ w.spawned = th.spawned /\ w.running = th.running /\ w.rt = th.rt
      /\ w.lease = th.lease /\ w.retire = cs /\ w.after = after
  <2>1. NoEvent \in Events
    BY NewThreadTyped
  <2>2. w \in ThreadStates
    BY <1>0, <2>1, Zenon DEF ThreadStates
  <2>3. /\ w.spawned = th.spawned /\ w.running = th.running /\ w.rt = th.rt
        /\ w.lease = th.lease /\ w.retire = cs /\ w.after = after
    BY <1>0 DEF ThreadStates
  <2> QED
    BY <2>2, <2>3
<1>2. next \in Continue(t, w)
  BY <1>0 DEF Retiring
<1>3. MayContinue(t, w)
  BY <1>1 DEF MayContinue
<1>4. ContinueAsks(t, w, next) /\ ~next.running
  BY <1>2, <1>3, ContinueSpeaks, ContinueKeeps
<1> QED
  BY <1>1, <1>4

\* A free channel is empty.
LEMMA FreeIsEmpty ==
    ASSUME LeaseInv, ServeInv, NEW d \in Channels, Free(d)
    PROVE  ~Open(d) /\ chan[d].responses = {} /\ \A u \in Threads : d \notin References(u)
<1>1. ~Open(d) /\ \A u \in Threads : d \notin References(u)
  BY DEF Free
<1>2. ~HasReader(d)
  BY <1>1 DEF Open, HasReader
<1>3. ASSUME NEW u \in Threads, thr[u].pc = "terminate", thr[u].chan = d PROVE FALSE
  <2>1. thr[u].pc \in TeardownLabels
    BY <1>3 DEF TeardownLabels
  <2> QED
    BY <1>1, <1>3, <2>1, OutlineFacts
<1> QED
  BY <1>1, <1>2, <1>3 DEF ServeInv, AnswersRead

\* A teardown ends: the channel is given up.
LEMMA CloseEndsServes ==
    ASSUME LeaseInv, ServeInv, NEW t \in Threads, NEW next, next = thr'[t], Turn(t), CloseEnds(t)
    PROVE  Serves(t, next) /\ AnswersRead'
<1> DEFINE th == thr[t]
<1>1. /\ th.pc = "terminate" /\ th.pc \in TeardownLabels /\ UNCHANGED workers
  BY DEF CloseEnds, TerminateProcess, TeardownLabels
<1>2. /\ th \in ThreadStates /\ th.chan \in References(t)
      /\ RetiringWorkers(t, th) \/ LeavingChannel(th)
  BY <1>1, OutlineFacts
<1>3. PICK c \in Channels : c = th.chan
  BY <1>1, OutlineFacts
<1>4. /\ chan \in [Channels -> ChannelStates] /\ chan[c] \in ChannelStates /\ proc \in [Channels -> WorkerStates]
      /\ toWorker \in [Channels -> Seq(Requests)] /\ toClient \in [Channels -> Seq(Events)]
      /\ thr \in [Threads -> ThreadStates]
  BY DEF LeaseInv, Types
<1>5. PICK after \in {Terminated(chan[c]), NewChannel} :
        /\ proc' = [proc EXCEPT ![c] = NoWorker] /\ toWorker' = [toWorker EXCEPT ![c] = << >>]
        /\ toClient' = [toClient EXCEPT ![c] = << >>] /\ chan' = [chan EXCEPT ![c] = after]
  BY <1>3 DEF CloseEnds, TerminateProcess
<1>6. ~Healthy(c)' /\ chan'[c].responses = {}
  <2>1. ~NewChannel.pid /\ NewChannel.responses = {}
    BY DEF NewChannel
  <2>2. Terminated(chan[c]).failed /\ Terminated(chan[c]).responses = {}
    BY <1>4 DEF Terminated, ChannelStates
  <2>3. chan'[c] = after
    BY <1>4, <1>5
  <2> QED
    BY <2>1, <2>2, <2>3 DEF Healthy
<1>7. /\ \A d \in Channels \ {c} : /\ chan'[d] = chan[d] /\ proc'[d] = proc[d]
                                   /\ toWorker'[d] = toWorker[d] /\ toClient'[d] = toClient[d]
      /\ \A u \in Threads \ {t} : thr'[u] = thr[u]
  BY <1>4, <1>5, TurnFacts DEF Turn
<1>8. RecordOf(c) = {} /\ ~Recorded(c) /\ ~Recorded(c)'
  <2>1. Ends(t, c)
    BY <1>1, <1>3 DEF Ends
  <2> QED
    BY <1>1, <2>1, EndsAlone DEF Recorded, RecordOf
\* The thread has called again, or it rests.
<1>9. /\ Speaks(t, next) /\ ~next.running
      /\ next.lease # NoChannel => /\ next.lease = th.lease /\ next.lease # c
                                   /\ Place(next) \in {"close", "healthChecked"}
                                   /\ next.lease \in Range(next.retire) => next.after = "invalidated"
      /\ (next.lease = NoChannel /\ th.lease # NoChannel) => th.lease = c
      /\ Transacting(next) => (next.chan = next.lease \/ next.ret \in {"close", "handshaken"})
  <2>1. CASE th.cret = "returned"
    <3>1. LeavingChannel(th)
      BY <1>2, <2>1 DEF RetiringWorkers
    <3>2. thr' = [thr EXCEPT ![t] = Idle([th EXCEPT !.cret = "idle", !.chan = NoChannel])]
      BY <2>1 DEF CloseEnds
    <3>3. Idle([th EXCEPT !.cret = "idle", !.chan = NoChannel]) = NewThread
      BY <3>1 DEF LeavingChannel, Idle
    <3>4. next = NewThread /\ th.lease = NoChannel
      BY <1>4, <3>1, <3>2, <3>3 DEF LeavingChannel, HoldsOnly
    <3> QED
      BY <3>4 DEF Speaks, AsksAbout, Transacting, TransactionLabels, NewThread
  <2>2. CASE th.cret = "retired"
    <3>1. RetiringWorkers(t, th)
      BY <1>2, <2>2 DEF LeavingChannel
    <3>2. th.retire \in Seq(Channels) /\ th.retire # << >> /\ c = Head(th.retire)
      BY <1>2, <1>3, <3>1 DEF ThreadStates, RetiringWorkers
    <3>3. /\ Tail(th.retire) \in Seq(Channels)
          /\ Range(Tail(th.retire)) \subseteq Range(th.retire)
          /\ Once(Tail(th.retire)) /\ c \notin Range(Tail(th.retire))
          /\ c \in Range(th.retire)
      <4>1. c \in Range(th.retire)
        BY <3>2, HeadTailProperties DEF Range
      <4> QED
        BY <3>2, <4>1, TailHeld DEF LeaseInv, RetiredOnce
    <3>4. PICK rest : rest = [th EXCEPT !.cret = "idle", !.chan = NoChannel, !.retire = Tail(@)]
      OBVIOUS
    <3>5. /\ rest \in ThreadStates /\ rest.lease = th.lease /\ rest.spawned = th.spawned /\ rest.rt = th.rt
          /\ rest.retire = Tail(th.retire) /\ rest.after = th.after /\ rest.running = th.running
      BY <1>2, <3>3, <3>4 DEF ThreadStates
    <3>6. [[th EXCEPT !.cret = "idle", !.chan = NoChannel] EXCEPT !.retire = Tail(@)] = rest
      BY <1>2, <3>4 DEF ThreadStates
    <3>7. next \in Continue(t, rest)
      <4>1. \E n \in Continue(t, [[th EXCEPT !.cret = "idle", !.chan = NoChannel] EXCEPT !.retire = Tail(@)]) :
              thr' = [thr EXCEPT ![t] = n]
        BY <2>2 DEF CloseEnds
      <4> QED
        BY <1>4, <3>6, <4>1
    <3>8. th.retire = <<th.lease>> => Tail(th.retire) = << >>
      OBVIOUS
    <3>9. MayContinue(t, rest)
      BY <3>1, <3>5, <3>8 DEF MayContinue, RetiringWorkers
    <3>10. /\ ContinueAsks(t, rest, next) /\ ~next.running /\ next.retire = rest.retire
           /\ next.lease = (IF rest.retire = << >> /\ rest.after = "invalidated" THEN NoChannel ELSE rest.lease)
      BY <3>7, <3>9, ContinueSpeaks, ContinueKeeps
    \* The lease a client has just taken is not among the workers it retires.
    <3>11. (th.lease # NoChannel /\ th.lease \in Range(th.retire)) => th.after = "invalidated"
      BY DEF ServeInv, LeasesBegun, LeaseBegun
    <3>12. th.after = "invalidated" => rest.retire = << >> /\ th.lease = c
      BY <3>1, <3>2, <3>5, <3>8 DEF RetiringWorkers
    <3>13. ASSUME next.lease # NoChannel
           PROVE  /\ next.lease = th.lease /\ next.lease # c
                  /\ next.lease \in Range(next.retire) => next.after = "invalidated"
      <4>1. th.after # "invalidated" /\ next.lease = th.lease
        BY <3>5, <3>10, <3>12, <3>13
      <4> QED
        BY <3>3, <3>5, <3>10, <3>11, <3>13, <4>1
    <3>14. (next.lease = NoChannel /\ th.lease # NoChannel) => th.lease = c
      BY <3>5, <3>10, <3>12
    <3> QED
      BY <3>10, <3>13, <3>14 DEF ContinueAsks
  <2> QED
    BY <1>2, <2>1, <2>2 DEF RetiringWorkers, LeavingChannel
<1>10. \A d \in Channels \ {c} : Continues(t, d)
  BY <1>1, <1>7 DEF Continues, Healthy, Recorded, RecordOf
<1>11. GivenUp(c) /\ ~InUse(c)'
  BY <1>6, <1>8 DEF GivenUp, InUse, Serving
<1>12. ChannelsServe(t)
  BY <1>10, <1>11 DEF ChannelsServe
<1>13. Untouched(t)
  BY <1>2, <1>3, <1>7 DEF Untouched
<1>14. ASSUME NEW d \in Channels, InUse(d)' PROVE d # c /\ InUse(d)
  <2>1. d # c
    BY <1>11, <1>14
  <2>2. ASSUME NEW g \in Graphs, thr'[g].lease = d PROVE thr[g].lease = d
    <3>1. d # NoChannel
      BY ControlAssumption DEF NoChannel
    <3> QED
      BY <1>7, <1>9, <2>2, <3>1 DEF Threads
  <2>3. Recorded(d)' => Recorded(d)
    BY <1>10, <2>1 DEF Continues
  <2>4. Serving(d)' => Serving(d)
    BY <1>7, <2>1 DEF Serving, Healthy
  <2> QED
    BY <1>14, <2>1, <2>2, <2>3, <2>4 DEF InUse, Leased
<1>15. OwnId(next)'
  <2> SUFFICES ASSUME Transacting(next), next.req.by = "client", NEW d, d = next.chan, InUse(d)'
               PROVE  /\ \A r \in Range(toWorker'[d]) : ~(r.by = "client" /\ r.id = next.req.id)
                      /\ \A e \in Answers(d)' : e.id # next.req.id
    BY DEF OwnId
  <2>1. d \in Channels
    <3>1. next.lease \in Channels \cup {NoChannel} /\ next.chan \in Channels \cup {NoChannel}
      BY TurnFacts DEF Turn, ThreadStates
    <3>2. Asks(t, next) /\ next.ret \in LeaseLabels
      BY DEF Turn, TakesTurn, Asks
    <3>3. next.ret \notin {"close", "handshaken"}
      BY <3>2 DEF LeaseLabels
    <3>4. OnLease(next)
      <4>1. OutlineOf(t, next) /\ Place(next) = next.ret /\ next.pc \in TransactionLabels
        BY DEF Turn, TakesTurn, Place, Transacting
      <4> QED
        BY <3>2, <4>1 DEF OutlineOf, Resting, Acquiring, Handshaking, RetiringWorkers, LeavingChannel, Finished,
          LeaseLabels, TransactionLabels, TeardownLabels
    <3>5. next.chan = next.lease /\ next.lease # NoChannel
      BY <3>4 DEF OnLease
    <3> QED
      BY <3>1, <3>5
  <2>2. d # c /\ InUse(d)
    BY <1>14, <2>1
  <2>3. toWorker'[d] = toWorker[d] /\ Answers(d)' = Answers(d)
    BY <1>7, <2>1, <2>2 DEF Answers
  <2>4. \A e \in Answers(d) : e.by = "client"
    BY <2>1, <2>2 DEF ServeInv, ManagerSilent
  <2> QED
    BY <1>9, <2>1, <2>3, <2>4 DEF Speaks
<1>16. ASSUME next.lease # NoChannel PROVE LeaseBegun(t, next)' /\ next.lease = thr[t].lease /\ Stands(t, next, next.lease)'
  <2>1. PICK d \in Channels : d = next.lease /\ d = th.lease /\ d # c
    BY <1>2, <1>9, <1>16 DEF ThreadStates
  <2>2. Begun(d) /\ Stands(t, th, d) /\ t \in Graphs
    BY <1>16, <2>1 DEF ServeInv, LeasesBegun, LeaseBegun, ClientsStand
  <2>3. Begun(d)'
    BY <1>7, <2>1, <2>2 DEF Begun, WorkerStarted
  <2>4. Clean(t, d)
    <3>1. ~th.running /\ Place(th) = "terminate"
      BY <1>1, <1>2 DEF RetiringWorkers, LeavingChannel, Place, Transacting, TransactionLabels
    <3> QED
      BY <2>2, <3>1 DEF Stands
  <2>5. Clean(t, d)'
    BY <1>7, <1>10, <2>1, <2>4 DEF Clean, Continues
  <2>6. Stands(t, next, d)'
    BY <1>9, <1>16, <2>5 DEF Stands
  <2> QED
    BY <1>9, <1>16, <2>1, <2>2, <2>3, <2>6 DEF LeaseBegun
<1>17. OwnLease(t, next)
  BY <1>16 DEF OwnLease, LeaseBegun
<1>18. OwnTraces(t, next)
  <2> SUFFICES ASSUME NEW d \in Channels
               PROVE  /\ InUse(d)' => \A r \in Range(toWorker'[d]) : ~(r.kind \in SessionKinds /\ r.graph = t)
                      /\ (Recorded(d)' /\ t \in Graphs /\ t \in proc'[d].graphs) => next.lease = d
    BY DEF OwnTraces
  <2>1. ASSUME InUse(d)', NEW r \in Range(toWorker'[d]), r.kind \in SessionKinds, r.graph = t PROVE FALSE
    <3>1. d # c /\ InUse(d)
      BY <1>14, <2>1
    <3> QED
      BY <1>1, <1>7, <2>1, <3>1, OwnOnTheWay
  <2>2. ASSUME Recorded(d)', t \in Graphs, t \in proc'[d].graphs PROVE next.lease = d
    <3>1. d # c
      BY <1>8, <2>2
    <3>2. th.lease = d /\ d # NoChannel
      BY <1>7, <1>10, <2>2, <3>1, ControlAssumption DEF ServeInv, NoOrphans, Continues, NoChannel
    <3> QED
      BY <1>9, <3>1, <3>2
  <2> QED
    BY <2>1, <2>2
<1>19. ASSUME next.spawned # NoChannel PROVE HandshakeOf(next, next.spawned)'
  <2>1. next.pc = "ensure" /\ next.spawned \in Channels /\ Free(next.spawned)
    BY <1>9, <1>19 DEF Speaks
  <2>2. next.spawned # c
    BY <1>2, <1>3, <2>1 DEF Free
  <2>3. chan'[next.spawned] = chan[next.spawned]
    BY <1>7, <2>1, <2>2
  <2> QED
    BY <2>1, <2>3, FreeIsEmpty DEF HandshakeOf, Open
<1>20. Serves(t, next)
  BY <1>7, <1>9, <1>12, <1>13, <1>15, <1>17, <1>18, <1>19 DEF Serves, OwnServes, Speaks
<1>21. AnswersRead'
  <2>1. \A d \in Channels : /\ chan'[d].responses \subseteq chan[d].responses
                            /\ HasReader(d) => chan'[d].reader # "none" \/ chan'[d].responses = {}
                            /\ d = c => chan'[d].responses = {}
    BY <1>6, <1>7 DEF HasReader
  <2> SUFFICES ASSUME NEW d \in Channels
               PROVE  \/ chan'[d].reader # "none" \/ chan'[d].responses = {}
                      \/ \E u \in Threads : thr'[u].pc = "terminate" /\ thr'[u].chan = d
    BY DEF AnswersRead, HasReader
  <2>2. \/ HasReader(d) \/ chan[d].responses = {}
        \/ \E u \in Threads : thr[u].pc = "terminate" /\ thr[u].chan = d
    BY DEF ServeInv, AnswersRead
  <2> QED
    BY <1>3, <1>7, <2>1, <2>2
<1> QED
  BY <1>20, <1>21

-----------------------------------------------------------------------------
(* The graphs in the workers: the client's own steps.                      *)

\* A client's step touches no channel but that of its lease, where it is
\* registered or not; or the channel goes with its last reference.
ClientTouches(t) ==
    \A d \in Channels :
        \/ chan'[d] = chan[d]
        \/ /\ d = thr[t].lease
           /\ \/ /\ chan'[d].responses = chan[d].responses /\ chan[d].handlers \ {t} \subseteq chan'[d].handlers
                 /\ chan'[d].failed = chan[d].failed /\ chan'[d].shutdown = chan[d].shutdown
              \/ /\ LeftAlone(t, d) /\ ~chan'[d].fd /\ chan'[d].responses = {} /\ thr'[t].lease # d

\* The new worker whose handshake was accepted is empty.
LEMMA OpenedEmpty ==
    ASSUME LeaseInv, ServeInv, NEW t \in Threads, Handshaken(t), NEW d \in Channels, d = thr[t].spawned
    PROVE  toWorker[d] = << >> /\ toClient[d] = << >> /\ chan[d].responses = {} /\ proc[d].graphs = {}
<1>1. d # NoChannel /\ toClient \in [Channels -> Seq(Events)] /\ toClient[d] \in Seq(Events)
  BY ControlAssumption DEF NoChannel, LeaseInv, Types
<1>2. HandshakeOf(thr[t], d)
  BY <1>1 DEF ServeInv, HandshakesEmpty
<1>3. proc[d].graphs = {} /\ toWorker[d] = << >> /\ Answers(d) = {}
  BY <1>2 DEF HandshakeOf, Handshaken
<1>4. Range(toClient[d]) = {} /\ chan[d].responses = {}
  BY <1>3 DEF Answers
<1>5. toClient[d] = << >>
  <2>1. ~(1 \in DOMAIN toClient[d])
    BY <1>4 DEF Range
  <2>2. Len(toClient[d]) \in Nat /\ DOMAIN toClient[d] = 1..Len(toClient[d])
    BY <1>1
  <2>3. Len(toClient[d]) = 0
    BY <2>1, <2>2
  <2> QED
    BY <1>1, <2>3, EmptySeq
<1> QED
  BY <1>3, <1>4, <1>5

LEMMA ClientServes ==
    ASSUME LeaseInv, LeaseInv', ServeInv, NEW t \in Threads, NEW next, next = thr'[t], NEW c, c = thr[t].lease,
           ClientTurn(t), ClientTouches(t),
           thr[t].pc \notin TransactionLabels \cup TeardownLabels, Speaks(t, next),
           next.lease # NoChannel =>
               /\ t \in Graphs
               /\ next.lease = c \/ Recorded(next.lease)'
               /\ next.lease \in Range(next.retire) => next.after = "invalidated"
               /\ Stands(t, next, next.lease)',
           (c # NoChannel /\ next.lease # c) => Clean(t, c)',
           (thr[t].pc \in {"startAnswered", "stopAnswered"} /\ thr[t].resp = Failed) => ~Recorded(c)'
    PROVE  Serves(t, next) /\ AnswersRead'
<1>1. /\ Turn(t) /\ UNCHANGED <<toWorker, toClient, proc>> /\ RecordsFollow(t)
      /\ \A d \in Channels : chan'[d].fd = chan[d].fd /\ chan'[d].pid = chan[d].pid /\ chan'[d].reader = chan[d].reader
      /\ \A u \in Threads \ {t} : thr'[u] = thr[u]
      /\ next \in ThreadStates /\ Asks(t, next) /\ OutlineOf(t, next)
  BY TurnFacts DEF ClientTurn, Turn, TakesTurn
<1>2. workers' \subseteq Records /\ thr[t] \in ThreadStates /\ Graphs \subseteq Threads
  BY DEF LeaseInv, Types, Threads
<1>3. ASSUME NEW d \in Channels, Recorded(d)', ~Recorded(d) PROVE Opened(t, d)
  <2>1. PICK r \in workers' : r.chan = d
    BY <1>3 DEF Recorded, RecordOf
  <2>2. d = thr[t].spawned /\ d # NoChannel /\ Handshaken(t)
    BY <1>1, <1>3, <2>1 DEF RecordsFollow, Recorded, RecordOf
  <2>3. toWorker[d] = << >> /\ toClient[d] = << >> /\ chan[d].responses = {} /\ proc[d].graphs = {}
    BY <2>2, OpenedEmpty
  <2>4. chan'[d].responses = {}
    BY <2>3 DEF ClientTouches
  <2> QED
    BY <1>1, <2>2, <2>3, <2>4 DEF Opened
<1>4. ASSUME NEW d \in Channels, ~Opened(t, d) PROVE Continues(t, d) \/ (GivenUp(d) /\ ~InUse(d)' /\ ~Recorded(d)')
  <2>1. Recorded(d)' => Recorded(d)
    BY <1>3, <1>4
  <2>2. CASE chan'[d] = chan[d]
    BY <1>1, <2>1, <2>2 DEF Continues, Healthy
  <2>3. CASE /\ chan'[d].responses = chan[d].responses /\ chan[d].handlers \ {t} \subseteq chan'[d].handlers
             /\ chan'[d].failed = chan[d].failed /\ chan'[d].shutdown = chan[d].shutdown
    BY <1>1, <2>1, <2>3 DEF Continues, Healthy
  <2>4. CASE LeftAlone(t, d) /\ ~chan'[d].fd
    BY <2>4 DEF LeftAlone, GivenUp, Recorded, RecordOf, Healthy, InUse, Serving
  <2> QED
    BY <2>2, <2>3, <2>4 DEF ClientTouches
<1>5. ChannelsServe(t)
  BY <1>4 DEF ChannelsServe
<1>6. Untouched(t)
  <2>1. thr[t].lease \in References(t)
    BY DEF References
  <2> QED
    BY <1>1, <2>1 DEF Untouched, ClientTouches
<1>7. ASSUME NEW d \in Channels, InUse(d)', ~Opened(t, d) PROVE InUse(d) /\ Continues(t, d)
  <2>1. Continues(t, d)
    BY <1>4, <1>7
  <2>2. CASE Recorded(d)'
    BY <2>1, <2>2 DEF Continues, InUse
  <2>3. CASE Serving(d)' /\ Leased(d)' /\ ~Recorded(d)'
    <3>1. PICK g \in Graphs : thr'[g].lease = d
      BY <2>3 DEF Leased
    <3>2. d # NoChannel
      BY ControlAssumption DEF NoChannel
    <3>3. thr[g].lease = d
      BY <1>1, <1>2, <2>3, <3>1, <3>2
    <3>4. Serving(d)
      BY <2>1, <2>3 DEF Continues, Serving
    <3> QED
      BY <2>1, <3>3, <3>4 DEF InUse, Leased
  <2> QED
    BY <1>7, <2>1, <2>2, <2>3 DEF InUse
<1>8. OwnId(next)'
  <2> SUFFICES ASSUME Transacting(next), next.req.by = "client", NEW d, d = next.chan, InUse(d)'
               PROVE  /\ \A r \in Range(toWorker'[d]) : ~(r.by = "client" /\ r.id = next.req.id)
                      /\ \A e \in Answers(d)' : e.id # next.req.id
    BY DEF OwnId
  <2>1. d \in Channels
    <3>1. next.lease \in Channels \cup {NoChannel}
      BY <1>1 DEF ThreadStates
    <3>2. next.ret \in LeaseLabels
      BY <1>1 DEF Asks
    <3>3. OnLease(next)
      <4>1. Place(next) = next.ret /\ next.pc \in TransactionLabels
        BY DEF Place, Transacting
      <4> QED
        BY <1>1, <3>2, <4>1 DEF OutlineOf, Resting, Acquiring, Handshaking, RetiringWorkers, LeavingChannel, Finished,
          LeaseLabels, TransactionLabels, TeardownLabels
    <3>4. next.chan = next.lease /\ next.lease # NoChannel
      BY <3>3 DEF OnLease
    <3> QED
      BY <3>1, <3>4
  <2>2. CASE Opened(t, d)
    BY <2>2 DEF Opened, Answers, Range
  <2>3. CASE ~Opened(t, d)
    <3>1. InUse(d) /\ Continues(t, d)
      BY <1>7, <2>1, <2>3
    <3>2. Answers(d)' \subseteq Answers(d) /\ \A e \in Answers(d) : e.by = "client"
      BY <2>1, <3>1 DEF ServeInv, ManagerSilent, Continues, Answers
    <3>3. \A x \in Range(toWorker[d]) \cup Answers(d) : x.by = "client" => x.id # next.req.id
      BY <2>1 DEF Speaks
    <3> QED
      BY <1>1, <3>2, <3>3
  <2> QED
    BY <2>2, <2>3
<1>9. ASSUME next.lease # NoChannel PROVE Begun(next.lease)'
  <2>1. PICK d \in Channels : d = next.lease
    BY <1>1, <1>9 DEF ThreadStates
  <2>2. CASE Recorded(d)'
    <3>1. PICK r \in workers' : r.chan = d
      BY <2>2 DEF Recorded, RecordOf
    <3>2. \A s \in workers' : Begun(s.chan)'
      BY DEF LeaseInv, RecordsCount
    <3> QED
      BY <2>1, <3>1, <3>2
  <2>3. CASE thr[t].lease = d
    <3>1. Begun(d)
      BY <1>9, <2>1, <2>3 DEF ServeInv, LeasesBegun, LeaseBegun
    <3>2. chan'[d].failed = chan[d].failed /\ chan'[d].shutdown = chan[d].shutdown
      BY <2>1 DEF ClientTouches
    <3> QED
      BY <1>1, <2>1, <3>1, <3>2 DEF Begun, WorkerStarted
  <2> QED
    BY <1>9, <2>1, <2>2, <2>3
<1>10. OwnLease(t, next)
  BY <1>9 DEF OwnLease, LeaseBegun
<1>11. OwnTraces(t, next)
  <2> SUFFICES ASSUME NEW d \in Channels
               PROVE  /\ InUse(d)' => \A r \in Range(toWorker'[d]) : ~(r.kind \in SessionKinds /\ r.graph = t)
                      /\ (Recorded(d)' /\ t \in Graphs /\ t \in proc'[d].graphs) => next.lease = d
    BY DEF OwnTraces
  <2>1. ASSUME InUse(d)', NEW r \in Range(toWorker'[d]), r.kind \in SessionKinds, r.graph = t PROVE FALSE
    <3>1. ~Opened(t, d)
      BY <2>1 DEF Opened, Range
    <3>2. InUse(d) /\ Continues(t, d)
      BY <1>7, <2>1, <3>1
    <3>3. Owns(thr[t], d, r)
      BY <1>1, <2>1, <3>2 DEF ServeInv, OwnRequests
    <3>4. thr[t].pc # "wait"
      BY DEF TransactionLabels
    <3>5. ~Recorded(d)' /\ Down(d) /\ thr[t].lease = d
      BY <3>3, <3>4 DEF Owns
    <3>6. ~Healthy(d)'
      BY <3>2, <3>5 DEF Continues, Healthy, Down
    <3> QED
      BY <2>1, <3>5, <3>6 DEF InUse, Serving
  <2>2. ASSUME Recorded(d)', t \in Graphs, t \in proc'[d].graphs PROVE next.lease = d
    <3>1. Recorded(d)
      BY <1>3, <2>2 DEF Opened
    <3>2. thr[t].lease = d /\ d # NoChannel
      BY <1>1, <2>2, <3>1, ControlAssumption DEF ServeInv, NoOrphans, NoChannel
    <3> QED
      BY <2>2, <3>2 DEF Clean
  <2> QED
    BY <2>1, <2>2
<1>12. ASSUME next.spawned # NoChannel PROVE HandshakeOf(next, next.spawned)'
  <2>1. next.pc = "ensure" /\ next.spawned \in Channels /\ Free(next.spawned)
    BY <1>12 DEF Speaks
  <2>2. next.spawned # thr[t].lease
    BY <2>1 DEF Free, References
  <2>3. chan'[next.spawned] = chan[next.spawned]
    BY <2>1, <2>2 DEF ClientTouches
  <2> QED
    BY <2>1, <2>3, FreeIsEmpty DEF HandshakeOf, Open
<1>13. Serves(t, next)
  BY <1>1, <1>5, <1>6, <1>8, <1>10, <1>11, <1>12 DEF Serves, OwnServes, Speaks
<1>14. AnswersRead'
  <2>1. \A d \in Channels : /\ chan'[d].responses \subseteq chan[d].responses
                            /\ HasReader(d) => chan'[d].reader # "none"
    BY <1>1 DEF ClientTouches, HasReader
  <2>2. thr[t].pc # "terminate"
    BY DEF TeardownLabels
  <2> QED
    BY <1>1, <2>1, <2>2, AnswersStay
<1> QED
  BY <1>13, <1>14

\* Nothing else of a client's step matters: it stays on its lease, or has none.
LEMMA StaysServes ==
    ASSUME LeaseInv, LeaseInv', ServeInv, NEW g \in Graphs, NEW next, next = thr'[g], NEW c, c = thr[g].lease,
           ClientTurn(g), UNCHANGED <<chan, workers>>,
           thr[g].pc \notin TransactionLabels \cup TeardownLabels, Speaks(g, next),
           next.lease = c, next.retire = << >>, c # NoChannel => Stands(g, next, c)',
           thr[g].pc \in {"startAnswered", "stopAnswered"} => thr[g].resp # Failed
    PROVE  Serves(g, next) /\ AnswersRead'
<1>1. PICK t \in Threads : t = g
  BY DEF Threads
<1>2. ClientTouches(t) /\ Range(<< >>) = {}
  BY DEF ClientTouches, Range
<1>3. next.lease \notin Range(next.retire)
  BY <1>2
<1>4. next = thr'[t] /\ c = thr[t].lease /\ ClientTurn(t) /\ thr[t].pc \notin TransactionLabels \cup TeardownLabels
      /\ Speaks(t, next)
  BY <1>1
<1>5. /\ t \in Graphs /\ c # NoChannel => Stands(t, next, next.lease)'
      /\ thr[t].pc \in {"startAnswered", "stopAnswered"} => thr[t].resp # Failed
  BY <1>1
<1> QED
  BY <1>1, <1>2, <1>3, <1>4, <1>5, ClientServes

\* A thread without a lease, before and after.
LEMMA LeaselessServes ==
    ASSUME LeaseInv, LeaseInv', ServeInv, NEW t \in Threads, NEW next, next = thr'[t],
           ClientTurn(t), UNCHANGED chan, thr[t].lease = NoChannel,
           thr[t].pc \in {"idle", "acquire", "handshaken"}, Speaks(t, next), next.lease = NoChannel
    PROVE  Serves(t, next) /\ AnswersRead'
<1>1. ClientTouches(t)
  BY DEF ClientTouches
<1>2. PICK c : c = thr[t].lease
  OBVIOUS
<1>3. thr[t].pc \notin TransactionLabels \cup TeardownLabels /\ thr[t].pc \notin {"startAnswered", "stopAnswered"}
  BY DEF TransactionLabels, TeardownLabels
<1> QED
  BY <1>1, <1>2, <1>3, ClientServes

LEMMA QuietSpeaks ==
    ASSUME NEW t, NEW next, ~Transacting(next), next.spawned = NoChannel
    PROVE  Speaks(t, next)
BY DEF Speaks, AsksAbout

LEMMA StartCallServes ==
    ASSUME LeaseInv, ServeInv, NEW g \in Graphs, NEW next, next = thr'[g],
           \E runtime \in RuntimesOf[g] : StartCall(g, runtime)
    PROVE  Serves(g, next) /\ AnswersRead'
<1>1. PICK runtime \in RuntimesOf[g] : StartCall(g, runtime)
  OBVIOUS
<1>2. LeaseInv' /\ ClientTurn(g) /\ g \in Threads
  BY <1>1, StartCallKeeps DEF Threads
<1>3. /\ thr[g].pc = "idle" /\ ~thr[g].running /\ UNCHANGED chan
      /\ thr' = [thr EXCEPT ![g] = [@ EXCEPT !.pc = "acquire", !.rt = runtime]]
  BY <1>1 DEF StartCall
<1>4. Resting(g, thr[g]) /\ thr[g] \in ThreadStates /\ thr \in [Threads -> ThreadStates]
  BY <1>2, <1>3, PlaceFacts DEF Types
<1>5. thr[g].lease = NoChannel /\ next.lease = NoChannel /\ next.spawned = NoChannel /\ next.pc = "acquire"
  BY <1>2, <1>3, <1>4 DEF ThreadStates, Resting, HoldsOnly
<1>6. Speaks(g, next)
  BY <1>5, QuietSpeaks DEF Transacting, TransactionLabels
<1> QED
  BY <1>2, <1>3, <1>5, <1>6, LeaselessServes

LEMMA AcquireFailsServes ==
    ASSUME LeaseInv, ServeInv, NEW g \in Graphs, NEW next, next = thr'[g], AcquireFails(g)
    PROVE  Serves(g, next) /\ AnswersRead'
<1>1. LeaseInv' /\ ClientTurn(g) /\ g \in Threads
  BY AcquireFailsKeeps DEF Threads
<1>2. thr[g].pc = "acquire" /\ UNCHANGED chan /\ thr' = [thr EXCEPT ![g] = NewThread]
  BY DEF AcquireFails
<1>3. thr[g].lease = NoChannel /\ next = NewThread
  BY <1>1, <1>2, PlaceFacts DEF Types, Acquiring, HoldsOnly
<1>4. next.lease = NoChannel /\ Speaks(g, next)
  BY <1>1, <1>3, NewThreadRests, QuietSpeaks DEF Transacting, TransactionLabels
<1> QED
  BY <1>1, <1>2, <1>3, <1>4, LeaselessServes

LEMMA HandshakeFailsServes ==
    ASSUME LeaseInv, ServeInv, NEW g \in Graphs, NEW next, next = thr'[g], HandshakeFails(g)
    PROVE  Serves(g, next) /\ AnswersRead'
<1>1. LeaseInv' /\ ClientTurn(g) /\ g \in Threads
  BY HandshakeFailsKeeps DEF Threads
<1>2. thr[g].pc = "handshaken" /\ UNCHANGED chan
  BY DEF HandshakeFails
<1>3. thr[g] \in ThreadStates /\ Handshaking(thr[g]) /\ thr \in [Threads -> ThreadStates]
  BY <1>1, <1>2, PlaceFacts DEF Types
<1> DEFINE th == [thr[g] EXCEPT !.spawned = NoChannel]
<1>4. th \in ThreadStates /\ th.lease = NoChannel /\ th.spawned = NoChannel /\ th.retire = << >> /\ ~th.running
  BY <1>3 DEF ThreadStates, Handshaking, HoldsOnly
<1>5. PICK c \in Channels : c = thr[g].spawned
  BY <1>3 DEF Handshaking, ThreadStates
<1>6. next = Closing(th, c, "returned")
  BY <1>1, <1>3, <1>5 DEF HandshakeFails
<1> HIDE DEF th
<1>7. next.lease = NoChannel /\ next.spawned = NoChannel /\ next.pc = "close"
  BY <1>1, <1>4, <1>6, ClosingKeeps
<1>8. Speaks(g, next) /\ thr[g].lease = NoChannel
  BY <1>3, <1>7, QuietSpeaks DEF Transacting, TransactionLabels, Handshaking, HoldsOnly
<1> QED
  BY <1>1, <1>2, <1>7, <1>8, LeaselessServes

\* A client that calls on its lease is running: it stays served.
LEMMA CallOnLeaseServes ==
    ASSUME LeaseInv, ServeInv, NEW g \in Graphs, thr[g].running, thr[g].pc \in {"idle", "statsHealthChecked"},
           NEW kind \in {"StopSessions", "HealthCheck", "Stats"}, NEW ret \in {"stopAnswered", "statsHealthChecked", "statsAnswered"},
           kind = "StopSessions" <=> ret = "stopAnswered",
           NEW next \in CallsOnLease(g, kind, ret), thr' = [thr EXCEPT ![g] = next],
           UNCHANGED <<chan, toWorker, toClient, proc, workers>>
    PROVE  Serves(g, next) /\ AnswersRead'
<1>1. g \in Threads /\ (thr[g].pc = "idle" \/ thr[g].pc \in LeaseLabels)
  BY DEF LeaseLabels, Threads
<1>2. LeaseInv' /\ ClientTurn(g) /\ g \in Threads
  BY <1>1, CallOnLeaseKeeps DEF Threads
<1>3. /\ thr[g] \in ThreadStates /\ thr \in [Threads -> ThreadStates] /\ thr[g].lease # NoChannel
      /\ HoldsOnly(thr[g], thr[g].lease, NoChannel)
  BY <1>1, <1>2, PlaceFacts DEF Resting, OnLease, HoldsOnly, Types
<1>4. PICK c \in Channels, th \in ThreadStates : c = thr[g].lease /\ th = thr[g]
  BY <1>3 DEF ThreadStates
<1>5. next \in Calls(g, th, c, kind, "client", ret)
  BY <1>4 DEF CallsOnLease
<1>a. next = thr'[g]
  BY <1>2, <1>3
<1>6. kind \in RequestKinds /\ ret \in Returns /\ AskedAt(kind, ret) /\ "client" \in {"client", "manager"}
  BY DEF RequestKinds, Returns, LeaseLabels, AskedAt
<1>7. /\ Speaks(g, next) /\ next.pc = "ensure" /\ Place(next) = ret /\ next.lease = c /\ next.retire = << >>
      /\ next.running
  <2>1. th.spawned = NoChannel /\ th.lease = c /\ th.retire = << >> /\ th.running
    BY <1>3, <1>4 DEF HoldsOnly
  <2>a. PICK k \in RequestKinds, by \in {"client", "manager"}, at \in Returns : k = kind /\ by = "client" /\ at = ret
    BY <1>6
  <2>b. next \in Calls(g, th, c, k, by, at) /\ AskedAt(k, at)
    BY <1>5, <1>6, <2>a
  <2>c. g \in Threads /\ (th.spawned # NoChannel => th.spawned \in Channels /\ Free(th.spawned))
    BY <1>2, <2>1
  <2>2. Speaks(g, next) /\ next.pc = "ensure" /\ Place(next) = ret /\ next.lease = th.lease
        /\ next.retire = th.retire /\ next.running = th.running
    <3>1. Speaks(g, next) /\ next.pc = "ensure" /\ Place(next) = at /\ next.lease = th.lease
          /\ next.retire = th.retire /\ next.running = th.running
      BY <2>b, <2>c, CallSpeaks
    <3> QED
      BY <2>a, <3>1
  <2> QED
    BY <2>1, <2>2
<1>8. Served(g, c) /\ Registered(g, c)
  <2>1. Stands(g, thr[g], c)
    BY <1>3, <1>4 DEF ServeInv, ClientsStand
  <2>2. Place(thr[g]) \notin {"startAnswered", "stopAnswered"}
    BY DEF Place, Transacting, TransactionLabels
  <2> QED
    BY <2>1, <2>2 DEF Stands
<1>9. Served(g, c)' /\ Registered(g, c)'
  BY <1>8 DEF Served, Registered, Serving, Healthy
<1>10. Stands(g, next, c)'
  BY <1>7, <1>9 DEF Stands, Stopping
<1>11. thr[g].pc \notin TransactionLabels \cup TeardownLabels /\ thr[g].pc \notin {"startAnswered", "stopAnswered"}
  BY DEF TransactionLabels, TeardownLabels
<1> QED
  BY <1>2, <1>4, <1>a, <1>7, <1>10, <1>11, StaysServes

\* start() or stats() has its last answer: the client is served.
LEMMA AnsweredServes ==
    ASSUME LeaseInv, ServeInv, NEW g \in Graphs, NEW next, next = thr'[g], thr[g].pc \in LeaseLabels,
           thr' = [thr EXCEPT ![g] = Idle([thr[g] EXCEPT !.running = TRUE])],
           UNCHANGED <<chan, toWorker, toClient, proc, workers>>,
           \/ thr[g].pc = "startAnswered" /\ thr[g].resp.kind = "Started"
           \/ thr[g].pc = "statsAnswered"
    PROVE  Serves(g, next) /\ AnswersRead'
<1>1. LeaseInv' /\ ClientTurn(g) /\ g \in Threads
  BY AnsweredKeeps DEF Threads
<1>2. /\ thr[g] \in ThreadStates /\ OnLease(thr[g]) /\ thr \in [Threads -> ThreadStates] /\ thr[g].lease \in Channels
      /\ thr[g].lease # NoChannel
  BY LeaseFacts DEF Types
<1>3. PICK c \in Channels : c = thr[g].lease
  BY <1>2
<1>4. /\ next.pc = "idle" /\ next.lease = c /\ next.running /\ next.spawned = NoChannel /\ next.retire = << >>
  <2> DEFINE w == [NewThread EXCEPT !.rt = thr[g].rt, !.lease = thr[g].lease, !.handler = thr[g].handler, !.running = TRUE]
  <2>1. Idle([thr[g] EXCEPT !.running = TRUE]) = w
    BY <1>2 DEF Idle, ThreadStates
  <2>2. next = w
    BY <1>1, <1>2, <2>1
  <2>3. w.pc = NewThread.pc /\ w.lease = c /\ w.running /\ w.spawned = NewThread.spawned /\ w.retire = NewThread.retire
    BY <1>3 DEF NewThread
  <2> HIDE DEF w
  <2> QED
    BY <1>1, <2>2, <2>3, NewThreadRests
<1>5. ~Transacting(thr[g]) /\ Place(thr[g]) = thr[g].pc
  BY DEF Place, Transacting, TransactionLabels
<1>6. Stands(g, thr[g], c)
  BY <1>2, <1>3 DEF ServeInv, ClientsStand
<1>7. Served(g, c) /\ Registered(g, c)
  <2>1. CASE thr[g].pc = "startAnswered" /\ thr[g].resp.kind = "Started"
    BY <1>5, <1>6, <2>1 DEF Stands, Starting, StartTells
  <2>2. CASE thr[g].pc = "statsAnswered"
    BY <1>2, <1>5, <1>6, <2>2 DEF Stands, OnLease
  <2> QED
    BY <2>1, <2>2
<1>8. Served(g, c)' /\ Registered(g, c)'
  BY <1>7 DEF Served, Registered, Serving, Healthy
<1>9. ~Transacting(next) /\ Place(next) = "idle"
  BY <1>4 DEF Place, Transacting, TransactionLabels
<1>10. Stands(g, next, c)' /\ Speaks(g, next)
  BY <1>4, <1>8, <1>9, QuietSpeaks DEF Stands
<1>11. thr[g].pc \notin TransactionLabels \cup TeardownLabels
       /\ (thr[g].pc \in {"startAnswered", "stopAnswered"} => thr[g].resp # Failed)
  <2>1. Failed.kind = "failed"
    BY DEF Failed, NoEvent
  <2> QED
    BY <2>1 DEF TransactionLabels, TeardownLabels
<1> QED
  BY <1>1, <1>3, <1>4, <1>10, <1>11, StaysServes

\* What Retiring leaves of a thread, and what its client knows then.
LEMMA RetiringStands ==
    ASSUME LeaseInv, NEW t \in Threads, NEW th \in ThreadStates, th.spawned = NoChannel, ~th.running,
           NEW cs \in Seq(Channels), NEW after \in {"acquired", "invalidated", "done"},
           after = "acquired" => th.rt \in Runtimes,
           after = "invalidated" => cs = <<th.lease>>,
           after = "done" => th.lease = NoChannel /\ t = Exit,
           NEW next \in Retiring(t, th, cs, after)
    PROVE  /\ Speaks(t, next) /\ next.lease = th.lease /\ next.retire = cs
           /\ cs # << >> => next.after = after
           /\ (next.lease # NoChannel /\ Clean(t, next.lease)') => Stands(t, next, next.lease)'
<1>1. PICK w : w.after = after /\ ContinueAsks(t, w, next) /\ ~next.running
  BY RetiringSpeaks
<1>2. next.lease = th.lease /\ next.retire = cs
  BY RetiringKeeps
<1>3. Speaks(t, next) /\ (cs # << >> => next.after = after)
  BY <1>1, <1>2 DEF ContinueAsks
<1>4. ASSUME next.lease # NoChannel, Clean(t, next.lease)' PROVE Stands(t, next, next.lease)'
  <2>1. Place(next) \notin {"startAnswered", "stopAnswered"} /\ ~next.running
    BY <1>1, <1>4 DEF ContinueAsks
  <2> QED
    BY <1>4, <2>1 DEF Stands
<1> QED
  BY <1>2, <1>3, <1>4

\* A client without a lease has no graph in a worker of the records.
LEMMA LeaselessIsClean ==
    ASSUME ServeInv, NEW g \in Graphs, thr[g].lease = NoChannel, NEW d \in Channels, Recorded(d)
    PROVE  g \notin proc[d].graphs
<1>1. d # NoChannel
  BY ControlAssumption DEF NoChannel
<1> QED
  BY <1>1 DEF ServeInv, NoOrphans

\* A client without a lease gets that of the worker of channel d, a recorded one.
LEMMA LeasingServes ==
    ASSUME LeaseInv, LeaseInv', ServeInv, NEW g \in Graphs, NEW next, next = thr'[g],
           thr[g].pc \in {"acquire", "handshaken"}, thr[g].lease = NoChannel,
           ClientTurn(g), UNCHANGED <<chan, proc>>,
           NEW d \in Channels, NEW cs \in Seq(Channels), d \notin Range(cs), Recorded(d)', g \notin proc[d].graphs,
           NEW th \in ThreadStates, th.spawned = NoChannel, ~th.running, th.rt \in Runtimes,
           \E n \in Retiring(g, [th EXCEPT !.lease = d], cs, "acquired") : thr' = [thr EXCEPT ![g] = n]
    PROVE  Serves(g, next) /\ AnswersRead'
<1>1. g \in Threads /\ thr \in [Threads -> ThreadStates]
  BY DEF Threads, LeaseInv, Types
<1>2. PICK w : w = [th EXCEPT !.lease = d]
  OBVIOUS
<1>3. w \in ThreadStates /\ w.lease = d /\ w.spawned = NoChannel /\ w.running = th.running /\ w.rt = th.rt
  BY <1>2 DEF ThreadStates
<1>4. PICK n \in Retiring(g, w, cs, "acquired") : thr' = [thr EXCEPT ![g] = n]
  BY <1>2
<1>5. n = next
  BY <1>1, <1>4
<1>6. /\ Speaks(g, n) /\ n.lease = w.lease /\ n.retire = cs
      /\ (n.lease # NoChannel /\ Clean(g, n.lease)') => Stands(g, n, n.lease)'
  BY <1>1, <1>3, <1>4, RetiringStands
<1>7. Clean(g, d)' /\ d # NoChannel
  BY ControlAssumption DEF Clean, NoChannel
<1>8. n.lease = d /\ Stands(g, n, n.lease)'
  BY <1>3, <1>6, <1>7
<1>9. thr[g].pc \notin TransactionLabels \cup TeardownLabels /\ thr[g].pc \notin {"startAnswered", "stopAnswered"}
  BY DEF TransactionLabels, TeardownLabels
<1>10. ClientTouches(g)
  BY DEF ClientTouches
<1>11. PICK l : l = thr[g].lease
  OBVIOUS
<1>12. Speaks(g, next) /\ next.lease = d /\ next.retire = cs /\ Stands(g, next, next.lease)'
  BY <1>5, <1>6, <1>8
<1> QED
  BY <1>1, <1>9, <1>10, <1>11, <1>12, ClientServes

LEMMA GraphIsRecorded ==
    ASSUME NEW rs, NEW r \in Records, NEW g
    PROVE  \E p \in WithGraph(rs, r, g) : p.chan = r.chan
<1>1. [r EXCEPT !.active = @ \cup {g}].chan = r.chan
  BY DEF Records
<1> QED
  BY <1>1 DEF WithGraph

LEMMA AcquireServes ==
    ASSUME LeaseInv, ServeInv, NEW g \in Graphs, NEW next, next = thr'[g], Acquire(g)
    PROVE  Serves(g, next) /\ AnswersRead'
<1> DEFINE rt == thr[g].rt
<1> DEFINE gone == Retirable(rt)
<1> DEFINE kept == Kept(rt)
<1>1. LeaseInv' /\ ClientTurn(g) /\ g \in Threads
  BY AcquireKeeps DEF Threads
<1>2. thr[g].pc = "acquire" /\ UNCHANGED <<chan, proc>>
  BY DEF Acquire
<1>3. PICK th \in ThreadStates : th = thr[g]
  BY <1>1, PlaceFacts
<1>4. /\ th.lease = NoChannel /\ th.spawned = NoChannel /\ th.rt = rt /\ rt \in Runtimes /\ ~th.running
      /\ thr \in [Threads -> ThreadStates]
  BY <1>1, <1>2, <1>3, PlaceFacts DEF Acquiring, HoldsOnly, Types
<1>5. /\ gone \subseteq workers /\ kept = workers \ gone /\ workers \subseteq Records /\ IsFiniteSet(workers)
      /\ \A r, s \in workers : r.chan = s.chan => r = s
  BY HealthyOrRetired DEF LeaseInv, Types, RecordsCount
<1>6. PICK shutdown \in WorkersToShutdown(gone) :
        \/ \E r \in Matching(kept, rt) :
             /\ workers' = WithGraph(kept, r, g)
             /\ \E n \in Retiring(g, [th EXCEPT !.lease = r.chan], shutdown, "acquired") : thr' = [thr EXCEPT ![g] = n]
        \/ /\ workers' = kept
           /\ \E n \in Retiring(g, th, shutdown, "acquired") : thr' = [thr EXCEPT ![g] = n]
  BY <1>3 DEF Acquire
<1>7. shutdown \in Seq(Channels) /\ Range(shutdown) = {r.chan : r \in gone}
  BY <1>5, <1>6, ShutdownListed
<1> HIDE DEF gone, kept, rt
<1>10. CASE \E r \in Matching(kept, rt) :
             /\ workers' = WithGraph(kept, r, g)
             /\ \E n \in Retiring(g, [th EXCEPT !.lease = r.chan], shutdown, "acquired") : thr' = [thr EXCEPT ![g] = n]
  <2>1. PICK r \in kept : /\ workers' = WithGraph(kept, r, g)
                          /\ \E n \in Retiring(g, [th EXCEPT !.lease = r.chan], shutdown, "acquired") :
                               thr' = [thr EXCEPT ![g] = n]
    BY <1>10 DEF Matching
  <2>2. PICK d \in Channels : d = r.chan
    BY <1>5, <2>1 DEF Records
  <2>3. Recorded(d)
    BY <1>5, <2>1, <2>2 DEF Recorded, RecordOf
  <2>4. Recorded(d)'
    <3>1. \E p \in WithGraph(kept, r, g) : p.chan = r.chan
      BY <1>5, <2>1, GraphIsRecorded
    <3> QED
      BY <2>1, <2>2, <3>1 DEF Recorded, RecordOf
  <2>5. g \notin proc[d].graphs
    BY <1>3, <1>4, <2>3, LeaselessIsClean
  <2>6. d \notin Range(shutdown)
    BY <1>5, <1>7, <2>1, <2>2
  <2>7. \E n \in Retiring(g, [th EXCEPT !.lease = d], shutdown, "acquired") : thr' = [thr EXCEPT ![g] = n]
    BY <2>1, <2>2
  <2> QED
    BY <1>1, <1>2, <1>3, <1>4, <1>7, <2>4, <2>5, <2>6, <2>7, LeasingServes
<1>11. CASE \E n \in Retiring(g, th, shutdown, "acquired") : thr' = [thr EXCEPT ![g] = n]
  <2>1. PICK n \in Retiring(g, th, shutdown, "acquired") : thr' = [thr EXCEPT ![g] = n]
    BY <1>11
  <2>2. n = next
    BY <1>1, <1>4, <2>1
  <2>3. Speaks(g, next) /\ next.lease = NoChannel
    BY <1>1, <1>4, <1>7, <2>1, <2>2, RetiringStands
  <2> QED
    BY <1>1, <1>2, <1>3, <1>4, <2>3, LeaselessServes
<1> QED
  BY <1>6, <1>10, <1>11

LEMMA RegisterServes ==
    ASSUME LeaseInv, ServeInv, NEW g \in Graphs, NEW next, next = thr'[g], Register(g)
    PROVE  Serves(g, next) /\ AnswersRead'
<1>1. LeaseInv' /\ ClientTurn(g) /\ g \in Threads
  BY RegisterKeeps DEF Threads
<1>2. thr[g].pc = "handshaken" /\ HandshakeAccepted(thr[g].resp) /\ UNCHANGED <<chan, proc>>
  BY DEF Register
<1>3. /\ thr[g] \in ThreadStates /\ Handshaking(thr[g]) /\ thr \in [Threads -> ThreadStates]
      /\ workers \subseteq Records
  BY <1>1, <1>2, PlaceFacts DEF Types
<1>4. PICK c \in Channels : c = thr[g].spawned /\ c # NoChannel
  BY <1>3 DEF Handshaking, ThreadStates
<1>5. /\ thr[g].lease = NoChannel /\ ~thr[g].running /\ thr[g].rt \in Runtimes
      /\ ~Recorded(c) /\ Handshaken(g)
  BY <1>1, <1>2, <1>3, <1>4
     DEF Handshaking, HoldsOnly, LeaseInv, SpawnedAlone, Recorded, Handshaken, HandshakeAccepted
<1> DEFINE th == [thr[g] EXCEPT !.spawned = NoChannel]
<1>6. th \in ThreadStates /\ th.spawned = NoChannel /\ th.running = thr[g].running /\ th.rt = thr[g].rt
  BY <1>3 DEF ThreadStates
<1> HIDE DEF th
<1>7. CASE \E r \in Rivals(thr[g].rt) :
             /\ workers' = WithGraph(workers, r, g)
             /\ \E n \in Retiring(g, [th EXCEPT !.lease = r.chan], <<c>>, "acquired") :
                  thr' = [thr EXCEPT ![g] = n]
  <2>1. PICK r \in workers :
          /\ workers' = WithGraph(workers, r, g)
          /\ \E n \in Retiring(g, [th EXCEPT !.lease = r.chan], <<c>>, "acquired") :
               thr' = [thr EXCEPT ![g] = n]
    BY <1>7 DEF Rivals, Matching
  <2>2. PICK d \in Channels : d = r.chan
    BY <1>3, <2>1 DEF Records
  <2>3. Recorded(d) /\ d # c
    BY <1>5, <2>1, <2>2 DEF Recorded, RecordOf
  <2>4. PICK cs \in Seq(Channels) : cs = <<c>> /\ Range(cs) = {c}
    <3>1. <<c>> \in Seq(Channels) /\ Range(<<c>>) = {c}
      BY DEF Range
    <3> QED
      BY <3>1
  <2>5. Recorded(d)'
    <3>1. \E p \in WithGraph(workers, r, g) : p.chan = r.chan
      BY <1>3, <2>1, GraphIsRecorded
    <3> QED
      BY <2>1, <2>2, <3>1 DEF Recorded, RecordOf
  <2>6. g \notin proc[d].graphs
    BY <1>5, <2>3, LeaselessIsClean
  <2>7. \E n \in Retiring(g, [th EXCEPT !.lease = d], cs, "acquired") : thr' = [thr EXCEPT ![g] = n]
    BY <2>1, <2>2, <2>4
  <2>8. d \notin Range(cs)
    BY <2>3, <2>4
  <2> QED
    BY <1>1, <1>2, <1>5, <1>6, <2>5, <2>6, <2>7, <2>8, LeasingServes
<1>8. CASE /\ workers' = workers \cup {NewRecord(c, thr[g].rt, g)}
           /\ \E n \in Retiring(g, [th EXCEPT !.lease = c], <<>>, "acquired") :
                thr' = [thr EXCEPT ![g] = n]
  <2>2. Recorded(c)'
    <3>1. NewRecord(c, thr[g].rt, g).chan = c
      BY DEF NewRecord
    <3> QED
      BY <1>8, <3>1 DEF Recorded, RecordOf
  <2>3. g \notin proc[c].graphs
    BY <1>1, <1>4, <1>5, OpenedEmpty
  <2>4. PICK cs \in Seq(Channels) : cs = << >> /\ Range(cs) = {}
    <3>1. << >> \in Seq(Channels) /\ Range(<< >>) = {}
      BY DEF Range
    <3> QED
      BY <3>1
  <2>5. \E n \in Retiring(g, [th EXCEPT !.lease = c], cs, "acquired") : thr' = [thr EXCEPT ![g] = n]
    BY <1>8, <2>4
  <2>6. c \notin Range(cs)
    BY <2>4
  <2> QED
    BY <1>1, <1>2, <1>5, <1>6, <2>2, <2>3, <2>5, <2>6, LeasingServes
<1> QED
  BY <1>4, <1>7, <1>8 DEF Register, th

LEMMA ShutdownAllServes ==
    ASSUME LeaseInv, ServeInv, NEW next, next = thr'[Exit], ShutdownAll(Exit)
    PROVE  Serves(Exit, next) /\ AnswersRead'
<1>1. LeaseInv' /\ ClientTurn(Exit) /\ Exit \in Threads /\ Exit \notin Graphs
  BY ShutdownAllKeeps, ControlAssumption DEF Threads
<1>2. thr[Exit].pc = "idle" /\ UNCHANGED chan
  BY DEF ShutdownAll
<1>3. PICK th \in ThreadStates : th = thr[Exit]
  BY <1>1, PlaceFacts
<1>4. th.lease = NoChannel /\ th.spawned = NoChannel /\ ~th.running /\ thr \in [Threads -> ThreadStates]
  BY <1>1, <1>2, <1>3, PlaceFacts DEF Resting, HoldsOnly, Types
<1>5. PICK shutdown \in WorkersToShutdown(workers) :
        \E n \in Retiring(Exit, th, shutdown, "done") : thr' = [thr EXCEPT ![Exit] = n]
  BY <1>3 DEF ShutdownAll
<1>a. PICK n \in Retiring(Exit, th, shutdown, "done") : thr' = [thr EXCEPT ![Exit] = n]
  BY <1>5
<1>6. shutdown \in Seq(Channels)
  BY <1>5, ShutdownListed DEF LeaseInv, Types
<1>7. n = next
  BY <1>1, <1>4, <1>a
<1>8. Speaks(Exit, next) /\ next.lease = NoChannel
  BY <1>1, <1>4, <1>a, <1>6, <1>7, RetiringStands
<1> QED
  BY <1>1, <1>2, <1>3, <1>4, <1>8, LeaselessServes

\* A client that leaves a worker that has no session of its graph, for sure.
LEMMA ClearLeaseServes ==
    ASSUME LeaseInv, LeaseInv', ServeInv, NEW g \in Graphs, NEW next, next = thr'[g], thr[g].pc \in LeaseLabels,
           NEW c \in Channels, c = thr[g].lease, ClientTurn(g), ClearLease(g, workers'), Clean(g, c)',
           (thr[g].pc \in {"startAnswered", "stopAnswered"} /\ thr[g].resp = Failed) => ~Recorded(c)'
    PROVE  Serves(g, next) /\ AnswersRead'
<1>1. /\ g \in Threads /\ c # NoChannel /\ thr \in [Threads -> ThreadStates] /\ chan \in [Channels -> ChannelStates]
  BY LeaseFacts DEF Types
<1>2. PICK rs : rs = workers'
  OBVIOUS
<1> DEFINE last == ~SharedWithOthers(g, c, rs)
<1>3. last => LeftAlone(g, c)
  BY <1>2 DEF SharedWithOthers, LeftAlone
<1>4. next.lease = NoChannel /\ next.spawned = NoChannel /\ next.pc \in {"idle", "close"}
  <2>1. next = IF last /\ Open(c) THEN Closing(NewThread, c, "returned") ELSE NewThread
    BY <1>1, <1>2 DEF ClearLease
  <2> HIDE DEF last
  <2>2. /\ NewThread \in ThreadStates /\ NewThread.lease = NoChannel /\ NewThread.spawned = NoChannel
        /\ NewThread.retire = << >> /\ ~NewThread.running /\ NewThread.pc = "idle"
    BY <1>1, NewThreadTyped, NewThreadRests
  <2>3. /\ Closing(NewThread, c, "returned").lease = NoChannel /\ Closing(NewThread, c, "returned").spawned = NoChannel
        /\ Closing(NewThread, c, "returned").pc = "close"
    BY <1>1, <2>2, ClosingKeeps
  <2> QED
    BY <2>1, <2>2, <2>3
<1>5. Speaks(g, next)
  BY <1>4, QuietSpeaks DEF Transacting, TransactionLabels
<1>6. ClientTouches(g)
  <2> SUFFICES ASSUME NEW d \in Channels
               PROVE  \/ chan'[d] = chan[d]
                      \/ /\ d = c
                         /\ \/ /\ chan'[d].responses = chan[d].responses /\ chan[d].handlers \ {g} \subseteq chan'[d].handlers
                               /\ chan'[d].failed = chan[d].failed /\ chan'[d].shutdown = chan[d].shutdown
                            \/ LeftAlone(g, d) /\ ~chan'[d].fd /\ chan'[d].responses = {} /\ thr'[g].lease # d
    BY DEF ClientTouches
  <2>1. chan' = [chan EXCEPT ![c] = IF last /\ ~Open(c) THEN NewChannel ELSE Unregistered(g, chan[c])]
    BY <1>2 DEF ClearLease
  <2>2. CASE d # c
    BY <1>1, <2>1, <2>2
  <2>3. CASE d = c /\ last /\ ~Open(c)
    <3>1. chan'[c] = NewChannel
      BY <1>1, <2>1, <2>3
    <3>2. NewChannel.responses = {} /\ ~NewChannel.fd
      BY DEF NewChannel
    <3> QED
      BY <1>1, <1>3, <1>4, <2>3, <3>1, <3>2
  <2>4. CASE d = c /\ ~(last /\ ~Open(c))
    <3>1. chan'[c] = Unregistered(g, chan[c]) /\ chan[c] \in ChannelStates
      BY <1>1, <2>1, <2>4
    <3>2. chan[c].handlers \ {g} \subseteq Unregistered(g, chan[c]).handlers
      BY <3>1 DEF Unregistered, ChannelStates
    <3> QED
      BY <2>4, <3>1, <3>2, UnregisteredTyped
  <2> QED
    BY <2>2, <2>3, <2>4
<1>7. thr[g].pc \notin TransactionLabels \cup TeardownLabels
  BY DEF TransactionLabels, TeardownLabels, LeaseLabels
<1> QED
  BY <1>1, <1>4, <1>5, <1>6, <1>7, ClientServes

LEMMA ReleaseServes ==
    ASSUME LeaseInv, ServeInv, NEW g \in Graphs, NEW next, next = thr'[g], thr[g].pc \in LeaseLabels,
           ReleaseGraph(g), UNCHANGED <<toWorker, toClient, proc>>, Clean(g, thr[g].lease),
           thr[g].pc \in {"startAnswered", "stopAnswered"} => thr[g].resp # Failed
    PROVE  Serves(g, next) /\ AnswersRead'
<1>1. LeaseInv' /\ ClientTurn(g)
  BY ReleaseKeeps
<1>2. PICK c \in Channels : c = thr[g].lease
  BY LeaseFacts
<1>3. workers' = Released(c, g) /\ ClearLease(g, workers')
  BY <1>2 DEF ReleaseGraph
<1>4. Recorded(c)' => Recorded(c)
  <2>1. Leaves(g, c, Released(c, g))
    BY ReleasedLeaves
  <2> QED
    BY <1>3, <2>1 DEF Leaves, Recorded, RecordOf
<1>5. Clean(g, c)'
  BY <1>2, <1>4 DEF Clean
<1> QED
  BY <1>1, <1>2, <1>3, <1>5, ClearLeaseServes

\* A client that gives its worker up for unusable leaves no record of it.
LEMMA InvalidateServes ==
    ASSUME LeaseInv, ServeInv, NEW g \in Graphs, NEW next, next = thr'[g], thr[g].pc \in LeaseLabels,
           InvalidateWorker(g), UNCHANGED <<toWorker, toClient, proc>>
    PROVE  Serves(g, next) /\ AnswersRead'
<1>1. LeaseInv' /\ ClientTurn(g)
  BY InvalidateKeeps
<1>2. PICK c \in Channels : c = thr[g].lease
  BY LeaseFacts
<1>3. /\ g \in Threads /\ c # NoChannel /\ thr \in [Threads -> ThreadStates] /\ chan \in [Channels -> ChannelStates]
  BY <1>2, LeaseFacts DEF Types
<1>4. CASE RecordOf(c) = {} /\ ClearLease(g, workers) /\ UNCHANGED workers
  <2>1. ~Recorded(c)' /\ Clean(g, c)' /\ ClearLease(g, workers')
    BY <1>4 DEF Clean, Recorded, RecordOf
  <2> QED
    BY <1>1, <1>2, <2>1, ClearLeaseServes
<1>5. CASE /\ workers' = Invalidated(c)
           /\ chan' = [chan EXCEPT ![c] = Unregistered(g, @)]
           /\ \E n \in Retiring(g, [NewThread EXCEPT !.lease = c], <<c>>, "invalidated") : thr' = [thr EXCEPT ![g] = n]
  <2>1. PICK n \in Retiring(g, [NewThread EXCEPT !.lease = c], <<c>>, "invalidated") : thr' = [thr EXCEPT ![g] = n]
    BY <1>5
  <2>2. n = next
    BY <1>3, <2>1
  <2>3. ~Recorded(c)' /\ Clean(g, c)'
    BY <1>5 DEF Invalidated, Clean, Recorded, RecordOf
  <2>4. PICK w : w = [NewThread EXCEPT !.lease = c]
    OBVIOUS
  <2>5. w \in ThreadStates /\ w.lease = c /\ w.spawned = NoChannel /\ ~w.running
    <3>1. w \in ThreadStates /\ w.lease = c
      BY <2>4, NewThreadTyped DEF ThreadStates
    <3>2. w.spawned = NewThread.spawned /\ w.running = NewThread.running
      BY <2>4 DEF NewThread
    <3> QED
      BY <1>3, <3>1, <3>2, NewThreadRests
  <2>6. PICK cs \in Seq(Channels), after \in {"acquired", "invalidated", "done"} : cs = <<c>> /\ after = "invalidated"
    <3>1. <<c>> \in Seq(Channels)
      OBVIOUS
    <3> QED
      BY <3>1
  <2>7. n \in Retiring(g, w, cs, after) /\ after # "acquired" /\ after # "done" /\ cs = <<w.lease>> /\ cs # << >>
    BY <2>1, <2>4, <2>5, <2>6
  <2>8. /\ Speaks(g, n) /\ n.lease = w.lease /\ n.retire = cs
        /\ cs # << >> => n.after = after
        /\ (n.lease # NoChannel /\ Clean(g, n.lease)') => Stands(g, n, n.lease)'
    <3>1. g \in Threads /\ w \in ThreadStates /\ w.spawned = NoChannel /\ ~w.running
      BY <1>3, <2>5
    <3>2. /\ after = "acquired" => w.rt \in Runtimes
          /\ after = "invalidated" => cs = <<w.lease>>
          /\ after = "done" => w.lease = NoChannel /\ g = Exit
      BY <2>7
    <3>3. n \in Retiring(g, w, cs, after)
      BY <2>7
    <3> QED
      BY <3>1, <3>2, <3>3, RetiringStands
  <2>9. Speaks(g, next) /\ next.lease = c /\ next.after = "invalidated" /\ Stands(g, next, next.lease)'
    BY <1>3, <2>2, <2>3, <2>5, <2>6, <2>7, <2>8
  <2>10. ClientTouches(g)
    <3>1. chan[c] \in ChannelStates /\ chan'[c] = Unregistered(g, chan[c]) /\ \A d \in Channels : d # c => chan'[d] = chan[d]
      BY <1>3, <1>5
    <3>2. chan[c].handlers \ {g} \subseteq Unregistered(g, chan[c]).handlers
      BY <3>1 DEF Unregistered, ChannelStates
    <3> QED
      BY <1>2, <3>1, <3>2, UnregisteredTyped DEF ClientTouches
  <2>11. thr[g].pc \notin TransactionLabels \cup TeardownLabels
    BY DEF TransactionLabels, TeardownLabels, LeaseLabels
  <2> QED
    BY <1>1, <1>2, <1>3, <2>3, <2>9, <2>10, <2>11, ClientServes
<1> QED
  BY <1>2, <1>4, <1>5 DEF InvalidateWorker

LEMMA PrepareServes ==
    ASSUME LeaseInv, ServeInv, NEW g \in Graphs, NEW next, next = thr'[g], Prepare(g)
    PROVE  Serves(g, next) /\ AnswersRead'
<1>1. thr[g].pc = "healthChecked" /\ thr[g].pc \in LeaseLabels /\ UNCHANGED <<toWorker, toClient, proc>>
  BY DEF Prepare, LeaseLabels
<1>2. LeaseInv' /\ ClientTurn(g)
  BY PrepareKeeps
<1>3. PICK c \in Channels : c = thr[g].lease
  BY <1>1, LeaseFacts
<1>4. /\ g \in Threads /\ thr[g] \in ThreadStates /\ OnLease(thr[g]) /\ thr \in [Threads -> ThreadStates]
      /\ chan \in [Channels -> ChannelStates]
      /\ c # NoChannel /\ thr[g].spawned = NoChannel /\ thr[g].retire = << >>
  BY <1>1, <1>3, LeaseFacts DEF Types
<1>5. CASE InvalidateWorker(g)
  BY <1>1, <1>5, InvalidateServes
<1>6. CASE /\ chan' = [chan EXCEPT ![c].handlers = @ \cup {g}]
           /\ \E n \in Calls(g, [thr[g] EXCEPT !.handler = TRUE, !.after = "idle"], c,
                             "StartSessions", "client", "startAnswered") : thr' = [thr EXCEPT ![g] = n]
           /\ UNCHANGED workers
  <2>1. PICK w : w = [thr[g] EXCEPT !.handler = TRUE, !.after = "idle"]
    OBVIOUS
  <2>2. w \in ThreadStates /\ w.lease = c /\ w.spawned = NoChannel /\ w.retire = << >>
    BY <1>3, <1>4, <2>1 DEF ThreadStates
  <2>3. PICK n \in Calls(g, w, c, "StartSessions", "client", "startAnswered") : thr' = [thr EXCEPT ![g] = n]
    BY <1>6, <2>1
  <2>4. AskedAt("StartSessions", "startAnswered") /\ "StartSessions" \in RequestKinds /\ "startAnswered" \in Returns
    BY DEF AskedAt, RequestKinds, Returns, LeaseLabels
  <2>5. n = next
    BY <1>4, <2>3
  <2>6. /\ Speaks(g, n) /\ n.pc = "ensure" /\ Place(n) = "startAnswered" /\ n.lease = w.lease /\ n.retire = w.retire
    BY <1>4, <2>2, <2>3, <2>4, CallSpeaks
  <2>7. Clean(g, c)
    <3>1. Stands(g, thr[g], c)
      BY <1>3, <1>4 DEF ServeInv, ClientsStand
    <3>2. Place(thr[g]) = "healthChecked" /\ ~thr[g].running
      BY <1>1, <1>4 DEF OnLease, Place, Transacting, TransactionLabels
    <3> QED
      BY <3>1, <3>2 DEF Stands
  <2>8. Clean(g, c)' /\ Registered(g, c)'
    <3>1. g \in chan'[c].handlers
      BY <1>4, <1>6 DEF ChannelStates
    <3> QED
      BY <1>1, <1>6, <2>7, <3>1 DEF Clean, Recorded, RecordOf, Registered
  <2>9. Stands(g, n, c)'
    BY <2>6, <2>8 DEF Stands, Starting
  <2>10. ClientTouches(g)
    <3>1. chan'[c] = [chan[c] EXCEPT !.handlers = @ \cup {g}] /\ \A d \in Channels : d # c => chan'[d] = chan[d]
      BY <1>4, <1>6
    <3>2. /\ chan'[c].responses = chan[c].responses /\ chan[c].handlers \ {g} \subseteq chan'[c].handlers
          /\ chan'[c].failed = chan[c].failed /\ chan'[c].shutdown = chan[c].shutdown
      BY <1>4, <3>1 DEF ChannelStates
    <3> QED
      BY <1>3, <3>1, <3>2 DEF ClientTouches
  <2>11. thr[g].pc \notin TransactionLabels \cup TeardownLabels /\ thr[g].pc \notin {"startAnswered", "stopAnswered"}
    BY <1>1 DEF TransactionLabels, TeardownLabels
  <2>12. Range(<< >>) = {}
    BY DEF Range
  <2>13. Speaks(g, next) /\ next.lease = c /\ next.lease \notin Range(next.retire) /\ Stands(g, next, next.lease)'
    BY <2>2, <2>5, <2>6, <2>9, <2>12
  <2> QED
    BY <1>2, <1>3, <1>4, <2>10, <2>11, <2>13, ClientServes
<1> QED
  BY <1>3, <1>5, <1>6 DEF Prepare

-----------------------------------------------------------------------------
(* The graphs in the workers: the readers and the workers.                 *)

\* What an outcome of request r does to the graphs of worker w, and says of it.
Tells(w, r, o) ==
    /\ o.ev.id = r.id /\ o.ev.by = r.by
    /\ \/ o.w.shutdown
       \/ r.kind \notin SessionKinds /\ o.w.graphs = w.graphs
       \/ /\ r.kind = "StartSessions"
          /\ \/ o.w.graphs = w.graphs /\ o.ev.kind # "Started"
             \/ o.w.graphs = w.graphs \cup {r.graph} /\ o.ev.kind = "Started"
       \/ r.kind = "StopSessions" /\ o.w.graphs = w.graphs \ {r.graph}

LEMMA RefreshedKeeps ==
    ASSUME NEW w \in WorkerStates, NEW u \in Refreshed(w)
    PROVE  u.graphs = w.graphs /\ u.shutdown = w.shutdown /\ u \in WorkerStates
<1>1. u \in WorkerStates
  BY HealthTyped
<1>2. \A e : Marked(w, e).graphs = w.graphs /\ Marked(w, e).shutdown = w.shutdown
  BY DEF Marked, WorkerStates
<1> QED
  BY <1>1, <1>2 DEF Refreshed

LEMMA HandleTells ==
    ASSUME NEW w \in WorkerStates, NEW r \in Requests, NEW o \in Handle(w, r)
    PROVE  Tells(w, r, o)
<1>1. ASSUME NEW u, NEW e, o = MakeError(u, r, e), u.graphs = w.graphs,
             u.shutdown \/ r.kind # "StopSessions"
      PROVE  Tells(w, r, o)
  <2>1. o.w = u /\ o.ev.id = r.id /\ o.ev.by = r.by /\ o.ev.kind = "Error"
    BY <1>1 DEF MakeError, Outcome, Answer
  <2> QED
    BY <1>1, <2>1 DEF Tells, SessionKinds
<1>2. ASSUME NEW u \in WorkerStates, NEW k, NEW g, NEW a, NEW f, o = Outcome(u, Answer(r, k, g, a), f), u.graphs = w.graphs,
             r.kind # "StopSessions", r.kind = "StartSessions" => k # "Started"
      PROVE  Tells(w, r, o)
  <2>1. o.w = u /\ o.ev.id = r.id /\ o.ev.by = r.by /\ o.ev.kind = k
    BY <1>2 DEF Outcome, Answer
  <2> QED
    BY <1>2, <2>1 DEF Tells, SessionKinds
<1>3. ASSUME NEW u \in WorkerStates PROVE RuntimeCreated(u, r.runtime) \in WorkerStates /\ RuntimeCreated(u, r.runtime).graphs = u.graphs
  BY DEF RuntimeCreated, WorkerStates, Requests
<1>4. CASE r.kind = "ConfigHandshake"
  <2>1. o \in HandleConfigHandshake(w, r)
    BY <1>4 DEF Handle
  <2>2. CASE w.shutdown
    BY <1>1, <1>4, <2>1, <2>2 DEF HandleConfigHandshake
  <2>3. CASE ~w.shutdown
    <3>1. PICK u \in Refreshed(w) :
            \/ o = MakeError(u, r, u.health) \/ o = MakeError(u, r, "backend")
            \/ o = Outcome(RuntimeCreated(u, r.runtime), Answer(r, "Health", NoGraph, "healthy"), FALSE)
            \/ o = Outcome(u, Answer(r, "Error", r.graph, "backend"), TRUE)
            \/ o = Outcome(u, Answer(r, "Health", NoGraph, "healthy"), FALSE)
      BY <2>1, <2>3 DEF HandleConfigHandshake, RuntimeFailed
    <3>2. u.graphs = w.graphs /\ u \in WorkerStates
      BY <3>1, RefreshedKeeps
    <3>3. r.kind # "StopSessions" /\ r.kind # "StartSessions"
      BY <1>4
    <3>4. CASE o = MakeError(u, r, u.health) \/ o = MakeError(u, r, "backend")
      BY <1>1, <3>2, <3>3, <3>4
    <3>5. CASE o = Outcome(u, Answer(r, "Error", r.graph, "backend"), TRUE)
      BY <1>2, <3>2, <3>3, <3>5
    <3>6. CASE o = Outcome(u, Answer(r, "Health", NoGraph, "healthy"), FALSE)
      BY <1>2, <3>2, <3>3, <3>6
    <3>7. CASE o = Outcome(RuntimeCreated(u, r.runtime), Answer(r, "Health", NoGraph, "healthy"), FALSE)
      BY <1>2, <1>3, <3>2, <3>3, <3>7
    <3> QED
      BY <3>1, <3>4, <3>5, <3>6, <3>7
  <2> QED
    BY <2>2, <2>3
<1>5. CASE r.kind = "StartSessions"
  <2>1. o \in HandleStartSessions(w, r)
    BY <1>5 DEF Handle
  <2>2. ASSUME NEW u \in WorkerStates, u.graphs = w.graphs, o \in GraphCreated(u, r) PROVE Tells(w, r, o)
    <3>1. CASE o = Outcome([u EXCEPT !.graphs = @ \cup {r.graph}], Answer(r, "Started", r.graph, "ok"), FALSE)
      <4>1. /\ o.w = [u EXCEPT !.graphs = @ \cup {r.graph}]
            /\ o.ev.id = r.id /\ o.ev.by = r.by /\ o.ev.kind = "Started"
        BY <3>1 DEF Outcome, Answer
      <4>2. o.w.graphs = w.graphs \cup {r.graph}
        BY <2>2, <4>1 DEF WorkerStates
      <4> QED
        BY <1>5, <4>1, <4>2 DEF Tells
    <3>2. CASE \E e \in ErrorClasses : o = Outcome(u, Answer(r, "Error", r.graph, e), TRUE)
      BY <1>2, <1>5, <2>2, <3>2
    <3> QED
      BY <2>2, <3>1, <3>2 DEF GraphCreated
  <2>3. CASE w.shutdown
    BY <1>1, <1>5, <2>1, <2>3 DEF HandleStartSessions
  <2>4. CASE ~w.shutdown
    <3>1. PICK u \in Refreshed(w) :
            \/ o = MakeError(u, r, u.health) \/ o = MakeError(u, r, "backend")
            \/ o \in GraphCreated(RuntimeCreated(u, r.runtime), r)
            \/ o = Outcome(u, Answer(r, "Error", r.graph, "backend"), TRUE)
            \/ o \in GraphCreated(u, r)
      BY <2>1, <2>4 DEF HandleStartSessions, RuntimeFailed
    <3>2. u.graphs = w.graphs /\ u \in WorkerStates
      BY <3>1, RefreshedKeeps
    <3>3. CASE o \in GraphCreated(u, r) \/ o \in GraphCreated(RuntimeCreated(u, r.runtime), r)
      BY <1>3, <2>2, <3>2, <3>3
    <3>4. CASE \/ o = MakeError(u, r, u.health) \/ o = MakeError(u, r, "backend")
               \/ o = Outcome(u, Answer(r, "Error", r.graph, "backend"), TRUE)
      BY <1>1, <1>2, <1>5, <3>2, <3>4
    <3> QED
      BY <3>1, <3>3, <3>4
  <2> QED
    BY <2>3, <2>4
<1>6. CASE r.kind = "StopSessions"
  <2>1. o \in HandleStopSessions(w, r)
    BY <1>6 DEF Handle
  <2>2. CASE r.graph \notin w.graphs
    <3>1. o = Outcome(w, Answer(r, "Stopped", r.graph, "ok"), FALSE)
      BY <2>1, <2>2 DEF HandleStopSessions
    <3>2. o.w = w /\ o.ev.id = r.id /\ o.ev.by = r.by
      BY <3>1 DEF Outcome, Answer
    <3> QED
      BY <1>6, <2>2, <3>2 DEF Tells
  <2>3. CASE r.graph \in w.graphs
    <3>1. PICK u, v :
            /\ u \in Refreshed(w) /\ v = [u EXCEPT !.graphs = @ \ {r.graph}, !.sick = @ \ {r.graph}]
            /\ o = MakeError(v, r, u.health) \/ o = Outcome(v, Answer(r, "Stopped", r.graph, "ok"), FALSE)
      BY <2>1, <2>3 DEF HandleStopSessions
    <3>2. u.graphs = w.graphs /\ u \in WorkerStates
      BY <3>1, RefreshedKeeps
    <3>3. v.graphs = w.graphs \ {r.graph}
      BY <3>1, <3>2 DEF WorkerStates
    <3>4. o.w = v /\ o.ev.id = r.id /\ o.ev.by = r.by
      BY <3>1 DEF MakeError, Outcome, Answer
    <3> QED
      BY <1>6, <3>3, <3>4 DEF Tells
  <2> QED
    BY <2>2, <2>3
<1>7. CASE r.kind \in {"Stats", "HealthCheck"}
  <2>1. PICK u, k, g, a :
            u \in Refreshed(w) /\ (o = MakeError(u, r, u.health) \/ o = Outcome(u, Answer(r, k, g, a), FALSE))
    BY <1>7 DEF Handle, HandleStats, HandleHealthCheck
  <2>2. u.graphs = w.graphs /\ u \in WorkerStates
    BY <2>1, RefreshedKeeps
  <2> QED
    BY <1>1, <1>2, <1>7, <2>1, <2>2
<1>8. CASE r.kind = "Shutdown"
  <2>1. PICK u, g : o = Outcome(u, Answer(r, "Stopped", g, "ok"), FALSE)
    BY <1>8 DEF Handle, HandleShutdown
  <2>2. o.ev.id = r.id /\ o.ev.by = r.by
    BY <2>1 DEF Outcome, Answer
  <2>3. o.w.shutdown
    BY <1>8, HandleAnswers
  <2> QED
    BY <2>2, <2>3 DEF Tells
<1>9. r.kind \in RequestKinds
  BY DEF Requests
<1> QED
  BY <1>4, <1>5, <1>6, <1>7, <1>8, <1>9 DEF RequestKinds

\* A client that is told nothing new stands as it stood, if its worker does.
LEMMA StandsStill ==
    ASSUME NEW g \in Graphs, NEW c \in Channels, UNCHANGED thr, Stands(g, thr[g], c),
           Registered(g, c) => Registered(g, c)', Clean(g, c) => Clean(g, c)', Served(g, c) => Served(g, c)',
           (thr[g].pc = "wait" /\ thr[g].req \in Range(toWorker'[c])) => thr[g].req \in Range(toWorker[c]),
           (thr[g].pc = "wait" /\ thr[g].ret \in {"startAnswered", "stopAnswered"})
             => \A e \in Answers(c)' : e.id = thr[g].req.id => e \in Answers(c)
    PROVE  Stands(g, thr[g], c)'
<1>1. \A e : StartTells(g, c, e) => StartTells(g, c, e)'
  BY DEF StartTells
<1>2. \A e : StopTells(g, c, e) => StopTells(g, c, e)'
  BY DEF StopTells
<1>3. PICK th : th = thr[g]
  OBVIOUS
<1>4. (Place(th) = "startAnswered" /\ Starting(g, th, c)) => Starting(g, th, c)'
  BY <1>1, <1>3 DEF Starting, Place, Transacting, TransactionLabels
<1>5. (Place(th) = "stopAnswered" /\ Stopping(g, th, c)) => Stopping(g, th, c)'
  BY <1>2, <1>3 DEF Stopping, Place, Transacting, TransactionLabels
<1>6. Stands(g, th, c)'
  BY <1>3, <1>4, <1>5 DEF Stands
<1> QED
  BY <1>3, <1>6

\* Of a worker that has ended, or that no client can reach, nothing is asked.
LEMMA StandsIdle ==
    ASSUME NEW g \in Graphs, NEW c \in Channels, UNCHANGED thr, Stands(g, thr[g], c),
           Registered(g, c) => Registered(g, c)', Clean(g, c)', Served(g, c)'
    PROVE  Stands(g, thr[g], c)'
<1>1. \A e : StartTells(g, c, e)' /\ StopTells(g, c, e)'
  BY DEF StartTells, StopTells
<1>2. PICK th : th = thr[g]
  OBVIOUS
<1>3. Starting(g, th, c) => Starting(g, th, c)'
  BY <1>1, <1>2 DEF Starting
<1>4. Stopping(g, th, c)'
  BY <1>1 DEF Stopping
<1>5. Stands(g, th, c)'
  BY <1>2, <1>3, <1>4 DEF Stands
<1> QED
  BY <1>2, <1>5

\* Nothing new on channel d, and no graph more in its worker.
Weakens(d) ==
    /\ Answers(d)' \subseteq Answers(d) /\ toWorker'[d] \in {toWorker[d], << >>}
    /\ chan'[d].handlers = chan[d].handlers
    /\ Begun(d) => Begun(d)'
    /\ Healthy(d)' => Healthy(d)
    /\ Down(d) => Down(d)'
    /\ HasReader(d)' \/ (~HasReader(d) /\ chan'[d].responses = chan[d].responses)
    /\ Serving(d)' => Serving(d)
    /\ proc'[d].graphs = proc[d].graphs \/ (proc'[d].graphs = {} /\ ~proc'[d].alive)
    /\ \A t \in Threads : (thr[t].spawned = d /\ HandshakeOf(thr[t], d)) => HandshakeOf(thr[t], d)'

LEMMA WeakensServes ==
    ASSUME LeaseInv, ServeInv, UNCHANGED <<thr, workers>>, \A d \in Channels : Weakens(d)
    PROVE  ServeInv'
<1>1. /\ toWorker \in [Channels -> Seq(Requests)] /\ thr \in [Threads -> ThreadStates] /\ Graphs \subseteq Threads
  BY DEF LeaseInv, Types, Threads
<1>2. Range(<< >>) = {} /\ DOMAIN << >> = {}
  BY DEF Range
<1>3. ASSUME NEW d \in Channels
      PROVE  /\ Recorded(d)' <=> Recorded(d)
             /\ InUse(d)' => InUse(d)
             /\ Range(toWorker'[d]) \subseteq Range(toWorker[d])
  BY <1>2 DEF Weakens, Recorded, RecordOf, InUse, Leased
<1>4. AsksFor'
  BY DEF ServeInv, AsksFor, AsksAbout, Transacting
<1>5. LeasesBegun'
  <2> SUFFICES ASSUME NEW t \in Threads, thr[t].lease # NoChannel
               PROVE  t \in Graphs /\ Begun(thr[t].lease)' /\ (thr[t].lease \in Range(thr[t].retire) => thr[t].after = "invalidated")
    BY DEF LeasesBegun, LeaseBegun, Begun, WorkerStarted
  <2>1. PICK d \in Channels : d = thr[t].lease
    BY <1>1 DEF ThreadStates
  <2>2. /\ t \in Graphs /\ Begun(d) /\ (thr[t].lease \in Range(thr[t].retire) => thr[t].after = "invalidated")
    BY <2>1 DEF ServeInv, LeasesBegun, LeaseBegun
  <2>3. Begun(d)'
    BY <2>2 DEF Weakens
  <2> QED
    BY <2>1, <2>2, <2>3 DEF Begun, WorkerStarted
<1>6. AnswersRead'
  BY DEF ServeInv, AnswersRead, Weakens, HasReader
<1>7. HandshakesEmpty'
  <2> SUFFICES ASSUME NEW t \in Threads, NEW th, th = thr[t], th.spawned # NoChannel PROVE HandshakeOf(th, th.spawned)'
    BY DEF HandshakesEmpty
  <2>1. PICK d \in Channels : d = th.spawned
    BY <1>1 DEF ThreadStates
  <2>2. HandshakeOf(thr[t], d)
    BY <2>1 DEF ServeInv, HandshakesEmpty
  <2>3. HandshakeOf(thr[t], d)'
    BY <2>1, <2>2 DEF Weakens
  <2> QED
    BY <2>1, <2>3
<1>8. ManagerSilent'
  <2> SUFFICES ASSUME NEW d \in Channels, InUse(d)'
               PROVE  /\ \A r \in Range(toWorker'[d]) : r.by = "manager" => r.kind = "Shutdown" /\ ~Recorded(d)'
                      /\ \A r \in Range(toWorker'[d]) : r.kind = "Shutdown" => r.by = "manager"
                      /\ \A e \in Answers(d)' : e.by = "client"
    BY DEF ManagerSilent
  <2> QED
    BY <1>3 DEF ServeInv, ManagerSilent, Weakens
<1>9. IdsOnce'
  <2>1. ASSUME NEW d \in Channels, InUse(d)'
        PROVE  /\ \A i, j \in DOMAIN toWorker'[d] :
                    (toWorker'[d][i].by = "client" /\ toWorker'[d][j].by = "client"
                       /\ toWorker'[d][i].id = toWorker'[d][j].id) => i = j
               /\ \A r \in Range(toWorker'[d]), e \in Answers(d)' : r.by = "client" => r.id # e.id
    BY <1>2, <1>3, <2>1 DEF ServeInv, IdsOnce, Weakens
  <2>2. ASSUME NEW t \in Threads, NEW th, th = thr[t] PROVE OwnId(th)'
    <3> SUFFICES ASSUME Transacting(th), th.req.by = "client", NEW d, d = th.chan, InUse(d)'
                 PROVE  /\ \A r \in Range(toWorker'[d]) :
                             (r.by = "client" /\ r.id = th.req.id) => th.pc = "wait" /\ r = th.req
                        /\ th.pc # "wait" => \A e \in Answers(d)' : e.id # th.req.id
      BY DEF OwnId
    <3>1. d \in Channels
      BY <2>2, SenderFacts DEF ServeInv, Transacting
    <3>2. OwnId(th)
      BY <2>2 DEF ServeInv, IdsOnce
    <3> QED
      BY <1>3, <3>1, <3>2 DEF OwnId, Weakens
  <2> QED
    BY <2>1, <2>2 DEF IdsOnce
<1>10. OwnRequests'
  <2> SUFFICES ASSUME NEW d \in Channels, InUse(d)', NEW r \in Range(toWorker'[d]), r.kind \in SessionKinds
               PROVE  r.graph \in Graphs /\ Owns(thr[r.graph], d, r)'
    BY DEF OwnRequests
  <2>1. r.graph \in Graphs /\ Owns(thr[r.graph], d, r)
    BY <1>3 DEF ServeInv, OwnRequests
  <2> QED
    BY <2>1 DEF Owns, Weakens, Down
<1>11. NoOrphans'
  BY <1>3 DEF ServeInv, NoOrphans, Weakens
<1>12. ClientsStand'
  <2> SUFFICES ASSUME NEW g \in Graphs, thr[g].lease # NoChannel, NEW d, d = thr[g].lease
               PROVE  Stands(g, thr[g], d)'
    BY DEF ClientsStand
  <2>1. d \in Channels /\ Stands(g, thr[g], d)
    BY <1>1 DEF ThreadStates, ServeInv, ClientsStand
  <2>2. Registered(g, d) => Registered(g, d)'
    BY <2>1 DEF Registered, Weakens
  <2>3. CASE proc'[d].graphs = proc[d].graphs
    <3>1. (Clean(g, d) => Clean(g, d)') /\ (Served(g, d) => Served(g, d)')
      BY <1>3, <2>1, <2>3 DEF Clean, Served, Weakens
    <3>2. \A e \in Answers(d)' : e \in Answers(d)
      BY <2>1 DEF Weakens
    <3> QED
      BY <1>3, <2>1, <2>2, <3>1, <3>2, StandsStill
  <2>4. CASE proc'[d].graphs = {} /\ ~proc'[d].alive
    <3>1. Clean(g, d)' /\ Served(g, d)'
      BY <2>4 DEF Clean, Served, Serving
    <3> QED
      BY <2>1, <2>2, <3>1, StandsIdle
  <2> QED
    BY <2>1, <2>3, <2>4 DEF Weakens
<1> QED
  BY <1>4, <1>5, <1>6, <1>7, <1>8, <1>9, <1>10, <1>11, <1>12 DEF ServeInv

LEMMA ReaderServes ==
    ASSUME LeaseInv, ServeInv, NEW c \in Channels, ReaderFiles(c) \/ ReaderFails(c), UNCHANGED workers
    PROVE  ServeInv'
<1>1. /\ chan \in [Channels -> ChannelStates] /\ chan[c] \in ChannelStates
      /\ toClient \in [Channels -> Seq(Events)] /\ toClient[c] \in Seq(Events)
  BY DEF LeaseInv, Types
<1>2. UNCHANGED <<toWorker, proc, thr, workers>> /\ chan[c].reader = "running" /\ Open(c)
  BY DEF ReaderFiles, ReaderFails, Open
<1>3. ASSUME NEW d \in Channels, d # c PROVE Weakens(d)
  <2>1. chan'[d] = chan[d] /\ toClient'[d] = toClient[d]
    BY <1>1, <1>3 DEF ReaderFiles, ReaderFails
  <2> QED
    BY <1>2, <2>1 DEF Weakens, Answers, Begun, WorkerStarted, Healthy, Down, HasReader, Serving, HandshakeOf, Open
<1>4. CASE ReaderFails(c)
  <2>1. chan' = [chan EXCEPT ![c] = [MarkedFailed(chan[c]) EXCEPT !.reader = "ended"]] /\ toClient' = toClient
    BY <1>4 DEF ReaderFails
  <2>2. /\ chan'[c].failed /\ chan'[c].reader = "ended" /\ chan'[c].fd = chan[c].fd /\ chan'[c].pid = chan[c].pid
        /\ chan'[c].shutdown = chan[c].shutdown /\ chan'[c].responses = chan[c].responses
        /\ chan'[c].handlers = chan[c].handlers
    BY <1>1, <2>1 DEF MarkedFailed, ChannelStates
  <2>3. Weakens(c)
    BY <1>2, <2>1, <2>2 DEF Weakens, Answers, Begun, WorkerStarted, Healthy, Down, HasReader, Serving, HandshakeOf
  <2> QED
    BY <1>2, <1>3, <2>3, WeakensServes
<1>5. CASE ReaderFiles(c)
  <2> DEFINE ev == Head(toClient[c])
  <2> DEFINE R == {e \in chan[c].responses : e.id # ev.id} \cup {ev}
  <2>1. /\ toClient' = [toClient EXCEPT ![c] = Tail(toClient[c])] /\ toClient[c] # << >>
        /\ chan' = [chan EXCEPT ![c] = IF chan[c].shutdown \/ chan[c].failed
                                      THEN [chan[c] EXCEPT !.reader = "ended"]
                                      ELSE [chan[c] EXCEPT !.responses = R]]
    BY <1>5 DEF ReaderFiles
  <2>2. ev \in Range(toClient[c]) /\ Range(Tail(toClient[c])) \subseteq Range(toClient[c])
        /\ Len(Tail(toClient[c])) = Len(toClient[c]) - 1 /\ Tail(toClient[c]) \in Seq(Events)
    <3>1. \A i \in DOMAIN Tail(toClient[c]) : Tail(toClient[c])[i] = toClient[c][i + 1] /\ i + 1 \in DOMAIN toClient[c]
      BY <1>1, <2>1
    <3>2. 1 \in DOMAIN toClient[c] /\ ev = toClient[c][1]
      BY <1>1, <2>1
    <3>3. Len(Tail(toClient[c])) = Len(toClient[c]) - 1 /\ Tail(toClient[c]) \in Seq(Events)
      BY <1>1, <2>1
    <3> QED
      BY <3>1, <3>2, <3>3 DEF Range
  <2>3. R \subseteq Answers(c)
    BY <2>2 DEF Answers
  <2>4. chan[c].responses = {} => \A e, f \in R : e = f
    OBVIOUS
  <2> HIDE DEF R, ev
  <2>5. /\ chan'[c].fd = chan[c].fd /\ chan'[c].pid = chan[c].pid /\ chan'[c].shutdown = chan[c].shutdown
        /\ chan'[c].failed = chan[c].failed /\ chan'[c].reader # "none" /\ chan'[c].handlers = chan[c].handlers
        /\ chan'[c].responses = chan[c].responses \/ chan'[c].responses = R
        /\ toClient'[c] = Tail(toClient[c])
    BY <1>1, <1>2, <2>1 DEF ChannelStates
  <2>6. Answers(c)' \subseteq Answers(c)
    BY <2>2, <2>3, <2>5 DEF Answers
  <2>7. ASSUME NEW t \in Threads, NEW th, th = thr[t], HandshakeOf(th, c) PROVE HandshakeOf(th, c)'
    <3>1. th.pc \notin {"ensure", "start"}
      BY <1>2, <2>7 DEF HandshakeOf
    <3>2. CASE th.pc = "wait"
      <4>1. /\ proc[c].graphs = {} /\ toWorker[c] = << >> /\ Len(toClient[c]) = 1 /\ chan[c].responses = {}
        BY <2>1, <2>7, <3>2 DEF HandshakeOf
      <4>2. PICK s : s = Tail(toClient[c])
        OBVIOUS
      <4>2b. s \in Seq(Events) /\ Len(s) = 0
        BY <2>2, <4>1, <4>2
      <4>2a. toClient'[c] = << >>
        BY <2>5, <4>2, <4>2b, EmptySeq
      <4>3. \A e, f \in chan'[c].responses : e = f
        BY <2>4, <2>5, <4>1
      <4> QED
        BY <1>2, <3>2, <4>1, <4>2a, <4>3 DEF HandshakeOf
    <3>3. CASE th.pc = "handshaken" /\ th.resp.kind = "Health"
      BY <2>2, <2>7, <3>3 DEF HandshakeOf, Answers
    <3> QED
      BY <3>1, <3>2, <3>3 DEF HandshakeOf
  <2>8. Weakens(c)
    BY <1>2, <2>5, <2>6, <2>7 DEF Weakens, Begun, WorkerStarted, Healthy, Down, HasReader, Serving
  <2> QED
    BY <1>2, <1>3, <2>8, WeakensServes
<1> QED
  BY <1>4, <1>5

\* A worker that ends, crashes, hangs or loses a session.
LEMMA WorkerEndsServes ==
    ASSUME LeaseInv, ServeInv, NEW c \in Channels, UNCHANGED workers,
           WorkerReadsEof(c) \/ WorkerCrashes(c) \/ WorkerHangs(c) \/ \E g \in Graphs : SessionFails(c, g)
    PROVE  ServeInv'
<1>1. /\ proc \in [Channels -> WorkerStates] /\ proc[c] \in WorkerStates
      /\ toWorker \in [Channels -> Seq(Requests)] /\ toWorker[c] \in Seq(Requests)
  BY DEF LeaseInv, Types
<1>2. UNCHANGED <<chan, thr, toClient>> /\ proc[c].alive
  BY DEF WorkerReadsEof, WorkerCrashes, WorkerHangs, SessionFails
<1>3. \A d \in Channels \ {c} : proc'[d] = proc[d] /\ toWorker'[d] = toWorker[d]
  BY <1>1 DEF WorkerReadsEof, WorkerCrashes, WorkerHangs, SessionFails
<1>4. /\ toWorker'[c] \in {toWorker[c], << >>}
      /\ \/ proc'[c].graphs = proc[c].graphs
         \/ proc'[c].graphs = {} /\ ~proc'[c].alive
  <2>1. CASE WorkerReadsEof(c) \/ WorkerCrashes(c)
    <3>1. proc'[c] = NoWorker /\ toWorker'[c] \in {toWorker[c], << >>}
      BY <1>1, <2>1 DEF WorkerReadsEof, WorkerCrashes
    <3>2. NoWorker.graphs = {} /\ ~NoWorker.alive
      BY DEF NoWorker
    <3> QED
      BY <3>1, <3>2
  <2>2. CASE WorkerHangs(c) \/ \E g \in Graphs : SessionFails(c, g)
    BY <1>1, <2>2 DEF WorkerHangs, SessionFails, WorkerStates
  <2> QED
    BY <2>1, <2>2
<1>5. ASSUME NEW d \in Channels PROVE Weakens(d)
  <2>1. toWorker'[d] \in {toWorker[d], << >>}
        /\ (proc'[d].graphs = proc[d].graphs \/ (proc'[d].graphs = {} /\ ~proc'[d].alive))
        /\ (proc'[d].alive => proc[d].alive)
    BY <1>2, <1>3, <1>4
  <2>2. ASSUME NEW t \in Threads, NEW th, th = thr[t], HandshakeOf(th, d) PROVE HandshakeOf(th, d)'
    BY <1>2, <2>1, <2>2 DEF HandshakeOf, Answers, Open
  <2> QED
    BY <1>2, <2>1, <2>2 DEF Weakens, Answers, Begun, WorkerStarted, Healthy, Down, HasReader, Serving
<1> QED
  BY <1>2, <1>5, WeakensServes

\* A request of a client in a lease is its own counter's, on its lease.
LEMMA AskerFacts ==
    ASSUME LeaseInv, NEW g \in Threads, Transacting(thr[g]), thr[g].ret \in LeaseLabels
    PROVE  thr[g].req.by = "client" /\ thr[g].chan = thr[g].lease
<1>1. thr[g].req.by = "client" /\ Place(thr[g]) = thr[g].ret
  BY DEF LeaseInv, RequestsDiffer, Asks, Place
<1>2. OutlineOf(g, thr[g])
  BY DEF LeaseInv, Outline
<1>3. OnLease(thr[g])
  BY <1>1, <1>2 DEF OutlineOf, Resting, Acquiring, Handshaking, RetiringWorkers, LeavingChannel, Finished,
     Transacting, TransactionLabels, TeardownLabels, LeaseLabels
<1> QED
  BY <1>1, <1>3 DEF OnLease

\* The client asked about by the request that its worker answers.
LEMMA AnsweredStands ==
    ASSUME LeaseInv, ServeInv, UNCHANGED <<chan, thr, workers>>, NEW g \in Graphs, NEW c \in Channels, thr[g].lease = c,
           NEW r \in Requests, r.graph = g, r.kind \in SessionKinds, r.by = "client", InUse(c), r \in Range(toWorker[c]),
           r \notin Range(toWorker'[c]), NEW ev, Answers(c)' \subseteq Answers(c) \cup {ev},
           r.kind = "StartSessions" =>
              \/ proc'[c].graphs = proc[c].graphs /\ ev.kind # "Started"
              \/ proc'[c].graphs = proc[c].graphs \cup {g} /\ ev.kind = "Started",
           r.kind = "StopSessions" => g \notin proc'[c].graphs
    PROVE  Stands(g, thr[g], c)'
<1>1. PICK th : th = thr[g]
  OBVIOUS
<1>2. Owns(th, c, r) /\ AsksAbout(g, th) /\ Stands(g, th, c) /\ \A e \in Answers(c) : e.id # r.id
  <2>1. g \in Threads /\ c # NoChannel
    BY ControlAssumption DEF Threads, NoChannel
  <2> QED
    BY <1>1, <2>1 DEF ServeInv, OwnRequests, AsksFor, ClientsStand, IdsOnce
<1>3. (Registered(g, c) <=> Registered(g, c)') /\ (Recorded(c)' <=> Recorded(c))
  BY DEF Registered, Healthy, Recorded, RecordOf
<1>4. CASE th.pc = "wait" /\ th.req = r
  <2>1. Transacting(th) /\ Place(th) = th.ret /\ Place(th) \in {"startAnswered", "stopAnswered"}
        /\ (th.ret = "startAnswered" <=> r.kind = "StartSessions") /\ (th.ret = "stopAnswered" <=> r.kind = "StopSessions")
    BY <1>2, <1>4 DEF AsksAbout, SessionKinds, Place, Transacting, TransactionLabels
  <2>2. \A e \in Answers(c)' : e.id = r.id => e = ev
    BY <1>2
  <2>3. CASE r.kind = "StartSessions"
    <3>1. Starting(g, th, c) /\ Registered(g, c)' /\ Clean(g, c)
      BY <1>2, <1>3, <1>4, <2>1, <2>3 DEF Stands, Starting
    <3>2. StartTells(g, c, ev)'
      BY <1>3, <2>3, <3>1 DEF StartTells, Served, Clean
    <3>3. Starting(g, th, c)'
      BY <1>4, <2>2, <3>1, <3>2 DEF Starting
    <3>4. Stands(g, th, c)'
      BY <2>1, <2>3, <3>3 DEF Stands
    <3> QED
      BY <1>1, <3>4
  <2>4. CASE r.kind = "StopSessions"
    <3>1. \A e : StopTells(g, c, e)'
      BY <2>4 DEF StopTells, Clean
    <3>2. Stopping(g, th, c)'
      BY <3>1 DEF Stopping
    <3>3. Stands(g, th, c)'
      BY <2>1, <2>4, <3>2 DEF Stands
    <3> QED
      BY <1>1, <3>3
  <2> QED
    BY <2>3, <2>4 DEF SessionKinds
<1>5. CASE th.pc \in {"startAnswered", "stopAnswered"} /\ th.resp = Failed /\ Down(c)
  <2>1. ~Healthy(c)' /\ th.resp.kind = "failed"
    BY <1>5 DEF Down, Healthy, Failed, NoEvent
  <2>2. Place(th) = th.pc
    BY <1>5 DEF Place, Transacting, TransactionLabels
  <2>3. StartTells(g, c, th.resp)' /\ StopTells(g, c, th.resp)' /\ Registered(g, c)'
    BY <2>1 DEF StartTells, StopTells, Registered
  <2>4. Starting(g, th, c)' /\ Stopping(g, th, c)'
    BY <1>5, <2>3 DEF Starting, Stopping
  <2>5. Stands(g, th, c)'
    BY <1>5, <2>2, <2>4 DEF Stands
  <2> QED
    BY <1>1, <2>5
<1> QED
  BY <1>2, <1>4, <1>5 DEF Owns

LEMMA WorkerHandlesServes ==
    ASSUME LeaseInv, ServeInv, NEW c \in Channels, WorkerHandles(c), UNCHANGED workers
    PROVE  ServeInv'
<1>1. /\ proc \in [Channels -> WorkerStates] /\ proc[c] \in WorkerStates
      /\ toWorker \in [Channels -> Seq(Requests)] /\ toWorker[c] \in Seq(Requests)
      /\ toClient \in [Channels -> Seq(Events)] /\ toClient[c] \in Seq(Events)
      /\ thr \in [Threads -> ThreadStates] /\ Graphs \subseteq Threads
  BY DEF LeaseInv, Types, Threads
<1>2. /\ UNCHANGED <<chan, thr>> /\ proc[c].alive /\ toWorker[c] # << >>
      /\ toWorker' = [toWorker EXCEPT ![c] = Tail(toWorker[c])]
  BY DEF WorkerHandles
<1>2a. PICK r \in Requests : r = Head(toWorker[c])
  BY <1>1, <1>2
<1>3. PICK o \in Handle(proc[c], r) :
        /\ proc' = [proc EXCEPT ![c] = IF chan[c].fd /\ ~o.w.shutdown THEN o.w ELSE NoWorker]
        /\ toClient' = [toClient EXCEPT ![c] = IF chan[c].fd THEN Append(toClient[c], o.ev) ELSE toClient[c]]
  BY <1>2a DEF WorkerHandles
<1>4. Tells(proc[c], r, o) /\ o.ev \in Events
  BY <1>1, <1>3, HandleTells, HandleTyped
<1>5. /\ toWorker'[c] = Tail(toWorker[c]) /\ 1 \in DOMAIN toWorker[c] /\ toWorker[c][1] = r
      /\ \A i \in DOMAIN toWorker'[c] : i + 1 \in DOMAIN toWorker[c] /\ toWorker'[c][i] = toWorker[c][i + 1] /\ i + 1 # 1 /\ i \in Nat
  <2>1. toWorker'[c] = Tail(toWorker[c])
    BY <1>1, <1>2
  <2>2. /\ 1 \in DOMAIN toWorker[c] /\ toWorker[c][1] = r
        /\ \A i \in DOMAIN Tail(toWorker[c]) : i + 1 \in DOMAIN toWorker[c] /\ Tail(toWorker[c])[i] = toWorker[c][i + 1] /\ i + 1 # 1 /\ i \in Nat
    BY <1>1, <1>2, <1>2a
  <2> QED
    BY <2>1, <2>2
<1>6. r \in Range(toWorker[c]) /\ Range(toWorker'[c]) \subseteq Range(toWorker[c])
  BY <1>5 DEF Range
<1>7. /\ toClient'[c] = toClient[c] \/ (chan[c].fd /\ toClient'[c] = Append(toClient[c], o.ev))
      /\ Answers(c)' \subseteq Answers(c) \cup {o.ev}
  <2>1. toClient'[c] = toClient[c] \/ (chan[c].fd /\ toClient'[c] = Append(toClient[c], o.ev))
    BY <1>1, <1>3
  <2>2. Range(Append(toClient[c], o.ev)) = Range(toClient[c]) \cup {o.ev}
    BY <1>1, <1>4, AppendRange
  <2> QED
    BY <1>2, <2>1, <2>2 DEF Answers
<1>8. /\ \A d \in Channels \ {c} : proc'[d] = proc[d] /\ toWorker'[d] = toWorker[d] /\ toClient'[d] = toClient[d]
      /\ \/ proc'[c].graphs = {} /\ ~proc'[c].alive
         \/ proc'[c] = o.w /\ ~o.w.shutdown
  BY <1>1, <1>2, <1>3 DEF NoWorker
<1>9. \A d \in Channels : /\ Recorded(d)' <=> Recorded(d)
                          /\ Healthy(d)' <=> Healthy(d)
                          /\ Down(d)' <=> Down(d)
                          /\ Leased(d)' <=> Leased(d)
                          /\ Serving(d)' => Serving(d)
                          /\ d # c => (Serving(d)' <=> Serving(d)) /\ Answers(d)' = Answers(d)
  BY <1>2, <1>8 DEF Recorded, RecordOf, Healthy, Down, Leased, Serving, Answers
<1>10. \A d \in Channels : InUse(d)' => InUse(d)
  BY <1>9 DEF InUse
<1>11. InUse(c)' => r.by = "client" /\ r.kind # "Shutdown"
  <2> SUFFICES ASSUME InUse(c)', r.by # "client" PROVE FALSE
    BY <1>6, <1>10 DEF ServeInv, ManagerSilent
  <2>1. r.by = "manager"
    BY DEF Requests
  <2>2. r.kind = "Shutdown" /\ ~Recorded(c)
    BY <1>6, <1>10, <2>1 DEF ServeInv, ManagerSilent
  <2>3. o.w.shutdown
    BY <1>1, <2>2, HandleAnswers
  <2>4. ~proc'[c].alive
    BY <1>8, <2>3
  <2> QED
    BY <1>9, <2>2, <2>4 DEF InUse, Serving
<1>12. AsksFor' /\ LeasesBegun' /\ AnswersRead'
  <2>1. AsksFor'
    BY <1>2 DEF ServeInv, AsksFor, AsksAbout, Transacting
  <2>2. LeasesBegun'
    BY <1>2 DEF ServeInv, LeasesBegun, LeaseBegun, Begun, WorkerStarted
  <2>3. AnswersRead'
    BY <1>2 DEF ServeInv, AnswersRead, HasReader
  <2> QED
    BY <2>1, <2>2, <2>3
<1>13. HandshakesEmpty'
  <2> SUFFICES ASSUME NEW t \in Threads, NEW th, th = thr[t], th.spawned # NoChannel, NEW d, d = th.spawned PROVE HandshakeOf(th, d)'
    BY <1>2 DEF HandshakesEmpty
  <2>1. d \in Channels /\ HandshakeOf(th, d)
    BY <1>1 DEF ThreadStates, ServeInv, HandshakesEmpty
  <2>2. CASE d # c
    BY <1>2, <1>8, <1>9, <2>1, <2>2 DEF HandshakeOf, Open
  <2>3. CASE d = c
    <3>1. Open(c)
      BY <1>2 DEF LeaseInv, OpenIsReferred, Open
    <3>2. th.pc \notin {"ensure", "start"} /\ ~(th.pc = "handshaken" /\ th.resp.kind = "Health")
      BY <1>2, <2>1, <2>3, <3>1 DEF HandshakeOf
    <3>3. CASE th.pc = "wait"
      <4>1. proc[c].graphs = {} /\ toWorker[c] = <<th.req>> /\ toClient[c] = << >> /\ chan[c].responses = {}
        BY <1>2, <2>1, <2>3, <3>3 DEF HandshakeOf
      <4>2. r = th.req /\ toWorker'[c] = << >>
        BY <1>2a, <1>5, <4>1
      <4>3. r.kind = "ConfigHandshake"
        <5>1. Handshaking(th)
          BY OutlineFacts, <3>3, <1>1 DEF LeaseInv, Outline, OutlineOf, Resting, Acquiring, OnLease, RetiringWorkers, LeavingChannel, Finished, HoldsOnly
        <5>2. th.ret = "handshaken" /\ Transacting(th)
          BY <3>3, <5>1 DEF Handshaking, Place, Transacting, TransactionLabels
        <5> QED
          BY <4>2, <5>2 DEF ServeInv, AsksFor, AsksAbout
      <4>4. proc'[c].graphs = {}
        BY <1>4, <1>8, <4>1, <4>3 DEF Tells, SessionKinds
      <4>5. toClient'[c] = << >> \/ Len(toClient'[c]) = 1
        <5>1. Append(<< >>, o.ev) = <<o.ev>> /\ Len(<<o.ev>>) = 1
          OBVIOUS
        <5> QED
          BY <1>7, <4>1, <5>1
      <4> QED
        BY <1>2, <2>3, <3>3, <4>1, <4>2, <4>4, <4>5 DEF HandshakeOf
    <3> QED
      BY <2>3, <3>2, <3>3 DEF HandshakeOf
  <2> QED
    BY <2>2, <2>3
<1>14. ManagerSilent'
  <2> SUFFICES ASSUME NEW d \in Channels, InUse(d)'
               PROVE  /\ \A q \in Range(toWorker'[d]) : q.by = "manager" => q.kind = "Shutdown" /\ ~Recorded(d)'
                      /\ \A q \in Range(toWorker'[d]) : q.kind = "Shutdown" => q.by = "manager"
                      /\ \A e \in Answers(d)' : e.by = "client"
    BY DEF ManagerSilent
  <2>1. CASE d # c
    BY <1>8, <1>9, <1>10, <2>1 DEF ServeInv, ManagerSilent
  <2>2. CASE d = c
    <3>1. o.ev.by = "client"
      BY <1>4, <1>11, <2>2 DEF Tells
    <3> QED
      BY <1>6, <1>7, <1>9, <1>10, <2>2, <3>1 DEF ServeInv, ManagerSilent
  <2> QED
    BY <2>1, <2>2
<1>15. IdsOnce'
  <2>1. ASSUME NEW d \in Channels, InUse(d)'
        PROVE  /\ \A i, j \in DOMAIN toWorker'[d] :
                    (toWorker'[d][i].by = "client" /\ toWorker'[d][j].by = "client"
                       /\ toWorker'[d][i].id = toWorker'[d][j].id) => i = j
               /\ \A q \in Range(toWorker'[d]), e \in Answers(d)' : q.by = "client" => q.id # e.id
    <3>1. /\ \A i, j \in DOMAIN toWorker[d] :
                (toWorker[d][i].by = "client" /\ toWorker[d][j].by = "client"
                   /\ toWorker[d][i].id = toWorker[d][j].id) => i = j
          /\ \A q \in Range(toWorker[d]), e \in Answers(d) : q.by = "client" => q.id # e.id
      BY <1>10, <2>1 DEF ServeInv, IdsOnce
    <3>2. CASE d # c
      BY <1>8, <1>9, <3>1, <3>2
    <3>3. CASE d = c
      <4>1. \A i, j \in DOMAIN toWorker'[c] :
                (toWorker'[c][i].by = "client" /\ toWorker'[c][j].by = "client"
                   /\ toWorker'[c][i].id = toWorker'[c][j].id) => i = j
        <5>1. ASSUME NEW i \in DOMAIN toWorker'[c], NEW j \in DOMAIN toWorker'[c],
                     toWorker'[c][i].by = "client", toWorker'[c][j].by = "client", toWorker'[c][i].id = toWorker'[c][j].id
              PROVE  i = j
          <6>1. i + 1 = j + 1
            BY <1>5, <3>1, <3>3, <5>1
          <6>2. i \in Nat /\ j \in Nat
            BY <1>5
          <6> QED
            BY <6>1, <6>2
        <5> QED
          BY <5>1
      <4>2. ASSUME NEW i \in DOMAIN toWorker'[c], toWorker'[c][i].by = "client" PROVE toWorker'[c][i].id # r.id
        BY <1>5, <1>11, <2>1, <3>1, <3>3, <4>2
      <4>3. ASSUME NEW q \in Range(toWorker'[c]), NEW e \in Answers(c)', q.by = "client" PROVE q.id # e.id
        <5>1. q.id # r.id
          BY <4>2, <4>3 DEF Range
        <5>2. o.ev.id = r.id
          BY <1>4 DEF Tells
        <5> QED
          BY <1>6, <1>7, <3>1, <3>3, <4>3, <5>1, <5>2
      <4> QED
        BY <3>3, <4>1, <4>3
    <3> QED
      BY <3>2, <3>3
  <2>2. ASSUME NEW t \in Threads, NEW th, th = thr[t] PROVE OwnId(th)'
    <3> SUFFICES ASSUME Transacting(th), th.req.by = "client", NEW d, d = th.chan, InUse(d)'
                 PROVE  /\ \A q \in Range(toWorker'[d]) :
                             (q.by = "client" /\ q.id = th.req.id) => th.pc = "wait" /\ q = th.req
                        /\ th.pc # "wait" => \A e \in Answers(d)' : e.id # th.req.id
      BY DEF OwnId
    <3>1. d \in Channels
      BY <2>2, SenderFacts DEF ServeInv, Transacting
    <3>2. /\ \A q \in Range(toWorker[d]) : (q.by = "client" /\ q.id = th.req.id) => th.pc = "wait" /\ q = th.req
          /\ th.pc # "wait" => \A e \in Answers(d) : e.id # th.req.id
      BY <1>10, <2>2, <3>1 DEF ServeInv, IdsOnce, OwnId
    <3>3. CASE d # c
      BY <1>8, <1>9, <3>1, <3>2, <3>3
    <3>4. CASE d = c
      <4>1. o.ev.id = r.id /\ r.by = "client"
        BY <1>4, <1>11, <3>4 DEF Tells
      <4> QED
        BY <1>6, <1>7, <3>2, <3>4, <4>1
    <3> QED
      BY <3>3, <3>4
  <2>3. \A t \in Threads : OwnId(thr[t])'
    <3> SUFFICES ASSUME NEW t \in Threads PROVE OwnId(thr[t])'
      OBVIOUS
    <3>1. PICK th : th = thr[t]
      OBVIOUS
    <3>2. OwnId(th)'
      BY <2>2, <3>1
    <3> QED
      BY <1>2, <3>1, <3>2 DEF OwnId
  <2> QED
    BY <1>2, <2>1, <2>3 DEF IdsOnce
<1>16. OwnRequests'
  <2> SUFFICES ASSUME NEW d \in Channels, InUse(d)', NEW q \in Range(toWorker'[d]), q.kind \in SessionKinds
               PROVE  q.graph \in Graphs /\ Owns(thr[q.graph], d, q)'
    BY DEF OwnRequests
  <2>1. q \in Range(toWorker[d])
    BY <1>6, <1>8
  <2>2. q.graph \in Graphs /\ Owns(thr[q.graph], d, q)
    BY <1>10, <2>1 DEF ServeInv, OwnRequests
  <2> QED
    BY <1>2, <1>9, <2>2 DEF Owns
<1>17. NoOrphans'
  <2> SUFFICES ASSUME NEW d \in Channels, Recorded(d)', NEW g \in proc'[d].graphs PROVE thr[g].lease = d
    BY <1>2 DEF NoOrphans
  <2>1. Recorded(d) /\ InUse(d)
    BY <1>9 DEF InUse
  <2>2. CASE g \in proc[d].graphs
    BY <2>1, <2>2 DEF ServeInv, NoOrphans
  <2>3. CASE g \notin proc[d].graphs
    <3>1. d = c /\ proc'[c] = o.w /\ ~o.w.shutdown
      BY <1>8, <2>3
    <3>2. r.kind = "StartSessions" /\ g = r.graph
      BY <1>4, <2>3, <3>1 DEF Tells
    <3>3. Owns(thr[g], c, r)
      BY <1>6, <2>1, <3>1, <3>2 DEF ServeInv, OwnRequests, SessionKinds
    <3> QED
      BY <3>1, <3>3 DEF Owns
  <2> QED
    BY <2>2, <2>3
<1>18. ClientsStand'
  <2> SUFFICES ASSUME NEW g \in Graphs, thr[g].lease # NoChannel, NEW d, d = thr[g].lease
               PROVE  Stands(g, thr[g], d)'
    BY <1>2 DEF ClientsStand
  <2>1. d \in Channels /\ Stands(g, thr[g], d) /\ g \in Threads
    BY <1>1 DEF ThreadStates, ServeInv, ClientsStand
  <2>2. Registered(g, d) => Registered(g, d)'
    BY <1>2 DEF Registered, Healthy
  <2>3. CASE d # c
    <3>1. (Clean(g, d) => Clean(g, d)') /\ (Served(g, d) => Served(g, d)')
      BY <1>8, <1>9, <2>1, <2>3 DEF Clean, Served
    <3> QED
      BY <1>2, <1>8, <1>9, <2>1, <2>2, <2>3, <3>1, StandsStill
  <2>4. CASE d = c /\ (~InUse(c)' \/ ~(proc'[c] = o.w /\ ~o.w.shutdown))
    <3>1. Clean(g, c)' /\ Served(g, c)'
      <4>1. CASE ~InUse(c)'
        <5>1. Leased(c)'
          BY <1>2, <2>4 DEF Leased
        <5> QED
          BY <4>1, <5>1 DEF InUse, Clean, Served
      <4>2. CASE proc'[c].graphs = {} /\ ~proc'[c].alive
        BY <4>2 DEF Clean, Served, Serving
      <4> QED
        BY <1>8, <2>4, <4>1, <4>2
    <3> QED
      BY <1>2, <2>1, <2>2, <2>4, <3>1, StandsIdle
  <2>5. CASE d = c /\ InUse(c)' /\ proc'[c] = o.w /\ ~o.w.shutdown /\ r.kind \in SessionKinds /\ r.graph = g
    <3>1. r \notin Range(toWorker'[c])
      <4>1. InUse(c) /\ r.by = "client"
        BY <1>10, <1>11, <2>5
      <4>2. \A i \in DOMAIN toWorker[c] : (toWorker[c][i] = r) => i = 1
        BY <1>5, <4>1 DEF ServeInv, IdsOnce
      <4> QED
        BY <1>5, <4>2 DEF Range
    <3>2. /\ r.kind = "StartSessions" =>
               \/ proc'[c].graphs = proc[c].graphs /\ o.ev.kind # "Started"
               \/ proc'[c].graphs = proc[c].graphs \cup {g} /\ o.ev.kind = "Started"
          /\ r.kind = "StopSessions" => g \notin proc'[c].graphs
      BY <1>4, <2>5 DEF Tells
    <3>3. InUse(c) /\ r.by = "client" /\ thr[g].lease = c
      BY <1>10, <1>11, <2>5
    <3>4. PICK ev : ev = o.ev
      OBVIOUS
    <3>5. /\ Answers(c)' \subseteq Answers(c) \cup {ev}
          /\ r.kind = "StartSessions" =>
               \/ proc'[c].graphs = proc[c].graphs /\ ev.kind # "Started"
               \/ proc'[c].graphs = proc[c].graphs \cup {g} /\ ev.kind = "Started"
          /\ r.kind = "StopSessions" => g \notin proc'[c].graphs
      BY <1>7, <3>2, <3>4
    <3>6. r.graph = g /\ r.kind \in SessionKinds /\ UNCHANGED <<chan, thr, workers>>
      BY <1>2, <2>5
    <3>7. Stands(g, thr[g], c)'
      BY <1>6, <3>1, <3>3, <3>5, <3>6, AnsweredStands
    <3> QED
      BY <2>5, <3>7
  <2>6. CASE d = c /\ InUse(c)' /\ proc'[c] = o.w /\ ~o.w.shutdown /\ ~(r.kind \in SessionKinds /\ r.graph = g)
    <3>1. g \in proc'[c].graphs <=> g \in proc[c].graphs
      BY <1>4, <2>6 DEF Tells, SessionKinds
    <3>2. (Clean(g, c) => Clean(g, c)') /\ (Served(g, c) => Served(g, c)')
      BY <1>9, <3>1 DEF Clean, Served
    <3>3. ASSUME thr[g].pc = "wait", thr[g].ret \in {"startAnswered", "stopAnswered"}, NEW e \in Answers(c)', e.id = thr[g].req.id
          PROVE  e \in Answers(c)
      <4> SUFFICES ASSUME e = o.ev PROVE FALSE
        BY <1>7
      <4>1. r.id = thr[g].req.id
        BY <1>4, <3>3 DEF Tells
      <4>2. Transacting(thr[g]) /\ thr[g].ret \in LeaseLabels
        BY <3>3 DEF Transacting, TransactionLabels, LeaseLabels
      <4>3. thr[g].req.by = "client" /\ thr[g].chan = c
        BY <2>1, <2>6, <4>2, AskerFacts
      <4>4. r = thr[g].req
        BY <1>6, <1>10, <1>11, <2>1, <2>6, <4>1, <4>2, <4>3 DEF ServeInv, IdsOnce, OwnId
      <4>5. thr[g].req.kind \in SessionKinds /\ thr[g].req.graph = g
        BY <2>1, <3>3, <4>2 DEF ServeInv, AsksFor, AsksAbout, SessionKinds
      <4> QED
        BY <2>6, <4>4, <4>5
    <3> QED
      BY <1>2, <1>6, <2>1, <2>2, <2>6, <3>2, <3>3, StandsStill
  <2> QED
    BY <2>3, <2>4, <2>5, <2>6
<1> QED
  BY <1>12, <1>13, <1>14, <1>15, <1>16, <1>17, <1>18 DEF ServeInv

-----------------------------------------------------------------------------
(* The graphs in the workers: every step.                                  *)

LEMMA ClientStepServes ==
    ASSUME LeaseInv, LeaseInv', ServeInv, NEW g \in Graphs, ClientStep(g)
    PROVE  ServeInv'
<1>1. PICK next : next = thr'[g]
  OBVIOUS
<1>2. SUFFICES Serves(g, next) /\ AnswersRead'
  <2>1. g \in Threads
    BY DEF Threads
  <2> QED
    BY <2>1, ServeKept
<1>3. /\ thr[g].pc \in LeaseLabels => thr[g].lease # NoChannel /\ OnLease(thr[g]) /\ thr[g] \in ThreadStates
      /\ thr[g].pc \in LeaseLabels => Place(thr[g]) = thr[g].pc
      /\ thr[g].lease # NoChannel => Stands(g, thr[g], thr[g].lease)
  <2>1. thr[g].pc \in LeaseLabels => OnLease(thr[g]) /\ thr[g] \in ThreadStates
    BY LeaseFacts
  <2>2. thr[g].pc \in LeaseLabels => Place(thr[g]) = thr[g].pc
    BY DEF Place, Transacting, TransactionLabels, LeaseLabels
  <2> QED
    BY <2>1, <2>2 DEF OnLease, ServeInv, ClientsStand
<1>4. CASE AcquireFails(g) \/ Acquire(g) \/ HandshakeFails(g) \/ Register(g) \/ Prepare(g)
  BY <1>1, <1>4, AcquireFailsServes, AcquireServes, HandshakeFailsServes, RegisterServes, PrepareServes
<1>5. CASE PrepareFails(g)
  <2>1. thr[g].pc = "healthChecked" /\ ReleaseGraph(g) /\ UNCHANGED <<toWorker, toClient, proc>> /\ thr[g].pc \in LeaseLabels
    BY <1>5 DEF PrepareFails, LeaseLabels
  <2>2. Clean(g, thr[g].lease)
    BY <1>3, <2>1 DEF Stands, OnLease
  <2> QED
    BY <1>1, <2>1, <2>2, ReleaseServes
<1>6. CASE StartAnswered(g)
  <2>1. thr[g].pc = "startAnswered" /\ thr[g].pc \in LeaseLabels /\ UNCHANGED <<toWorker, toClient, proc>>
    BY <1>6 DEF StartAnswered, LeaseLabels
  <2>2. CASE /\ StartOk(g, thr[g].resp)
             /\ thr' = [thr EXCEPT ![g] = Idle([@ EXCEPT !.running = TRUE])]
             /\ UNCHANGED <<chan, workers>>
    <3>1. thr' = [thr EXCEPT ![g] = Idle([thr[g] EXCEPT !.running = TRUE])] /\ thr[g].resp.kind = "Started"
      BY <2>2 DEF StartOk
    <3> QED
      BY <1>1, <2>1, <2>2, <3>1, AnsweredServes
  <2>3. CASE StartRefused(thr[g].resp) /\ ReleaseGraph(g)
    <3>1. StartTells(g, thr[g].lease, thr[g].resp) /\ thr[g].resp.kind = "Error"
      BY <1>3, <2>1, <2>3 DEF Stands, Starting, StartRefused
    <3>2. Clean(g, thr[g].lease) /\ thr[g].resp # Failed
      BY <3>1 DEF StartTells, Failed, NoEvent
    <3> QED
      BY <1>1, <2>1, <2>3, <3>2, ReleaseServes
  <2>4. CASE InvalidateWorker(g)
    BY <1>1, <2>1, <2>4, InvalidateServes
  <2> QED
    BY <1>6, <2>2, <2>3, <2>4 DEF StartAnswered
<1>7. CASE StopAnswered(g)
  <2>1. thr[g].pc = "stopAnswered" /\ thr[g].pc \in LeaseLabels /\ UNCHANGED <<toWorker, toClient, proc>>
    BY <1>7 DEF StopAnswered, LeaseLabels
  <2>2. CASE StopOk(g, thr[g].resp) /\ ReleaseGraph(g)
    <3>1. StopTells(g, thr[g].lease, thr[g].resp) /\ thr[g].resp.kind = "Stopped"
      BY <1>3, <2>1, <2>2 DEF Stands, Stopping, StopOk
    <3>2. Clean(g, thr[g].lease) /\ thr[g].resp # Failed
      BY <3>1 DEF StopTells, Failed, NoEvent
    <3> QED
      BY <1>1, <2>1, <2>2, <3>2, ReleaseServes
  <2>3. CASE InvalidateWorker(g)
    BY <1>1, <2>1, <2>3, InvalidateServes
  <2> QED
    BY <1>7, <2>2, <2>3 DEF StopAnswered
<1>8. CASE StatsHealthAnswered(g)
  <2>1. thr[g].pc = "statsHealthChecked" /\ thr[g].pc \in LeaseLabels /\ UNCHANGED <<toWorker, toClient, proc>>
    BY <1>8 DEF StatsHealthAnswered, LeaseLabels
  <2>2. thr[g].running
    BY <1>3, <2>1 DEF OnLease
  <2>3. CASE InvalidateWorker(g)
    BY <1>1, <2>1, <2>3, InvalidateServes
  <2>4. CASE /\ \E n \in CallsOnLease(g, "Stats", "statsAnswered") : thr' = [thr EXCEPT ![g] = n]
             /\ UNCHANGED <<chan, workers>>
    <3>1. next \in CallsOnLease(g, "Stats", "statsAnswered") /\ thr' = [thr EXCEPT ![g] = next]
      BY <1>1, <2>4 DEF LeaseInv, Types, Threads
    <3> QED
      BY <2>1, <2>2, <2>4, <3>1, CallOnLeaseServes
  <2> QED
    BY <1>8, <2>3, <2>4 DEF StatsHealthAnswered
<1>9. CASE StatsAnswered(g)
  <2>1. thr[g].pc = "statsAnswered" /\ thr[g].pc \in LeaseLabels /\ UNCHANGED <<toWorker, toClient, proc>>
    BY <1>9 DEF StatsAnswered, LeaseLabels
  <2>2. thr[g].running
    BY <1>3, <2>1 DEF OnLease
  <2>3. CASE InvalidateWorker(g)
    BY <1>1, <2>1, <2>3, InvalidateServes
  <2>4. CASE thr' = [thr EXCEPT ![g] = Idle(@)] /\ UNCHANGED <<chan, workers>>
    <3>1. [thr[g] EXCEPT !.running = TRUE] = thr[g]
      BY <1>3, <2>1, <2>2 DEF ThreadStates
    <3>2. thr' = [thr EXCEPT ![g] = Idle([thr[g] EXCEPT !.running = TRUE])]
      BY <2>4, <3>1
    <3> QED
      BY <1>1, <2>1, <2>4, <3>2, AnsweredServes
  <2> QED
    BY <1>9, <2>3, <2>4 DEF StatsAnswered
<1> QED
  BY <1>4, <1>5, <1>6, <1>7, <1>8, <1>9 DEF ClientStep

LEMMA ClientCallServes ==
    ASSUME LeaseInv, LeaseInv', ServeInv, NEW g \in Graphs, ClientCall(g)
    PROVE  ServeInv'
<1>1. PICK next : next = thr'[g]
  OBVIOUS
<1>2. SUFFICES Serves(g, next) /\ AnswersRead'
  <2>1. g \in Threads
    BY DEF Threads
  <2> QED
    BY <2>1, ServeKept
<1>3. CASE \E runtime \in RuntimesOf[g] : StartCall(g, runtime)
  BY <1>1, <1>3, StartCallServes
<1>4. CASE StatsCall(g)
  <2>1. /\ next \in CallsOnLease(g, "HealthCheck", "statsHealthChecked") /\ thr' = [thr EXCEPT ![g] = next]
        /\ thr[g].pc = "idle" /\ thr[g].running /\ UNCHANGED <<chan, toWorker, toClient, proc, workers>>
    BY <1>1, <1>4 DEF LeaseInv, Types, Threads, StatsCall
  <2> QED
    BY <2>1, CallOnLeaseServes
<1>5. CASE StopCall(g)
  <2>1. /\ next \in CallsOnLease(g, "StopSessions", "stopAnswered") /\ thr' = [thr EXCEPT ![g] = next]
        /\ thr[g].pc = "idle" /\ thr[g].running /\ UNCHANGED <<chan, toWorker, toClient, proc, workers>>
    BY <1>1, <1>5 DEF LeaseInv, Types, Threads, StopCall
  <2> QED
    BY <2>1, CallOnLeaseServes
<1> QED
  BY <1>3, <1>4, <1>5 DEF ClientCall

LEMMA StutterServes ==
    ASSUME LeaseInv, ServeInv, UNCHANGED <<chan, toWorker, toClient, proc, thr, workers>>
    PROVE  ServeInv'
<1>1. ASSUME NEW d \in Channels PROVE Weakens(d)
  <2>1. ASSUME NEW t \in Threads, HandshakeOf(thr[t], d) PROVE HandshakeOf(thr[t], d)'
    BY <2>1 DEF HandshakeOf, Answers, Open
  <2> QED
    BY <2>1 DEF Weakens, Answers, Begun, WorkerStarted, Healthy, Down, HasReader, Serving
<1> QED
  BY <1>1, WeakensServes

LEMMA InitServes == Init => ServeInv
<1> SUFFICES ASSUME Init PROVE ServeInv
  OBVIOUS
<1>1. /\ chan = [c \in Channels |-> NewChannel] /\ workers = {} /\ thr = [t \in Threads |-> NewThread]
      /\ toWorker = [c \in Channels |-> << >>] /\ toClient = [c \in Channels |-> << >>]
      /\ Graphs \subseteq Threads
  BY DEF Init, ChannelInit, Threads
<1>2. /\ NewThread.pc = "idle" /\ NewThread.spawned = NoChannel /\ NewThread.lease = NoChannel
      /\ NewChannel.responses = {} /\ ~NewChannel.pid
  BY DEF NewThread, NewChannel
<1>3. /\ \A c \in Channels : ~InUse(c) /\ ~Recorded(c)
      /\ \A t \in Threads : ~Transacting(thr[t]) /\ thr[t].spawned = NoChannel /\ thr[t].lease = NoChannel
  BY <1>1, <1>2 DEF InUse, Recorded, RecordOf, Serving, Healthy, Transacting, TransactionLabels
<1>4. AsksFor /\ LeasesBegun /\ HandshakesEmpty /\ ManagerSilent
  BY <1>3 DEF AsksFor, AsksAbout, LeasesBegun, LeaseBegun, HandshakesEmpty, ManagerSilent
<1>5. AnswersRead
  BY <1>1, <1>2 DEF AnswersRead
<1>6. IdsOnce /\ OwnRequests /\ NoOrphans
  BY <1>3 DEF IdsOnce, OwnId, OwnRequests, NoOrphans
<1>7. ClientsStand
  BY <1>1, <1>3 DEF ClientsStand
<1> QED
  BY <1>4, <1>5, <1>6, <1>7 DEF ServeInv

LEMMA NextServes == LeaseInv /\ LeaseInv' /\ WaitInv /\ ServeInv /\ [Next]_vars => ServeInv'
<1> SUFFICES ASSUME LeaseInv, LeaseInv', WaitInv, ServeInv, [Next]_vars
             PROVE  ServeInv'
  OBVIOUS
<1>1. ASSUME NEW t \in Threads, ThreadStep(t) PROVE ServeInv'
  <2>1. PICK next : next = thr'[t]
    OBVIOUS
  <2>2. CASE EnsureChecked(t) /\ UNCHANGED workers
    BY <2>1, <2>2, EnsureKeeps, EnsureServes, ServeKept
  <2>3. CASE StartWorkerAndSend(t) /\ UNCHANGED workers /\ chan[thr[t].chan].reader = "none"
    BY <2>1, <2>3, StartWorkerKeeps, StartWorkerServes, ServeKept
  <2>4. CASE StartWorkerAndSend(t) /\ UNCHANGED workers /\ chan[thr[t].chan].reader # "none"
    <3>1. UNCHANGED <<chan, toWorker, toClient, proc, thr, workers>>
      BY <2>4 DEF StartWorkerAndSend
    <3> QED
      BY <3>1, StutterServes
  <2>5. CASE Send(t) /\ UNCHANGED workers
    BY <2>1, <2>5, SendKeeps, SendServes, ServeKept
  <2>6. CASE (WaitEnds(t) \/ WaitTimesOut(t) \/ StartWorkerFails(t)) /\ UNCHANGED workers
    BY <2>1, <2>6, WaitKeeps, WaitServes, ServeKept
  <2>7. CASE (CloseSocket(t) \/ JoinReader(t)) /\ UNCHANGED workers
    BY <2>1, <2>7, TeardownLegKeeps, TeardownLegServes, ServeKept
  <2>8. CASE CloseEnds(t)
    BY <2>1, <2>8, CloseEndsKeeps, CloseEndsServes, ServeKept
  <2> QED
    BY <1>1, <2>2, <2>3, <2>4, <2>5, <2>6, <2>7, <2>8 DEF ThreadStep
<1>2. ASSUME NEW g \in Graphs, ClientStep(g) \/ ClientCall(g) PROVE ServeInv'
  BY <1>2, ClientStepServes, ClientCallServes
<1>3. ASSUME NEW c \in Channels, ReaderStep(c) \/ WorkerStep(c) \/ WorkerFault(c) PROVE ServeInv'
  BY <1>3, ReaderServes, WorkerHandlesServes, WorkerEndsServes DEF ReaderStep, WorkerStep, WorkerFault
<1>4. CASE ShutdownAll(Exit)
  <2>1. Exit \in Threads
    BY DEF Threads
  <2>2. PICK next : next = thr'[Exit]
    OBVIOUS
  <2> QED
    BY <1>4, <2>1, <2>2, ShutdownAllServes, ServeKept
<1>5. CASE UNCHANGED vars
  <2>1. UNCHANGED <<chan, toWorker, toClient, proc, thr, workers>>
    BY <1>5 DEF vars
  <2> QED
    BY <2>1, StutterServes
<1> QED
  BY <1>1, <1>2, <1>3, <1>4, <1>5 DEF Next

\* A worker that is cached receives for no graph but those its record counts,
\* whatever answer was lost, late or taken by another request; and a client
\* that is running, whose worker is alive on a healthy channel, has its graph
\* and its event handler there.
THEOREM WorkersAlwaysServe == Spec => []WorkersServeTheirClients
<1>1. Spec => [](LeaseInv /\ WaitInv /\ ServeInv)
  <2>1. Init => LeaseInv /\ WaitInv /\ ServeInv
    BY InitKeeps, InitWaits, InitServes
  <2>2. (LeaseInv /\ WaitInv /\ ServeInv) /\ [Next]_vars => (LeaseInv /\ WaitInv /\ ServeInv)'
    BY NextKeeps, NextWaits, NextServes
  <2> QED
    BY <2>1, <2>2, PTL DEF Spec
<1>2. LeaseInv /\ ServeInv => WorkersServeTheirClients
  <2> SUFFICES ASSUME LeaseInv, ServeInv PROVE WorkersServeTheirClients
    OBVIOUS
  <2>1. ASSUME NEW r \in workers PROVE proc[r.chan].graphs \subseteq r.active
    <3>1. r.chan \in Channels /\ r.active = {g \in Graphs : thr[g].lease = r.chan} /\ proc[r.chan].graphs \subseteq Graphs
      BY DEF LeaseInv, Types, Records, RecordsCount, WorkerStates
    <3>2. Recorded(r.chan)
      BY DEF Recorded, RecordOf
    <3> QED
      BY <3>1, <3>2 DEF ServeInv, NoOrphans
  <2>2. ASSUME NEW g \in Graphs, thr[g].running, thr[g].pc = "idle", Healthy(thr[g].lease), proc[thr[g].lease].alive
        PROVE  g \in proc[thr[g].lease].graphs /\ g \in chan[thr[g].lease].handlers
    <3>1. Stands(g, thr[g], thr[g].lease)
      <4>1. thr[g].lease # NoChannel
        <5>1. g \in Threads
          BY DEF Threads
        <5>2. OutlineOf(g, thr[g])
          BY <5>1 DEF LeaseInv, Outline
        <5> QED
          BY <2>2, <5>2 DEF OutlineOf, Resting, Acquiring, Handshaking, OnLease, RetiringWorkers,
             LeavingChannel, Finished, Place, Transacting, TransactionLabels, TeardownLabels, LeaseLabels
      <4> QED
        BY <4>1 DEF ServeInv, ClientsStand
    <3>2. Place(thr[g]) = "idle"
      BY <2>2 DEF Place, Transacting, TransactionLabels
    <3> QED
      BY <2>2, <3>1, <3>2 DEF Stands, Served, Registered, Serving
  <2> QED
    BY <2>1, <2>2 DEF WorkersServeTheirClients
<1> QED
  BY <1>1, <1>2, PTL

=============================================================================
