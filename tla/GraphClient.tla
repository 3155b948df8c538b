---------------------------- MODULE GraphClient ----------------------------
(***************************************************************************)
(* MtlWorkerGraphClient: one client per graph, each driven by the thread   *)
(* of its source, above one worker manager.  Composed with the channels    *)
(* and the worker processes it is the whole control plane of the MTL       *)
(* backend.  Counting several start() calls and the sink belong to         *)
(* SourceRuntime; here start() is the call that starts the graph and       *)
(* stop() the one that stops it.                                           *)
(*                                                                         *)
(* A step is a lock section of the manager or of a channel, or a blocking  *)
(* call; what a thread computes between two of them belongs to the first.  *)
(***************************************************************************)
EXTENDS WorkerManager

CONSTANTS
    RuntimesOf,   \* [Graphs -> SUBSET Runtimes]: what a source may be configured for
    MaxCalls      \* calls of start() and stats()

ASSUME ControlAssumption ==
    /\ Channels \subseteq Nat \ {0} /\ Ids \subseteq Nat
    /\ Exit \notin Graphs
    /\ RuntimesOf \in [Graphs -> SUBSET Runtimes]

VARIABLE calls   \* calls of start() and stats() so far

vars == <<chan, toWorker, toClient, proc, thr, faults, aborted, workers, calls>>

NewThread ==
    [pc |-> "idle", rt |-> NoRuntime, lease |-> NoChannel, spawned |-> NoChannel,
     retire |-> <<>>, after |-> "idle",
     chan |-> NoChannel, req |-> NoRequest, resp |-> NoEvent, ret |-> "idle", cret |-> "idle",
     handler |-> FALSE, running |-> FALSE]

Init ==
    /\ ChannelInit
    /\ workers = {}
    /\ thr = [t \in Threads |-> NewThread]
    /\ calls = 0

\* The call has returned; a client that is not running has no lease.
Idle(th) ==
    IF th.running
    THEN [NewThread EXCEPT !.rt = th.rt, !.lease = th.lease, !.handler = th.handler, !.running = TRUE]
    ELSE NewThread

\* Thread t starts a transaction of its own counter ("client") or of the manager's.
Calls(t, th, c, kind, by, ret) ==
    {Calling([th EXCEPT !.resp = NoEvent], c, Request(t, th, kind, by, id), ret) : id \in NextIds(by, c)}

CallsOnLease(t, kind, ret) == Calls(t, thr[t], thr[t].lease, kind, "client", ret)

-----------------------------------------------------------------------------
\* What a thread does once thr.retire is empty, by thr.after.

\* acquire found nothing: a new channel, whose first transaction starts the process.
Spawns(t, th) ==
    UNION {Calls(t, [th EXCEPT !.spawned = c], c, "ConfigHandshake", "manager", "handshaken") :
             c \in {d \in Channels : Free(d) /\ \A e \in Channels : Free(e) => d <= e}}

\* shutdown_worker_lease_noexcept on each of thr.retire: a Shutdown whose
\* answer is ignored, then the teardown.
Continue(t, th) ==
    IF th.retire # <<>>
    THEN Calls(t, [th EXCEPT !.cret = "retired"], Head(th.retire), "Shutdown", "manager", "close")
    ELSE CASE th.after = "acquired" /\ th.lease # NoChannel ->
                Calls(t, th, th.lease, "HealthCheck", "client", "healthChecked")
           [] th.after = "acquired" /\ th.lease = NoChannel -> Spawns(t, th)
           [] th.after = "invalidated" -> {NewThread}
           [] th.after = "done" -> {[NewThread EXCEPT !.pc = "done"]}

Retiring(t, th, cs, after) == Continue(t, [th EXCEPT !.retire = cs, !.after = after, !.resp = NoEvent])

\* The end of a teardown.  The channel object goes with its last reference.
CloseEnds(t) ==
    LET c  == thr[t].chan
        th == [thr[t] EXCEPT !.cret = "idle", !.chan = NoChannel]
    IN
    /\ TerminateProcess(t, IF SharedWithOthers(t, c, workers) THEN Terminated(chan[c]) ELSE NewChannel)
    /\ \/ /\ thr[t].cret = "retired"
          /\ \E next \in Continue(t, [th EXCEPT !.retire = Tail(@)]) : thr' = [thr EXCEPT ![t] = next]
       \/ /\ thr[t].cret = "returned"
          /\ thr' = [thr EXCEPT ![t] = Idle(th)]
    /\ UNCHANGED workers

-----------------------------------------------------------------------------
\* start(): acquire_or_spawn_compatible_worker_for_graph

\* start() of a client that is not running; both media resolve to one runtime.
StartCall(t, runtime) ==
    /\ thr[t].pc = "idle" /\ ~thr[t].running
    /\ thr[Exit].pc = "idle"
    /\ thr' = [thr EXCEPT ![t] = [@ EXCEPT !.pc = "acquire", !.rt = runtime]]
    /\ UNCHANGED <<chan, toWorker, toClient, proc, workers, faults, aborted>>

\* The worker executable cannot be found.
AcquireFails(t) ==
    /\ thr[t].pc = "acquire"
    /\ Fault
    /\ thr' = [thr EXCEPT ![t] = NewThread]
    /\ UNCHANGED <<chan, toWorker, toClient, proc, workers, aborted>>

Acquire(t) ==
    LET rt == thr[t].rt IN
    /\ thr[t].pc = "acquire"
    /\ \E shutdown \in WorkersToShutdown(Retirable(rt)) :
         \/ \E r \in Matching(Kept(rt), rt) :
              /\ workers' = WithGraph(Kept(rt), r, t)
              /\ \E next \in Retiring(t, [thr[t] EXCEPT !.lease = r.chan], shutdown, "acquired") :
                   thr' = [thr EXCEPT ![t] = next]
         \/ /\ Matching(Kept(rt), rt) = {}
            /\ workers' = Kept(rt)
            /\ \E next \in Retiring(t, thr[t], shutdown, "acquired") : thr' = [thr EXCEPT ![t] = next]
    /\ UNCHANGED <<chan, toWorker, toClient, proc, faults, aborted>>

HandshakeFails(t) ==
    /\ thr[t].pc = "handshaken" /\ ~HandshakeAccepted(thr[t].resp)
    /\ thr' = [thr EXCEPT ![t] = Closing([@ EXCEPT !.spawned = NoChannel], @.spawned, "returned")]
    /\ UNCHANGED <<chan, toWorker, toClient, proc, workers, faults, aborted>>

Register(t) ==
    LET c  == thr[t].spawned
        rt == thr[t].rt
        th == [thr[t] EXCEPT !.spawned = NoChannel]
    IN
    /\ thr[t].pc = "handshaken" /\ HandshakeAccepted(thr[t].resp)
    /\ \/ \E r \in Rivals(rt) :
            /\ workers' = WithGraph(workers, r, t)
            /\ \E next \in Retiring(t, [th EXCEPT !.lease = r.chan], <<c>>, "acquired") :
                 thr' = [thr EXCEPT ![t] = next]
       \/ /\ Rivals(rt) = {}
          /\ workers' = workers \cup {NewRecord(c, rt, t)}
          /\ \E next \in Retiring(t, [th EXCEPT !.lease = c], <<>>, "acquired") :
               thr' = [thr EXCEPT ![t] = next]
    /\ UNCHANGED <<chan, toWorker, toClient, proc, faults, aborted>>

-----------------------------------------------------------------------------
\* Ways out of a graph.

\* interpret_health_event, interpret_start_sessions_event,
\* interpret_stop_sessions_event, interpret_stats_event
HealthOk(ev)     == ev.kind = "Health" /\ ev.arg = "healthy"
StartOk(t, ev)   == ev.kind = "Started" /\ ev.graph = t
StartRefused(ev) == ev.kind = "Error" /\ ev.arg = "value"
StopOk(t, ev)    == ev.kind = "Stopped" /\ ev.graph = t
StatsOk(t, ev)   == ev.kind = "Stats" /\ ev.graph = t

\* clear_started_graph_state_noexcept: the async handler is unregistered.
Unregistered(t, ch) == IF thr[t].handler THEN [ch EXCEPT !.handlers = @ \ {t}] ELSE ch

\* Thread t resets its lease when the records are rs: the last reference
\* tears the channel down.
ClearLease(t, rs) ==
    LET c == thr[t].lease
        last == ~SharedWithOthers(t, c, rs)
    IN
    /\ thr' = [thr EXCEPT ![t] =
         IF last /\ Open(c) THEN Closing(NewThread, c, "returned") ELSE NewThread]
    /\ chan' = [chan EXCEPT ![c] = IF last /\ ~Open(c) THEN NewChannel ELSE Unregistered(t, @)]

\* release_graph_and_clear_lease_noexcept
ReleaseGraph(t) ==
    /\ workers' = Released(thr[t].lease, t)
    /\ ClearLease(t, Released(thr[t].lease, t))

\* invalidate_worker_and_clear_lease_noexcept; only the thread that still
\* finds the record shuts the worker down.
InvalidateWorker(t) ==
    LET c == thr[t].lease IN
    \/ /\ RecordOf(c) # {}
       /\ workers' = Invalidated(c)
       /\ chan' = [chan EXCEPT ![c] = Unregistered(t, @)]
       /\ \E next \in Retiring(t, [NewThread EXCEPT !.lease = c], <<c>>, "invalidated") :
            thr' = [thr EXCEPT ![t] = next]
    \/ /\ RecordOf(c) = {}
       /\ ClearLease(t, workers)
       /\ UNCHANGED workers

-----------------------------------------------------------------------------
\* start(), with a lease

\* prepare_media_rings fails: memfd or mmap.
PrepareFails(t) ==
    /\ thr[t].pc = "healthChecked" /\ HealthOk(thr[t].resp)
    /\ Fault
    /\ ReleaseGraph(t)
    /\ UNCHANGED <<toWorker, toClient, proc, aborted>>

\* Health is answered; the rings exist, the handler is registered, then
\* StartSessions is sent.
Prepare(t) ==
    LET c == thr[t].lease IN
    /\ thr[t].pc = "healthChecked"
    /\ IF ~HealthOk(thr[t].resp) \/ chan[c].shutdown \/ chan[c].failed
       THEN InvalidateWorker(t)
       ELSE /\ chan' = [chan EXCEPT ![c].handlers = @ \cup {t}]
            /\ \E next \in Calls(t, [thr[t] EXCEPT !.handler = TRUE, !.after = "idle"], c,
                                 "StartSessions", "client", "startAnswered") :
                 thr' = [thr EXCEPT ![t] = next]
            /\ UNCHANGED workers
    /\ UNCHANGED <<toWorker, toClient, proc, faults, aborted>>

StartAnswered(t) ==
    /\ thr[t].pc = "startAnswered"
    /\ \/ /\ StartOk(t, thr[t].resp)
          /\ thr' = [thr EXCEPT ![t] = Idle([@ EXCEPT !.running = TRUE])]
          /\ UNCHANGED <<chan, workers>>
       \/ StartRefused(thr[t].resp) /\ ReleaseGraph(t)
       \/ ~StartOk(t, thr[t].resp) /\ ~StartRefused(thr[t].resp) /\ InvalidateWorker(t)
    /\ UNCHANGED <<toWorker, toClient, proc, faults, aborted>>

-----------------------------------------------------------------------------
\* stop() and stats()

StopCall(t) ==
    /\ thr[t].pc = "idle" /\ thr[t].running
    /\ \E next \in CallsOnLease(t, "StopSessions", "stopAnswered") : thr' = [thr EXCEPT ![t] = next]
    /\ UNCHANGED <<chan, toWorker, toClient, proc, workers, faults, aborted>>

\* Mutant: a stop that was not answered releases the worker.
StopAnswered_Releases(t) ==
    /\ thr[t].pc = "stopAnswered"
    /\ ReleaseGraph(t)
    /\ UNCHANGED <<toWorker, toClient, proc, faults, aborted>>

StopAnswered(t) ==
    /\ thr[t].pc = "stopAnswered"
    /\ IF StopOk(t, thr[t].resp) THEN ReleaseGraph(t) ELSE InvalidateWorker(t)
    /\ UNCHANGED <<toWorker, toClient, proc, faults, aborted>>

StatsCall(t) ==
    /\ thr[t].pc = "idle" /\ thr[t].running
    /\ \E next \in CallsOnLease(t, "HealthCheck", "statsHealthChecked") : thr' = [thr EXCEPT ![t] = next]
    /\ UNCHANGED <<chan, toWorker, toClient, proc, workers, faults, aborted>>

StatsHealthAnswered(t) ==
    /\ thr[t].pc = "statsHealthChecked"
    /\ \/ /\ HealthOk(thr[t].resp)
          /\ \E next \in CallsOnLease(t, "Stats", "statsAnswered") : thr' = [thr EXCEPT ![t] = next]
          /\ UNCHANGED <<chan, workers>>
       \/ ~HealthOk(thr[t].resp) /\ InvalidateWorker(t)
    /\ UNCHANGED <<toWorker, toClient, proc, faults, aborted>>

StatsAnswered(t) ==
    /\ thr[t].pc = "statsAnswered"
    /\ \/ /\ StatsOk(t, thr[t].resp)
          /\ thr' = [thr EXCEPT ![t] = Idle(@)]
          /\ UNCHANGED <<chan, workers>>
       \/ ~StatsOk(t, thr[t].resp) /\ InvalidateWorker(t)
    /\ UNCHANGED <<toWorker, toClient, proc, faults, aborted>>

-----------------------------------------------------------------------------
\* The process exits once every source is gone: the manager's destructor,
\* shutdown_all_workers_noexcept.
ShutdownAll(t) ==
    /\ \A g \in Graphs : thr[g].pc = "idle" /\ ~thr[g].running
    /\ thr[t].pc = "idle"
    /\ workers' = {}
    /\ \E shutdown \in WorkersToShutdown(workers) : \E next \in Retiring(t, thr[t], shutdown, "done") :
         thr' = [thr EXCEPT ![t] = next]
    /\ UNCHANGED <<chan, toWorker, toClient, proc, faults, aborted>>

ThreadStep(t) ==
    /\ ~aborted
    /\ \/ EnsureChecked(t) /\ UNCHANGED workers
       \/ StartWorkerAndSend(t) /\ UNCHANGED workers
       \/ StartWorkerFails(t) /\ UNCHANGED workers
       \/ Send(t) /\ UNCHANGED workers
       \/ WaitEnds(t) /\ UNCHANGED workers
       \/ WaitTimesOut(t) /\ UNCHANGED workers
       \/ CloseSocket(t) /\ UNCHANGED workers
       \/ JoinReader(t) /\ UNCHANGED workers
       \/ CloseEnds(t)
    /\ UNCHANGED calls

ClientStep(g) ==
    /\ ~aborted
    /\ \/ AcquireFails(g) \/ Acquire(g) \/ HandshakeFails(g) \/ Register(g)
       \/ PrepareFails(g) \/ Prepare(g) \/ StartAnswered(g)
       \/ StopAnswered(g) \/ StatsHealthAnswered(g) \/ StatsAnswered(g)
    /\ UNCHANGED calls

ClientCall(g) ==
    /\ ~aborted
    /\ \/ /\ calls < MaxCalls
          /\ calls' = calls + 1
          /\ \/ \E runtime \in RuntimesOf[g] : StartCall(g, runtime)
             \/ StatsCall(g)
       \/ StopCall(g) /\ UNCHANGED calls

ReaderStep(c) == ~aborted /\ (ReaderFiles(c) \/ ReaderFails(c)) /\ UNCHANGED <<workers, calls>>

WorkerStep(c) == ~aborted /\ (WorkerHandles(c) \/ WorkerReadsEof(c)) /\ UNCHANGED <<workers, calls>>

WorkerFault(c) ==
    /\ ~aborted
    /\ \/ WorkerCrashes(c)
       \/ WorkerHangs(c)
       \/ \E g \in Graphs : SessionFails(c, g)
    /\ UNCHANGED <<workers, calls>>

\* The client process is gone: the only states the system may rest in.
ProcessGone == aborted \/ thr[Exit].pc = "done"

Next ==
    \/ \E t \in Threads : ThreadStep(t)
    \/ \E g \in Graphs : ClientStep(g) \/ ClientCall(g)
    \/ \E c \in Channels : ReaderStep(c) \/ WorkerStep(c) \/ WorkerFault(c)
    \/ ~aborted /\ ShutdownAll(Exit) /\ UNCHANGED calls
    \/ ProcessGone /\ UNCHANGED vars

Spec == Init /\ [][Next]_vars

-----------------------------------------------------------------------------
\* Properties.

\* The state has its type: a response map holds at most one answer per id
\* (two counters number the requests of one channel), and handlers and
\* active graphs are graphs.
TypeOK ==
    /\ \A c \in Channels : proc[c] \in WorkerStates
    /\ \A c \in Channels :
         /\ chan[c].reader \in {"none", "running", "ended"}
         /\ \A e, f \in chan[c].responses : e.id = f.id => e = f
         /\ chan[c].handlers \subseteq Graphs
    /\ \A r \in workers : r.runtime \in Runtimes /\ r.active \subseteq Graphs
    /\ \A t \in Threads : thr[t].lease \in Channels \cup {NoChannel}

\* The graphs a record counts are exactly the clients that hold its lease,
\* on every path of success and failure: a graph that is forgotten keeps a
\* worker for ever, one that is not counted loses its worker.  And at most
\* one usable worker per runtime is cached, however many clients acquire at
\* once: two processes must not open one device.
LeasesAreSound ==
    /\ TypeOK
    /\ \A r \in workers : r.active = {g \in Graphs : thr[g].lease = r.chan}
    /\ \A r, s \in workers : (Healthy(r.chan) /\ Healthy(s.chan) /\ r.runtime = s.runtime) => r = s

\* A cached worker receives for no graph its record does not count: whatever
\* answer was lost, late or taken by another request, no graph goes on
\* receiving in a worker that the manager may hand to somebody else.  And a
\* client that is running and whose worker is alive on a healthy channel has
\* its graph and its event handler there.
WorkersServeTheirClients ==
    /\ \A r \in workers : proc[r.chan].graphs \subseteq r.active
    /\ \A g \in Graphs :
         LET c == thr[g].lease IN
         (thr[g].running /\ thr[g].pc = "idle" /\ Healthy(c) /\ proc[c].alive)
           => g \in proc[c].graphs /\ g \in chan[c].handlers

\* A healthy worker that graphs use is given up only by a step of one of its
\* own clients: its last one, or one that shuts it down as unusable.
SharedWorkerSpared ==
    [][\A r \in workers :
         (Healthy(r.chan) /\ r.active # {} /\ \A s \in workers' : s.chan # r.chan)
           => \E g \in r.active : /\ thr'[g] # thr[g]
                                  /\ r.active = {g} \/ thr'[g].retire = <<r.chan>>]_vars

\* No worker process outlives the references to its channel, and none is
\* left when the manager is gone, although a retired worker is not always
\* asked to shut down (shutdown_noexcept kills what is left).
ProcessesAreEnded ==
    /\ \A c \in Channels :
         (proc[c].alive /\ RecordOf(c) = {}) => \E t \in Threads : c \in References(t)
    /\ thr[Exit].pc = "done" => \A c \in Channels : ~proc[c].alive

\* A thread that waits for an answer (wait_for_response) or joins a reader
\* (shutdown_noexcept) is never forgotten:
\* the answer is there, under way or being worked on, or a failure that ends
\* the wait is, or the end of file that brings it; only a worker that hangs
\* needs the time-out.  (Every other step of a thread is enabled at once, so
\* no thread waits for ever and the run ends only when the process is gone.)
WaitsEnd ==
    \A t \in Threads :
      LET c   == thr[t].chan
          id  == thr[t].req.id
          has(s) == \E e \in s : e.id = id
      IN
      /\ thr[t].pc = "wait" =>
           \/ ResponsesFor(t) # {} \/ chan[c].failed \/ chan[c].shutdown
           \/ proc[c].hung
           \/ has(Range(toWorker[c])) /\ proc[c].alive
           \/ chan[c].reader = "running" /\ (has(Range(toClient[c])) \/ ~proc[c].alive)
      /\ (thr[t].pc = "join" /\ chan[c].reader = "running") => ~chan[c].fd

\* Nothing is left behind and nobody waits for ever: no process without a
\* reference to it, no waiting thread that nothing would wake.
NothingIsForgotten == ProcessesAreEnded /\ WaitsEnd

-----------------------------------------------------------------------------
(* What the safety properties need to be inductive.                        *)

Requests ==
    {r \in [kind : RequestKinds, id : Nat, by : {"client", "manager"},
            graph : Graphs \cup {NoGraph}, runtime : Runtimes \cup {NoRuntime}] :
       r.kind = "StartSessions" => r.graph \in Graphs}

Events ==
    [kind : EventKinds \cup {"none", "failed"}, id : Nat, by : {"client", "manager", "none"},
     graph : Graphs \cup {NoGraph}, arg : ErrorClasses \cup {"none", "ok", "healthy", "unhealthy"}]

ChannelStates ==
    [fd : BOOLEAN, pid : BOOLEAN, reader : {"none", "running", "ended"}, failed : BOOLEAN,
     shutdown : BOOLEAN, responses : SUBSET Events, handlers : SUBSET Graphs]

\* The labels a transaction returns to: of a handshake, on a lease, and
\* before the teardown of a retired worker.
LeaseLabels == {"healthChecked", "startAnswered", "stopAnswered", "statsHealthChecked", "statsAnswered"}
Returns == LeaseLabels \cup {"handshaken", "close"}

TransactionLabels == {"ensure", "start", "wait"}
TeardownLabels == {"close", "join", "terminate"}

ThreadStates ==
    [pc : {"idle", "acquire", "done"} \cup Returns \cup TransactionLabels \cup TeardownLabels,
     rt : Runtimes \cup {NoRuntime}, lease : Channels \cup {NoChannel}, spawned : Channels \cup {NoChannel},
     retire : Seq(Channels), after : {"idle", "acquired", "invalidated", "done"},
     chan : Channels \cup {NoChannel}, req : Requests \cup {NoRequest}, resp : Events,
     ret : Returns \cup {"idle"}, cret : {"idle", "retired", "returned"},
     handler : BOOLEAN, running : BOOLEAN]

Records == [chan : Channels, runtime : Runtimes, active : SUBSET Graphs]

Types ==
    /\ chan \in [Channels -> ChannelStates] /\ proc \in [Channels -> WorkerStates]
    /\ toWorker \in [Channels -> Seq(Requests)] /\ toClient \in [Channels -> Seq(Events)]
    /\ thr \in [Threads -> ThreadStates]
    /\ workers \subseteq Records /\ IsFiniteSet(workers)
    /\ \A c \in Channels : \A e, f \in chan[c].responses : e.id = f.id => e = f

\* Where a thread is, and what it holds there: the label its transaction
\* returns to counts as its place.
Transacting(th) == th.pc \in TransactionLabels
Place(th) == IF Transacting(th) THEN th.ret ELSE th.pc

\* The request of a transaction, with an id that no other request of the same
\* counter has.
Asks(t, th) ==
    Transacting(th) =>
        /\ th.req \in Requests
        /\ th.req.by = IF th.ret \in LeaseLabels THEN "client" ELSE "manager"
        /\ th.ret = "close" <=> th.req.kind = "Shutdown"
        /\ \A u \in Threads \ {t} :
             (Transacting(thr[u]) /\ thr[u].req.by = th.req.by) => thr[u].req.id # th.req.id

RequestsDiffer == \A t \in Threads : Asks(t, thr[t])

HoldsOnly(th, lease, spawned) == th.lease = lease /\ th.spawned = spawned /\ th.retire = <<>>

Resting(t, th) ==
    /\ th.pc = "idle" /\ HoldsOnly(th, th.lease, NoChannel)
    /\ th.running <=> th.lease # NoChannel
    /\ th.running => t \in Graphs

Acquiring(th) == th.pc = "acquire" /\ HoldsOnly(th, NoChannel, NoChannel) /\ th.rt \in Runtimes /\ ~th.running

\* On a channel that nobody else knows.
Handshaking(th) ==
    /\ Place(th) = "handshaken" /\ HoldsOnly(th, NoChannel, th.spawned) /\ th.spawned # NoChannel
    /\ th.rt \in Runtimes /\ ~th.running
    /\ Transacting(th) => th.chan = th.spawned

OnLease(th) ==
    /\ Place(th) \in LeaseLabels /\ HoldsOnly(th, th.lease, NoChannel) /\ th.lease # NoChannel
    /\ th.running <=> Place(th) \notin {"healthChecked", "startAnswered"}
    /\ Transacting(th) => th.chan = th.lease

\* In shutdown_worker_leases_noexcept, or in shutdown_noexcept for a channel
\* nobody else refers to.
RetiringWorkers(t, th) ==
    /\ Place(th) \in TeardownLabels /\ th.cret = "retired"
    /\ th.retire # <<>> /\ th.chan = Head(th.retire) /\ th.spawned = NoChannel /\ ~th.running
    /\ \/ th.after = "acquired" /\ th.rt \in Runtimes
       \/ th.after = "invalidated" /\ th.retire = <<th.lease>>
       \/ th.after = "done" /\ th.lease = NoChannel /\ t = Exit

LeavingChannel(th) ==
    /\ th.pc \in TeardownLabels /\ th.cret = "returned" /\ th.chan # NoChannel
    /\ HoldsOnly(th, NoChannel, NoChannel) /\ ~th.running

Finished(t, th) == th.pc = "done" /\ t = Exit /\ HoldsOnly(th, NoChannel, NoChannel) /\ ~th.running

OutlineOf(t, th) ==
    \/ Resting(t, th) \/ Acquiring(th) \/ Handshaking(th) \/ OnLease(th)
    \/ RetiringWorkers(t, th) \/ LeavingChannel(th) \/ Finished(t, th)

Outline == \A t \in Threads : OutlineOf(t, thr[t])

\* The manager's destructor runs alone.
ExitIsAlone ==
    thr[Exit].pc # "idle" => workers = {} /\ \A g \in Graphs : thr[g].pc = "idle" /\ ~thr[g].running

\* A channel whose worker was started can only lose its health.
Begun(c) == WorkerStarted(c) \/ chan[c].failed \/ chan[c].shutdown

\* Only its own thread refers to a channel whose handshake is under way, and
\* an answer to the handshake means that the worker was started.
SpawnedAlone ==
    \A t \in Threads : thr[t].spawned # NoChannel =>
        /\ RecordOf(thr[t].spawned) = {}
        /\ \A u \in Threads \ {t} : thr[t].spawned \notin References(u)
        /\ (thr[t].pc = "wait" \/ (thr[t].pc = "handshaken" /\ thr[t].resp.kind = "Health"))
             => Begun(thr[t].spawned)

\* A worker to be shut down has left the records for good; one thread shuts
\* it down, once.
RetiredUnrecorded == \A t \in Threads : \A c \in Range(thr[t].retire) : RecordOf(c) = {}

Once(s) == \A i, j \in DOMAIN s : s[i] = s[j] => i = j

RetiredOnce ==
    \A t \in Threads : /\ Once(thr[t].retire)
                       /\ \A u \in Threads \ {t} : Range(thr[t].retire) \cap Range(thr[u].retire) = {}

\* Nobody but thread t knows channel c, as when it leaves the channel.
Alone(t, c) == RecordOf(c) = {} /\ \A u \in Threads \ {t} : c \notin References(u)

LeavesAlone == \A t \in Threads : LeavingChannel(thr[t]) => Alone(t, thr[t].chan)

\* One record per channel, with the clients that lease it.
RecordsCount ==
    /\ \A r, s \in workers : r.chan = s.chan => r = s
    /\ \A r \in workers : r.active = {g \in Graphs : thr[g].lease = r.chan} /\ Begun(r.chan)

OneWorkerPerRuntime ==
    \A r, s \in workers : (Healthy(r.chan) /\ Healthy(s.chan) /\ r.runtime = s.runtime) => r = s

\* Whatever is open is referred to.
Referred(c) == RecordOf(c) # {} \/ \E t \in Threads : c \in References(t)

OpenIsReferred ==
    \A c \in Channels : /\ Open(c) => Referred(c)
                        /\ proc[c].alive => chan[c].pid

LeaseInv ==
    /\ Types /\ Outline /\ ExitIsAlone
    /\ SpawnedAlone /\ RetiredUnrecorded /\ RecordsCount /\ OneWorkerPerRuntime /\ OpenIsReferred
    /\ RequestsDiffer /\ RetiredOnce /\ LeavesAlone

\* What is needed on top of it for the threads that wait.

Down(c) == chan[c].failed \/ chan[c].shutdown
HasReader(c) == chan[c].reader # "none"

\* A usable channel is read; an open socket has a reader, ended or not.
ReadersServe ==
    \A c \in Channels : /\ Healthy(c) => chan[c].reader = "running"
                        /\ chan[c].fd => HasReader(c)

\* A thread that joins a reader has closed the socket, for good.
TeardownsClose ==
    \A t \in Threads : /\ thr[t].pc \in {"join", "terminate"} => chan[thr[t].chan].shutdown
                       /\ thr[t].pc = "join" => ~chan[thr[t].chan].fd

\* No reader is joined but by the thread that shuts the worker down, so that no
\* transaction can start the worker again before.
ReadersStay ==
    /\ \A r \in workers : HasReader(r.chan)
    /\ \A t \in Threads : \A c \in Range(thr[t].retire) :
         HasReader(c) \/ (thr[t].pc = "terminate" /\ thr[t].chan = c)
    /\ \A t \in Threads :
         (thr[t].spawned # NoChannel
            /\ (thr[t].pc = "wait" \/ (thr[t].pc = "handshaken" /\ thr[t].resp.kind = "Health")))
           => HasReader(thr[t].spawned)

WaitsBegun == \A t \in Threads : thr[t].pc = "wait" => Begun(thr[t].chan)

\* The request of a waiting thread, or one with its id, is under way, or it is
\* answered, or no answer will come.  The answer to a request may be taken by
\* a Shutdown with its id, which then waits for the worker's end; so for a
\* Shutdown only that end counts.
Attended(c, q) ==
    \/ Down(c) \/ proc[c].hung \/ ~proc[c].alive
    \/ \E r \in Range(toWorker[c]) : r.id = q.id /\ (q.kind = "Shutdown" => r.kind = "Shutdown")
    \/ q.kind # "Shutdown" /\ \E e \in Range(toClient[c]) \cup chan[c].responses : e.id = q.id

Heard == \A t \in Threads : thr[t].pc = "wait" => Attended(thr[t].chan, thr[t].req)

WaitInv == ReadersServe /\ TeardownsClose /\ ReadersStay /\ WaitsBegun /\ Heard
\* What is needed on top of it for the graphs in the workers.

Recorded(c) == RecordOf(c) # {}
Serving(c) == Healthy(c) /\ proc[c].alive
Leased(c) == \E g \in Graphs : thr[g].lease = c

\* A channel that may still serve a client.  It comes into use when it is
\* recorded, and never again.
InUse(c) == Recorded(c) \/ (Serving(c) /\ Leased(c))

Answers(c) == Range(toClient[c]) \cup chan[c].responses
SessionKinds == {"StartSessions", "StopSessions"}

\* A thread asks for what the label it returns to is about.
AsksAbout(t, th) ==
    Transacting(th) =>
        /\ th.req.kind = "StartSessions" <=> th.ret = "startAnswered"
        /\ th.req.kind = "StopSessions" <=> th.ret = "stopAnswered"
        /\ th.req.kind = "ConfigHandshake" <=> th.ret = "handshaken"
        /\ th.req.kind \in SessionKinds => th.req.graph = t

AsksFor == \A t \in Threads : AsksAbout(t, thr[t])

\* Only clients hold leases, of channels that were started, and none retires
\* the worker it has just leased.
LeaseBegun(t, th) ==
    th.lease # NoChannel =>
        /\ t \in Graphs /\ Begun(th.lease)
        /\ th.lease \in Range(th.retire) => th.after = "invalidated"

LeasesBegun == \A t \in Threads : LeaseBegun(t, thr[t])

\* Answers are left only on a channel that is read or about to be cleared.
AnswersRead ==
    \A c \in Channels : \/ HasReader(c) \/ chan[c].responses = {}
                        \/ \E t \in Threads : thr[t].pc = "terminate" /\ thr[t].chan = c

\* The one request of a handshake is on its way, or answered, or lost with the
\* worker; once it is accepted the socket is empty.
HandshakeOf(th, c) ==
    /\ th.pc \in {"ensure", "start"} => ~Open(c) /\ chan[c].responses = {}
    /\ th.pc = "wait" =>
         /\ proc[c].graphs = {}
         /\ \/ toWorker[c] = <<th.req>> /\ toClient[c] = <<>> /\ chan[c].responses = {}
            \/ toWorker[c] = <<>> /\ Len(toClient[c]) = 1 /\ chan[c].responses = {}
            \/ toWorker[c] = <<>> /\ toClient[c] = <<>> /\ \A e, f \in chan[c].responses : e = f
    /\ (th.pc = "handshaken" /\ th.resp.kind = "Health") =>
         proc[c].graphs = {} /\ toWorker[c] = <<>> /\ Answers(c) = {}

HandshakesEmpty == \A t \in Threads : thr[t].spawned # NoChannel => HandshakeOf(thr[t], thr[t].spawned)

\* The manager says nothing on a channel in use but to shut down a worker that
\* has left the records; its answer is the worker's last.
ManagerSilent ==
    \A c \in Channels : InUse(c) =>
        /\ \A r \in Range(toWorker[c]) : r.by = "manager" => r.kind = "Shutdown" /\ ~Recorded(c)
        /\ \A r \in Range(toWorker[c]) : r.kind = "Shutdown" => r.by = "manager"
        /\ \A e \in Answers(c) : e.by = "client"

\* No id of a client's request is on its way twice: what has the id of a
\* pending request is that request, sent.
OwnId(th) ==
    (Transacting(th) /\ th.req.by = "client" /\ InUse(th.chan)) =>
        /\ \A r \in Range(toWorker[th.chan]) :
             (r.by = "client" /\ r.id = th.req.id) => th.pc = "wait" /\ r = th.req
        /\ th.pc # "wait" => \A e \in Answers(th.chan) : e.id # th.req.id

IdsOnce ==
    /\ \A c \in Channels : InUse(c) =>
         /\ \A i, j \in DOMAIN toWorker[c] :
              (toWorker[c][i].by = "client" /\ toWorker[c][j].by = "client"
                 /\ toWorker[c][i].id = toWorker[c][j].id) => i = j
         /\ \A r \in Range(toWorker[c]), e \in Answers(c) : r.by = "client" => r.id # e.id
    /\ \A t \in Threads : OwnId(thr[t])

\* A request about a graph is the one its client waits for, or has given up
\* together with the channel.
Owns(th, c, r) ==
    /\ th.lease = c
    /\ \/ th.pc = "wait" /\ th.req = r
       \/ th.pc \in {"startAnswered", "stopAnswered"} /\ th.resp = Failed /\ Down(c)

OwnRequests ==
    \A c \in Channels : InUse(c) =>
        \A r \in Range(toWorker[c]) : r.kind \in SessionKinds => r.graph \in Graphs /\ Owns(thr[r.graph], c, r)

\* No graph in a worker of the records but those of its clients.
NoOrphans == \A c \in Channels : Recorded(c) => \A g \in proc[c].graphs : thr[g].lease = c

\* Whether the worker behind c has no session of graph g, or has one and the
\* client hears of its frames.
Clean(g, c)  == Recorded(c) => g \notin proc[c].graphs
Served(g, c) == Serving(c) => g \in proc[c].graphs
Registered(g, c) == Healthy(c) => g \in chan[c].handlers

\* What answer ev tells client g that has asked to start, or to stop.
StartTells(g, c, ev) == (ev.kind = "Started" => Served(g, c)) /\ (ev.kind = "Error" => Clean(g, c))
StopTells(g, c, ev)  == ev.kind = "Stopped" => Clean(g, c)

Starting(g, th, c) ==
    /\ Registered(g, c)
    /\ th.pc \in {"ensure", "start"} => Clean(g, c)
    /\ th.pc = "wait" =>
         /\ th.req \in Range(toWorker[c]) => Clean(g, c)
         /\ \A e \in Answers(c) : e.id = th.req.id => StartTells(g, c, e)
    /\ th.pc = "startAnswered" => StartTells(g, c, th.resp)

Stopping(g, th, c) ==
    /\ th.pc = "wait" => \A e \in Answers(c) : e.id = th.req.id => StopTells(g, c, e)
    /\ th.pc = "stopAnswered" => StopTells(g, c, th.resp)

Stands(g, th, c) ==
    /\ Place(th) = "startAnswered" => Starting(g, th, c)
    /\ Place(th) = "stopAnswered" => Stopping(g, th, c)
    /\ Place(th) \notin {"startAnswered", "stopAnswered"} =>
         IF th.running THEN Served(g, c) /\ Registered(g, c) ELSE Clean(g, c)

ClientsStand == \A g \in Graphs : thr[g].lease # NoChannel => Stands(g, thr[g], thr[g].lease)

ServeInv ==
    /\ AsksFor /\ LeasesBegun /\ AnswersRead /\ HandshakesEmpty /\ ManagerSilent /\ IdsOnce /\ OwnRequests
    /\ NoOrphans /\ ClientsStand
=============================================================================
