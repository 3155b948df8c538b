--------------------------- MODULE SourceRuntime ---------------------------
(***************************************************************************)
(* SourceRuntime::Impl: one OBS source.  OBS calls update(), the buttons   *)
(* and get_properties() one after the other; each call builds, starts,     *)
(* stops or destroys the receive graph: the sink, one backend per stream   *)
(* and, with MTL, the graph client both MTL proxies share.  Meanwhile the  *)
(* receive threads of the backends call the sink.                          *)
(*                                                                         *)
(* A call is a list of steps still to do; a step that waits for a receive  *)
(* thread (a join, the handler's mutex) is enabled when that thread is not *)
(* inside the sink.  What the graph client, the socket backends and the    *)
(* sink do inside is in GraphClient, SocketReceive and SynchronizedSink.   *)
(***************************************************************************)
EXTENDS SourceSelection

CONSTANTS
    Offers,     \* [name -> metadata]: what discovery may answer for the selected source
    Routes,     \* [network -> [nic, pci]]: the networks the host has a route to
    Policies,   \* reorder policies the user may choose
    MaxCalls,   \* bound: calls of the user and OBS
    MaxFaults   \* bound: failures of the system below

ASSUME OffersAssumption ==
    \A a, b \in DOMAIN Offers : a # b => ExtractSdpObjects(Offers[a]) # ExtractSdpObjects(Offers[b])

VARIABLES
    config,     \* config_
    requested,  \* receive_requested_
    built,      \* the configured graph's configuration and anchors: empty or a singleton
    width,      \* width_
    sink,       \* sink_: "none", "stopped", "running"
    backend,    \* video_backend_ and audio_backend_, by kind
    client,     \* the MtlWorkerGraphClient and who holds it
    active,     \* active_sessions_running_
    error,      \* last_error_: "empty", "started", "failed"
    todo,       \* the steps the present call has left
    inside,     \* receive threads inside a callback of the sink
    gone,       \* the source has been deleted
    calls, faults

vars == <<config, requested, built, width, sink, backend, client, active, error, todo,
          inside, gone, calls, faults>>

graph == <<built, width, sink, backend, client, active>>

Configs == [selected : DOMAIN Offers \cup {None}, backend : {"Socket", "Mtl"}, policy : Policies]

NoBackend == [object |-> None, started |-> FALSE, sink |-> FALSE]
NoClient  == [exists |-> FALSE, held |-> FALSE, running |-> FALSE, count |-> 0, sink |-> FALSE, live |-> FALSE]

\* The source after create(): update() with the first configuration.
Init ==
    /\ config \in Configs
    /\ requested = FALSE /\ active = FALSE /\ gone = FALSE
    /\ built = {} /\ width = 0 /\ sink = "none"
    /\ backend = [kind \in Kinds |-> NoBackend]
    /\ client = NoClient
    /\ error = "empty" /\ todo = <<>> /\ inside = {}
    /\ calls = 0 /\ faults = 0

-----------------------------------------------------------------------------
\* build_configured_graph

\* By the name of the offer: its SDP objects, its streams and their bootstraps.
ObjectsOf == [name \in DOMAIN Offers |-> ExtractSdpObjects(Offers[name])]
MediaOf   == [name \in DOMAIN Offers |-> MediaSet(ObjectsOf[name])]
BootsOf   == [name \in DOMAIN Offers |->
                [kind \in DOMAIN MediaOf[name] |-> Bootstrap(MediaOf[name][kind])]]

Boots(c) == BootsOf[c.selected]
MediaKinds(c) == DOMAIN Boots(c)
Streams(c) == [kind \in MediaKinds(c) |-> Boots(c)[kind].stream]

\* make_video_backend, make_audio_backend
BackendAccepted(c, kind) ==
    LET boot == Boots(c)[kind] IN
    /\ LocalPolicyFound(boot, Routes)
    /\ IF c.backend = "Mtl" THEN MtlStartAccepted(kind, boot, Routes) ELSE SocketStartAccepted(kind, boot)

\* configure_video, configure_audio and resolve_configured_mtl_runtime_key:
\* both streams come through the same ports.
OneRuntime(c) ==
    c.backend = "Mtl" =>
        \A k, l \in MediaKinds(c) : MtlRuntime(Boots(c)[k], Routes) = MtlRuntime(Boots(c)[l], Routes)

HasProviderSelectedSdp(c) == c.selected # None /\ ObjectsOf[c.selected] # <<>>

\* The configurations a graph can be built from.
Buildable ==
    {c \in Configs :
        /\ HasProviderSelectedSdp(c)
        /\ MediaOf[c.selected] # Refused
        /\ StreamsAccepted(MediaOf[c.selected])
        /\ \A kind \in MediaKinds(c) : BackendAccepted(c, kind)
        /\ OneRuntime(c)}

\* make_sink_config: with both streams their mappers start from the offset
\* of mediaclk:direct.  For another media clock the empty optional is
\* dereferenced, and any offset may come out.
Anchors(c) ==
    IF MediaKinds(c) # Kinds THEN {<<>>}
    ELSE {a \in [Kinds -> {0, 1}] : \A kind \in Kinds : Boots(c)[kind].clock = "direct" => a[kind] = 0}

-----------------------------------------------------------------------------
\* Steps of a call.

T(do) == [do |-> do, kind |-> None]
K(do, kind) == [do |-> do, kind |-> kind]

AtRest == todo = <<>>
Step(step) == ~AtRest /\ Head(todo) = step
Proceed == todo' = Tail(todo)
Fault == faults < MaxFaults /\ faults' = faults + 1

\* start_receive_graph
StartGraph == <<T("configure"), T("start")>>

StopBoth == <<K("stop", "video"), K("stop", "audio"), T("stopSink")>>

\* Mutant: the destructors are left to stop what runs.
DestroyGraph_SinkFirst == <<T("resetSink"), K("reset", "video"), K("reset", "audio"), T("resetClient"), T("resetRest")>>

\* destroy_configured_graph_noexcept
DestroyGraph ==
    <<T("stopActive"), K("reset", "video"), K("reset", "audio"), T("resetClient"), T("resetSink"), T("resetRest")>>

\* cleanup_started_sessions, the error, and what start_receive_graph does then
GiveUp == StopBoth \o <<T("startFailed")>> \o DestroyGraph

\* configured_graph_exists
Configured == sink # "none" /\ \E kind \in Kinds : backend[kind].object # None

\* ensure_configured_graph and commit_configured_graph
EnsureConfigured ==
    /\ Step(T("configure")) /\ Configured
    /\ Proceed
    /\ UNCHANGED <<graph, error, faults>>

Build ==
    /\ Step(T("configure")) /\ ~Configured
    /\ config \in Buildable
    /\ \E anchors \in Anchors(config) : built' = {[config |-> config, anchors |-> anchors]}
    /\ width' = IF "video" \in MediaKinds(config) THEN Streams(config)["video"].width ELSE 0
    /\ sink' = "stopped"
    /\ backend' = [kind \in Kinds |->
         IF kind \in MediaKinds(config) THEN [NoBackend EXCEPT !.object = config.backend] ELSE NoBackend]
    /\ client' = IF config.backend = "Mtl" THEN [NoClient EXCEPT !.exists = TRUE, !.held = TRUE] ELSE NoClient
    /\ active' = FALSE
    /\ error' = "empty"
    /\ Proceed
    /\ UNCHANGED faults

\* Mutant: a refused configuration returns without set_error.
BuildFails_Silent ==
    /\ Step(T("configure")) /\ ~Configured
    /\ IF config \in Buildable THEN Fault ELSE UNCHANGED faults
    /\ error' = "empty"
    /\ todo' = <<>>
    /\ UNCHANGED graph

\* Nothing was committed; start_receive_graph returns.
BuildFails ==
    /\ Step(T("configure")) /\ ~Configured
    /\ IF config \in Buildable THEN Fault ELSE UNCHANGED faults
    /\ error' = "failed"
    /\ todo' = <<>>
    /\ UNCHANGED graph

\* Only a backend that is there is started.
StartOf(kind) == IF backend[kind].object = None THEN <<>> ELSE <<K("start", kind)>>

\* start_active_sessions: the sink first, then each backend.
StartSessions ==
    /\ Step(T("start"))
    /\ IF active
       THEN Proceed /\ UNCHANGED sink
       ELSE /\ sink' = "running"
            /\ todo' = StartOf("video") \o StartOf("audio") \o <<T("started")>> \o Tail(todo)
    /\ UNCHANGED <<built, width, backend, client, active, error, faults>>

Started ==
    /\ Step(T("started"))
    /\ active' = TRUE
    /\ error' = "started"
    /\ Proceed
    /\ UNCHANGED <<built, width, sink, backend, client, faults>>

StartFailed ==
    /\ Step(T("startFailed"))
    /\ error' = "failed"
    /\ Proceed
    /\ UNCHANGED <<graph, faults>>

-----------------------------------------------------------------------------
\* The backends: SocketRx*Backend and MtlRx*BackendProxy.

Attached(b) == [b EXCEPT !.started = TRUE, !.sink = TRUE]
Detached(b) == [b EXCEPT !.started = FALSE, !.sink = FALSE]

StartSocket(kind) ==
    /\ Step(K("start", kind)) /\ backend[kind].object = "Socket"
    /\ \/ backend' = [backend EXCEPT ![kind] = Attached(@)] /\ Proceed /\ UNCHANGED faults
       \/ Fault /\ todo' = GiveUp /\ UNCHANGED backend
    /\ UNCHANGED <<built, width, sink, client, active, error>>

\* attach_sink, and start() of the client: a further start is only counted.
StartProxy(kind) ==
    /\ Step(K("start", kind)) /\ backend[kind].object = "Mtl"
    /\ IF client.running
       THEN /\ client' = [client EXCEPT !.sink = TRUE, !.count = @ + 1]
            /\ backend' = [backend EXCEPT ![kind] = Attached(@)]
            /\ Proceed
       ELSE \* The worker has a lease and the event handler is registered.
            /\ client' = [client EXCEPT !.sink = TRUE, !.live = TRUE]
            /\ backend' = [backend EXCEPT ![kind].sink = TRUE]
            /\ todo' = <<K("answer", kind)>> \o Tail(todo)
    /\ UNCHANGED <<built, width, sink, active, error, faults>>

\* No worker, no rings: the sink is detached again.
StartProxyFails(kind) ==
    /\ Step(K("start", kind)) /\ backend[kind].object = "Mtl" /\ ~client.running
    /\ Fault
    /\ todo' = GiveUp
    /\ UNCHANGED <<built, width, sink, backend, client, active, error>>

\* deactivate_noexcept takes the mutex the handler holds during a callback.
HandlerIdle == "worker" \notin inside

\* clear_started_graph_state_noexcept
ClientCleared == [client EXCEPT !.running = FALSE, !.count = 0, !.live = FALSE]

\* StartSessions is answered; frames may have come before the answer.
StartAnswered(kind) ==
    /\ Step(K("answer", kind))
    /\ \/ /\ client' = [client EXCEPT !.running = TRUE, !.count = 1]
          /\ backend' = [backend EXCEPT ![kind] = Attached(@)]
          /\ Proceed
          /\ UNCHANGED faults
       \/ /\ HandlerIdle
          /\ Fault
          /\ client' = [ClientCleared EXCEPT !.sink = FALSE]
          /\ backend' = [backend EXCEPT ![kind] = Detached(@)]
          /\ todo' = GiveUp
    /\ UNCHANGED <<built, width, sink, active, error>>

\* The threads are joined.
StopSocket(kind) ==
    /\ backend[kind].object = "Socket"
    /\ kind \notin inside
    /\ UNCHANGED client

\* stop() of the client: only the last one stops the graph, whatever the
\* worker answers; then the sink is detached.
StopProxy(kind) ==
    /\ backend[kind].object = "Mtl"
    /\ IF ~backend[kind].started THEN UNCHANGED client
       ELSE IF client.running /\ client.count > 1 THEN client' = [client EXCEPT !.count = @ - 1]
       ELSE HandlerIdle /\ client' = [ClientCleared EXCEPT !.sink = FALSE]

StopBackend(kind) ==
    /\ Step(K("stop", kind))
    /\ \/ backend[kind].object = None /\ UNCHANGED client
       \/ StopSocket(kind)
       \/ StopProxy(kind)
    /\ backend' = [backend EXCEPT ![kind] = Detached(@)]
    /\ Proceed
    /\ UNCHANGED <<built, width, sink, active, error, faults>>

StopSink ==
    /\ Step(T("stopSink"))
    /\ sink' = IF sink = "none" THEN sink ELSE "stopped"
    /\ Proceed
    /\ UNCHANGED <<built, width, backend, client, active, error, faults>>

\* sessions_may_be_running
SessionsMayBeRunning == active \/ client.running

\* stop_active_sessions_noexcept
StopActive ==
    /\ Step(T("stopActive"))
    /\ IF SessionsMayBeRunning
       THEN active' = FALSE /\ todo' = StopBoth \o Tail(todo)
       ELSE Proceed /\ UNCHANGED active
    /\ UNCHANGED <<built, width, sink, backend, client, error, faults>>

\* The client is destroyed with its last holder: stop_noexcept.
ClientReleased(held, bs) ==
    IF held \/ \E kind \in Kinds : bs[kind].object = "Mtl"
    THEN client' = [client EXCEPT !.held = held]
    ELSE (client.live => HandlerIdle) /\ client' = NoClient

\* video_backend_.reset(), audio_backend_.reset(): a socket backend's
\* destructor stops it, a proxy's only lets the client go.
ResetBackend(kind) ==
    /\ Step(K("reset", kind))
    /\ backend[kind].object = "Socket" => kind \notin inside
    /\ backend' = [backend EXCEPT ![kind] = NoBackend]
    /\ ClientReleased(client.held, backend')
    /\ Proceed
    /\ UNCHANGED <<built, width, sink, active, error, faults>>

ResetClient ==
    /\ Step(T("resetClient"))
    /\ ClientReleased(FALSE, backend)
    /\ Proceed
    /\ UNCHANGED <<built, width, sink, backend, active, error, faults>>

ResetSink ==
    /\ Step(T("resetSink"))
    /\ sink' = "none"
    /\ Proceed
    /\ UNCHANGED <<built, width, backend, client, active, error, faults>>

ResetRest ==
    /\ Step(T("resetRest"))
    /\ built' = {} /\ width' = 0 /\ active' = FALSE
    /\ Proceed
    /\ UNCHANGED <<sink, backend, client, error, faults>>

-----------------------------------------------------------------------------
\* Calls.

Call == AtRest /\ ~gone /\ calls < MaxCalls /\ calls' = calls + 1

\* graph_relevant_config_changed
GraphRelevantChanged(c) == c # config

\* The last step of an update without a request.
ClearError ==
    /\ Step(T("clearError"))
    /\ error' = "empty"
    /\ Proceed
    /\ UNCHANGED <<graph, faults>>

\* update(): the settings as read, with the source as discovery answers now.
Update(c) ==
    /\ Call
    /\ config' = c
    /\ todo' = IF GraphRelevantChanged(c)
               THEN DestroyGraph \o (IF requested THEN StartGraph ELSE <<T("clearError")>>)
               ELSE IF requested /\ ~Configured THEN StartGraph ELSE <<>>
    /\ UNCHANGED <<requested, graph, error, gone, faults>>

StartReceive ==
    /\ Call
    /\ requested' = TRUE
    /\ todo' = StartGraph
    /\ UNCHANGED <<config, graph, error, gone, faults>>

StopReceive ==
    /\ Call
    /\ requested' = FALSE
    /\ todo' = <<T("stopActive")>>
    /\ UNCHANGED <<config, graph, error, gone, faults>>

\* Mutant: a failed query is only reported.
AfterStatsFailed_KeepsGraph == <<>>

AfterStatsFailed == DestroyGraph

\* get_properties() asks for the statistics; a worker that does not answer
\* costs the graph.  With anything but a running MTL graph the call only
\* reads.
StatsFail ==
    /\ Call
    /\ config.backend = "Mtl" /\ client.exists /\ Configured /\ client.running
    /\ HandlerIdle
    /\ Fault
    /\ client' = ClientCleared
    /\ error' = "failed"
    /\ todo' = AfterStatsFailed
    /\ UNCHANGED <<config, requested, built, width, sink, backend, active, gone>>

\* destroy(): ~Impl
Delete ==
    /\ AtRest /\ ~gone
    /\ gone' = TRUE
    /\ todo' = DestroyGraph
    /\ UNCHANGED <<config, requested, graph, error, calls, faults>>

-----------------------------------------------------------------------------
\* The receive threads: those of the socket backends, and the channel's
\* reader, which runs the client's event handler.

MayEnter(t) ==
    IF t = "worker" THEN client.live ELSE backend[t].object = "Socket" /\ backend[t].started

EnterSink(t) == t \notin inside /\ MayEnter(t) /\ inside' = inside \cup {t}

LeaveSink(t) == t \in inside /\ inside' = inside \ {t}

-----------------------------------------------------------------------------
UserStep ==
    \/ EnsureConfigured \/ Build \/ BuildFails
    \/ StartSessions \/ Started \/ StartFailed
    \/ \E kind \in Kinds : \/ StartSocket(kind) \/ StartProxy(kind) \/ StartProxyFails(kind)
                           \/ StartAnswered(kind) \/ StopBackend(kind) \/ ResetBackend(kind)
    \/ StopSink \/ StopActive \/ ResetClient \/ ResetSink \/ ResetRest \/ ClearError

UserCall == (\E c \in Configs : Update(c)) \/ StartReceive \/ StopReceive \/ StatsFail \/ Delete

ThreadStep(t) == EnterSink(t) \/ LeaveSink(t)

Next ==
    \/ UserStep /\ UNCHANGED <<config, requested, inside, gone, calls>>
    \/ UserCall /\ UNCHANGED inside
    \/ \E t \in Kinds \cup {"worker"} :
         /\ ThreadStep(t)
         /\ UNCHANGED <<config, requested, graph, error, todo, gone, calls, faults>>
    \/ gone /\ AtRest /\ UNCHANGED vars

Spec == Init /\ [][Next]_vars

-----------------------------------------------------------------------------
\* Properties.

\* The state has its type; only an MTL graph has a client.
TypeOK ==
    /\ config \in Configs /\ error \in {"empty", "started", "failed"}
    /\ sink \in {"none", "stopped", "running"}
    /\ inside \subseteq Kinds \cup {"worker"}
    /\ client.count \in 0 .. 2
    /\ (\E kind \in Kinds : backend[kind].object = "Mtl") => client.exists

\* A receive thread inside on_video_frame or on_audio_frame is inside a sink
\* that exists and runs: the sink is started before the backends, and is
\* neither stopped nor destroyed while a socket thread or the client's event
\* handler can still reach it, whichever start failed and whichever call
\* tears the graph down.
CallbacksFindTheSink == inside # {} => sink = "running"

\* The state has its type, and between calls the client's active_start_count
\* is the number of proxies that are started, and no proxy is started on a
\* client that has lost its worker: the next stop() or start() of a proxy does
\* what it says.
StartsAreCounted ==
    LET started == {kind \in Kinds : backend[kind].object = "Mtl" /\ backend[kind].started}
    IN  /\ TypeOK
        /\ AtRest => client.count = Cardinality(started) /\ (client.running <=> started # {})

\* Without a request nothing receives: after stop_receive(), and after any
\* update or failed query that follows it, no backend is started, the sink
\* does not run, and the client neither runs nor knows the sink.
StoppedMeansQuiet ==
    AtRest /\ ~requested =>
        /\ ~active /\ sink # "running" /\ inside = {}
        /\ \A kind \in Kinds : ~backend[kind].started /\ ~backend[kind].sink
        /\ ~client.running /\ ~client.live /\ ~client.sink

\* A source that was asked to receive and does not says so: its last error
\* is set, so that the status of the properties dialog is a warning.
DownIsReported == AtRest /\ ~gone /\ requested /\ ~active => error = "failed" /\ ~Configured

\* Between calls what the source reports of itself is true: stopped means that
\* nothing receives, and asked for but not receiving means that an error shows.
StatusIsTrue == StoppedMeansQuiet /\ DownIsReported

\* Between calls the graph in place is the one of the current settings.
GraphFollowsConfig ==
    AtRest /\ Configured =>
        /\ \A g \in built : g.config = config
        /\ (width # 0) = ("video" \in MediaKinds(config))

\* The kinds of stream a metadata document announces.
Announced(meta) ==
    UNION {{meta[i].sections[j].media : j \in DOMAIN meta[i].sections} :
             i \in {n \in DOMAIN meta : meta[n].type = "sdp"}}

\* A source that receives receives every stream its metadata announces, in
\* whichever of the documented elements: one that cannot be told apart is
\* refused as a whole.
EveryStreamIsReceived ==
    AtRest /\ active => \A kind \in Announced(Offers[config.selected]) : backend[kind].started

\* Whatever updates, failures and restarts came before, the graph in place is
\* the one the settings and the metadata ask for, no stream left out.
GraphIsTheOneAskedFor == GraphFollowsConfig /\ EveryStreamIsReceived

\* A queue holds what arrives during the playout delay, a reorder window
\* what arrives during the jitter budget.
Holds(c, kind) ==
    LET s == Streams(c)[kind]
        item == ItemTimeNs(kind, s)
        maxUdp == Boots(c)[kind].legs[1].maxUdp
        packets == IF kind = "video" THEN PacketsPerFrame(s, maxUdp) ELSE 1
        tuning == PlayoutTuning(Streams(c))
    IN /\ tuning.queued[kind] * item >= tuning.delay + item
       /\ ReorderConfig(kind, s, maxUdp, c.policy).window >= CeilDiv(JitterBudgetNs * packets, item)

WellDimensioned == {c \in Buildable : \A kind \in MediaKinds(c) : Holds(c, kind)}

\* The graph in place is large enough: no frame that waits for its playout
\* time is pushed out of the sink's queue, whichever stream asks for the
\* longer delay, and no packet inside the jitter budget leaves the window.
BuffersHoldTheirDelay == \A g \in built : g.config \in WellDimensioned
-----------------------------------------------------------------------------
\* The inductive invariant.  A call is a program, and SourceInv its outline:
\* what holds always, and what holds before the step that is next.

StepSet ==
    [do : {"configure", "start", "answer", "started", "startFailed", "stop", "stopSink", "stopActive",
           "reset", "resetClient", "resetSink", "resetRest", "clearError"},
     kind : Kinds \cup {None}]

Types ==
    /\ config \in Configs /\ error \in {"empty", "started", "failed"}
    /\ sink \in {"none", "stopped", "running"}
    /\ requested \in BOOLEAN /\ active \in BOOLEAN /\ gone \in BOOLEAN
    /\ backend \in [Kinds -> [object : {None, "Socket", "Mtl"}, started : BOOLEAN, sink : BOOLEAN]]
    /\ client \in [exists : BOOLEAN, held : BOOLEAN, running : BOOLEAN, count : 0 .. 2,
                   sink : BOOLEAN, live : BOOLEAN]
    /\ inside \subseteq Kinds \cup {"worker"}
    /\ todo \in Seq(StepSet)

StartedProxy(kind) == backend[kind].object = "Mtl" /\ backend[kind].started
Starts == (IF StartedProxy("video") THEN 1 ELSE 0) + (IF StartedProxy("audio") THEN 1 ELSE 0)

Answering(kind) == Step(K("answer", kind))

\* Who may enter the sink finds it running, and has been let in by it.
Entered ==
    /\ \A t \in inside : MayEnter(t)
    /\ \A t \in Kinds \cup {"worker"} : MayEnter(t) => sink = "running"

\* A backend knows the sink from its start on.
BackendsWhole ==
    \A kind \in Kinds :
        /\ backend[kind].object = None => backend[kind] = NoBackend
        /\ backend[kind].sink => backend[kind].started \/ Answering(kind)

\* The client lives while it is held and counts the proxies that are started.
ClientWhole ==
    /\ client.exists = (client.held \/ \E kind \in Kinds : backend[kind].object = "Mtl")
    /\ ~client.exists => client = NoClient
    /\ IF client.running THEN client.live /\ client.count = Starts /\ Starts > 0 ELSE client.count = 0
    /\ client.live => client.running \/ \E kind \in Kinds : Answering(kind)
    /\ client.sink => Starts > 0 \/ \E kind \in Kinds : Answering(kind)

NothingStarted == \A kind \in Kinds : ~backend[kind].started
Stopped == ~active /\ sink # "running" /\ NothingStarted

NoBackends == \A kind \in Kinds : backend[kind] = NoBackend

\* No graph at all.
Clean ==
    /\ built = {} /\ width = 0 /\ sink = "none" /\ ~active
    /\ NoBackends /\ client = NoClient

\* The graph is there, is the one of the settings, and has a backend for each
\* of their streams.
InPlace ==
    /\ Configured
    /\ \A g \in built : g.config = config
    /\ \A kind \in Kinds : backend[kind].object # None <=> kind \in MediaKinds(config)

\* No proxy is started on a client that has lost its worker.
WorkerKept == Starts > 0 => client.running

AllStarted == \A kind \in Kinds : backend[kind].object # None => backend[kind].started

\* What every finished call leaves: a graph that is in place or none, the whole
\* of it running or nothing.
Settled == (InPlace \/ Clean) /\ WorkerKept /\ IF active THEN AllStarted ELSE Stopped

Between ==
    /\ Settled
    /\ active => requested
    /\ gone => Clean
    /\ requested /\ ~active /\ ~gone => error = "failed" /\ Clean

-----------------------------------------------------------------------------
\* The steps that are left, from within destroy_configured_graph_noexcept.
ThenRest(after) == <<T("resetRest")>> \o after
ThenSink(after) == <<T("resetSink")>> \o ThenRest(after)
ThenClient(after) == <<T("resetClient")>> \o ThenSink(after)
ThenAudio(after) == <<K("reset", "audio")>> \o ThenClient(after)
ThenVideo(after) == <<K("reset", "video")>> \o ThenAudio(after)

\* ... and after it: the source asked for a graph, or lost one and says so.
After(after) ==
    \/ after = <<>> /\ (gone \/ (requested /\ error = "failed"))
    \/ after = StartGraph /\ requested /\ ~gone
    \/ after = <<T("clearError")>> /\ ~requested /\ ~gone

Afters == {<<>>, StartGraph, <<T("clearError")>>}

\* After the backends and the sink have been stopped.
AfterStop(after) ==
    \/ after = <<>> /\ ~requested /\ ~gone /\ InPlace
    \/ after = <<T("startFailed")>> \o DestroyGraph /\ requested /\ ~gone
    \/ \E rest \in Afters : after = ThenVideo(rest) /\ After(rest)

\* While the backends are started one after the other.
Starting == requested /\ ~gone /\ ~active /\ InPlace /\ sink = "running" /\ WorkerKept

ToStart(kind) == backend[kind].object # None /\ ~backend[kind].started

\* The backends that follow kind.
Remaining(kind) ==
    \/ Tail(todo) = <<T("started")>> /\ \A k \in Kinds : k # kind /\ backend[k].object # None => backend[k].started
    \/ kind = "video" /\ ToStart("audio") /\ Tail(todo) = <<K("start", "audio"), T("started")>>

AtConfigure == Tail(todo) = <<T("start")>> /\ requested /\ ~gone /\ Settled
AtStart == Tail(todo) = <<>> /\ requested /\ ~gone /\ Settled /\ InPlace
AtStartOf(kind) == Starting /\ ToStart(kind) /\ Remaining(kind)
AtAnswer(kind) ==
    /\ Starting /\ ToStart(kind) /\ Remaining(kind)
    /\ backend[kind].object = "Mtl" /\ Starts = 0 /\ ~client.running /\ client.live
AtStarted == Tail(todo) = <<>> /\ requested /\ ~gone /\ InPlace /\ sink = "running" /\ WorkerKept /\ AllStarted
AtStopActive ==
    \/ Tail(todo) = <<>> /\ ~requested /\ ~gone /\ Settled
    \/ /\ \E after \in Afters : Tail(todo) = ThenVideo(after) /\ After(after)
       /\ active \/ client.running \/ Stopped
AtStopVideo ==
    /\ ~active
    /\ \E after \in Seq(StepSet) :
         Tail(todo) = <<K("stop", "audio")>> \o (<<T("stopSink")>> \o after) /\ AfterStop(after)
AtStopAudio ==
    /\ ~active /\ ~backend["video"].started
    /\ \E after \in Seq(StepSet) : Tail(todo) = <<T("stopSink")>> \o after /\ AfterStop(after)
AtStopSink == ~active /\ NothingStarted /\ AfterStop(Tail(todo))
AtStartFailed == Tail(todo) = DestroyGraph /\ requested /\ ~gone /\ Stopped
AtResetVideo == Stopped /\ \E after \in Afters : Tail(todo) = ThenAudio(after) /\ After(after)
AtResetAudio ==
    /\ Stopped /\ backend["video"] = NoBackend
    /\ \E after \in Afters : Tail(todo) = ThenClient(after) /\ After(after)
AtResetClient == Stopped /\ NoBackends /\ \E after \in Afters : Tail(todo) = ThenSink(after) /\ After(after)
AtResetSink ==
    /\ Stopped /\ NoBackends /\ client = NoClient
    /\ \E after \in Afters : Tail(todo) = ThenRest(after) /\ After(after)
AtResetRest ==
    Stopped /\ NoBackends /\ client = NoClient /\ sink = "none" /\ Tail(todo) \in Afters /\ After(Tail(todo))
AtClearError == Tail(todo) = <<>> /\ ~requested /\ ~gone /\ Clean

Before(step) ==
    /\ step = T("configure") => AtConfigure
    /\ step = T("start") => AtStart
    /\ \A kind \in Kinds : /\ step = K("start", kind) => AtStartOf(kind)
                           /\ step = K("answer", kind) => AtAnswer(kind)
    /\ step = T("started") => AtStarted
    /\ step = T("stopActive") => AtStopActive
    /\ step = K("stop", "video") => AtStopVideo
    /\ step = K("stop", "audio") => AtStopAudio
    /\ step = T("stopSink") => AtStopSink
    /\ step = T("startFailed") => AtStartFailed
    /\ step = K("reset", "video") => AtResetVideo
    /\ step = K("reset", "audio") => AtResetAudio
    /\ step = T("resetClient") => AtResetClient
    /\ step = T("resetSink") => AtResetSink
    /\ step = T("resetRest") => AtResetRest
    /\ step = T("clearError") => AtClearError

Outline ==
    /\ AtRest => Between
    /\ \A step \in StepSet : Step(step) => Before(step)

SourceInv == Types /\ Entered /\ BackendsWhole /\ ClientWhole /\ Outline

-----------------------------------------------------------------------------
\* What the proofs about the sizes of buffers and about the selection assume of
\* the offers.

\* The numbers of a stream that the parsers accept are positive.
Parsed(kind, s) ==
    IF kind = "video" THEN {s.fpsNum, s.fpsDen, s.width, s.height, s.bits} \subseteq Nat \ {0}
    ELSE s.packetTimeUs \in Nat \ {0}

\* The jitter budget and the margin fit into the largest window.
WindowFits(kind, s, maxUdp) ==
    CeilDiv(JitterBudgetNs, PacketSpacingNs(kind, s, maxUdp)) + Window[kind].margin <= Window[kind].max

StreamsAreParsed ==
    \A c \in Buildable : \A kind \in MediaKinds(c) :
        Parsed(kind, Streams(c)[kind]) /\ Boots(c)[kind].legs[1].maxUdp \in Nat

WindowsFit ==
    \A c \in Buildable : \A kind \in MediaKinds(c) :
        WindowFits(kind, Streams(c)[kind], Boots(c)[kind].legs[1].maxUdp)

\* A document whose objects are told apart announces nothing beside them.
SelectionIsComplete ==
    \A c \in Buildable : Announced(Offers[c.selected]) \subseteq MediaKinds(c)

\* A graph is built from a configuration that has been checked, and its width
\* is that of its picture.
BuiltChecked ==
    /\ \A g \in built : g.config \in Buildable
    /\ sink # "none" => \E g \in built : width = IF "video" \in MediaKinds(g.config)
                                                 THEN Streams(g.config)["video"].width ELSE 0
=============================================================================
