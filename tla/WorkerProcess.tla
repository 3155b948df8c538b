--------------------------- MODULE WorkerProcess ---------------------------
(***************************************************************************)
(* The MTL receive worker: a process that reads requests, handles each one *)
(* to its end and writes one event back.  The handlers are relations from  *)
(* the worker's state and a request to the set of outcomes it may have:    *)
(* the MTL library may refuse a runtime or a session (a fault), and which  *)
(* of several failed graphs is reported first is not fixed.                *)
(*                                                                         *)
(* Errors are abstracted to what the client tells apart                    *)
(* (is_backend_runtime_error): "backend" errors and all others, "value".   *)
(***************************************************************************)
EXTENDS Naturals, FiniteSets

CONSTANTS
    Graphs,    \* graph ids, one per client
    Runtimes   \* runtime configurations, compared for equality only

NoRuntime == "no runtime"
NoGraph   == "graph 0"
ErrorClasses == {"backend", "value"}

RequestKinds == {"ConfigHandshake", "StartSessions", "StopSessions", "Stats",
                 "HealthCheck", "Shutdown"}
EventKinds == {"Health", "Started", "Stopped", "Stats", "Error"}

\* A worker: hung stands for a call into MTL that does not return, sick is
\* the set of graphs one of whose sessions has failed, health is the sticky
\* worker_unhealthy_ with its first error.
NoWorker == [alive |-> FALSE, hung |-> FALSE, runtime |-> NoRuntime,
             graphs |-> {}, sick |-> {}, health |-> "ok", shutdown |-> FALSE]
NewWorker == [NoWorker EXCEPT !.alive = TRUE]
WorkerStates ==
    [alive : BOOLEAN, hung : BOOLEAN, runtime : Runtimes \cup {NoRuntime},
     graphs : SUBSET Graphs, sick : SUBSET Graphs,
     health : ErrorClasses \cup {"ok"}, shutdown : BOOLEAN]

\* The answer to request r; arg is the error class or the reported health.
Answer(r, kind, graph, arg) ==
    [kind |-> kind, id |-> r.id, by |-> r.by, graph |-> graph, arg |-> arg]

Outcome(w, ev, fault) == [w |-> w, ev |-> ev, fault |-> fault]
MakeError(w, r, class) == Outcome(w, Answer(r, "Error", r.graph, class), FALSE)

\* mark_worker_unhealthy_noexcept keeps the first error.
Marked(w, class) == IF w.health = "ok" THEN [w EXCEPT !.health = class] ELSE w

\* The states refresh_worker_health_noexcept may leave: a failed graph may
\* report either class of error.
Refreshed(w) ==
    IF w.shutdown THEN {Marked(w, "backend")}
    ELSE IF w.sick # {} THEN {Marked(w, e) : e \in ErrorClasses}
    ELSE {w}

\* MtlRuntimeContext::create: mtl_init succeeds or fails.
RuntimeCreated(w, runtime) == [w EXCEPT !.runtime = runtime]
RuntimeFailed(w, r) ==
    Outcome(w, Answer(r, "Error", r.graph, "backend"), TRUE)

HandleConfigHandshake(w, r) ==
    IF w.shutdown THEN {MakeError(w, r, "backend")}
    ELSE UNION {
        IF u.health # "ok" THEN {MakeError(u, r, u.health)}
        ELSE IF u.runtime = NoRuntime
        THEN {Outcome(RuntimeCreated(u, r.runtime), Answer(r, "Health", NoGraph, "healthy"), FALSE),
              RuntimeFailed(u, r)}
        ELSE IF u.runtime # r.runtime THEN {MakeError(u, r, "backend")}
        ELSE {Outcome(u, Answer(r, "Health", NoGraph, "healthy"), FALSE)}
        : u \in Refreshed(w)}

\* MtlReceiveGraph::create: the rings are mapped, then the video and the
\* audio session are staged; when one fails, what was staged is destroyed
\* with the graph object and nothing is kept.
GraphCreated(w, r) ==
    {Outcome([w EXCEPT !.graphs = @ \cup {r.graph}], Answer(r, "Started", r.graph, "ok"), FALSE)}
    \cup {Outcome(w, Answer(r, "Error", r.graph, e), TRUE) : e \in ErrorClasses}

\* The client never sends graph 0, a request without media or descriptors
\* without a ring, so those three early returns do not appear.
HandleStartSessions(w, r) ==
    IF w.shutdown THEN {MakeError(w, r, "backend")}
    ELSE UNION {
        IF u.health # "ok" THEN {MakeError(u, r, u.health)}
        ELSE IF r.graph \in u.graphs THEN {MakeError(u, r, "backend")}
        ELSE IF u.runtime = NoRuntime
        THEN GraphCreated(RuntimeCreated(u, r.runtime), r) \cup {RuntimeFailed(u, r)}
        ELSE IF u.runtime # r.runtime THEN {MakeError(u, r, "backend")}
        ELSE GraphCreated(u, r)
        : u \in Refreshed(w)}

\* An unknown graph is answered Stopped.  Otherwise the graph goes whatever
\* the worker's health, which is read before.
HandleStopSessions(w, r) ==
    IF r.graph \notin w.graphs
    THEN {Outcome(w, Answer(r, "Stopped", r.graph, "ok"), FALSE)}
    ELSE { LET without == [u EXCEPT !.graphs = @ \ {r.graph}, !.sick = @ \ {r.graph}]
           IN IF u.health # "ok" THEN MakeError(without, r, u.health)
              ELSE Outcome(without, Answer(r, "Stopped", r.graph, "ok"), FALSE)
         : u \in Refreshed(w)}

HandleStats(w, r) ==
    { IF u.health # "ok" THEN MakeError(u, r, u.health)
      ELSE Outcome(u, Answer(r, "Stats", r.graph, "ok"), FALSE) : u \in Refreshed(w)}

HandleHealthCheck(w, r) ==
    { Outcome(u, Answer(r, "Health", NoGraph,
                        IF u.health = "ok" THEN "healthy" ELSE "unhealthy"), FALSE)
      : u \in Refreshed(w)}

\* first_graph_id: some graph of an unordered map, or 0.
HandleShutdown(w, r) ==
    { Outcome([w EXCEPT !.graphs = {}, !.sick = {}, !.runtime = NoRuntime, !.shutdown = TRUE],
              Answer(r, "Stopped", g, "ok"), FALSE)
      : g \in IF w.graphs = {} THEN {NoGraph} ELSE w.graphs}

\* MtlWorkerProcessState::handle
Handle(w, r) ==
    CASE r.kind = "ConfigHandshake" -> HandleConfigHandshake(w, r)
      [] r.kind = "StartSessions"   -> HandleStartSessions(w, r)
      [] r.kind = "StopSessions"    -> HandleStopSessions(w, r)
      [] r.kind = "Stats"           -> HandleStats(w, r)
      [] r.kind = "HealthCheck"     -> HandleHealthCheck(w, r)
      [] r.kind = "Shutdown"        -> HandleShutdown(w, r)
=============================================================================
